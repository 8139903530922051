------------------------------ MODULE Attendance ------------------------------
(***************************************************************************)
(* The punches of one employee and the work sessions calculated from them:  *)
(* the tap of the portal, the punches of devices and of HR, the queue of    *)
(* recalculations, the jobs that heal sessions, the absence mark and HR's   *)
(* approval of overtime.                                                    *)
(*                                                                          *)
(* Times are hours since some midnight.  A shift instance s is planned from *)
(* Start[s] to End[s]; its work date is the day of Start[s].  A recalculation*)
(* reads punches and session in a snapshot, and saves later: `fresh' holds  *)
(* the sessions whose row has kept the stamp it loaded.  Nothing orders a   *)
(* job and the requests, and a queued job may be lost.                      *)
(***************************************************************************)
EXTENDS Integers, FiniteSets, FiniteSetsExt, TLC

CONSTANTS
  Sessions,       \* shift instances: numbers, in the order of Start
  Start, End,     \* planned_start, planned_end
  Cap,            \* vn_max_total_work_hours: 20
  Times,          \* the hours at which something happens
  Punches,        \* names of Employee Checkin rows: numbers, given in order
  Taps,           \* client_request_ids of the portal's taps
  Requests,       \* request slots of web workers and jobs
  LockedDays,     \* days of the month that may be locked
  Stories,        \* sets of operations: a behaviour has those of one set; with "alone" in it
                  \* a request ends before anything else happens
  MaxInFlight     \* requests and jobs running at the same time

\* What the names, shifts and numbers are.
ShiftPlan ==
  /\ Sessions \subseteq Nat /\ Punches \subseteq Nat /\ Times \subseteq Nat
  /\ \A s \in Sessions : Start[s] \in Nat /\ End[s] \in Nat /\ Start[s] < End[s]
  /\ Cap \in Nat /\ MaxInFlight \in Nat

NONE == -1
Snapshots == {"recalc", "heal", "period", "delete"}   \* the requests that read and save later
Types == {"IN", "OUT"}
NoRow == [status |-> "None"]
Deleted == [status |-> "Deleted"]

\* The tap that made the row, 0 for another channel; the engine's own rows are auto, and put
\* at the end of a shift.
Clock == Times \cup {End[s] : s \in Sessions}
Punch == [time : Clock, type : Types, auto : BOOLEAN, tap : Taps \cup {0}]
Session == [status : {"Calculated", "Recalculating"}, in : Clock \cup {NONE},
            out : Clock \cup {NONE}, auto : BOOLEAN, leave : BOOLEAN, absent : BOOLEAN,
            approved : BOOLEAN]
Core == [status : {"Present", "Absent"}, submitted : BOOLEAN]

VARIABLES
  now,       \* the hour
  punch,     \* Employee Checkin rows
  session,   \* VN Attendance Work Session rows, by shift instance
  newer,     \* per session, the punches whose creation is after calculated_at
  counted,   \* ghost: per session, the punches the last recalculation read
  queue,     \* sessions with a recalculation on the short queue
  taps,      \* client_request_ids of VN Mobile Checkin Attempt rows
  leave,     \* sessions whose work date an approved Leave Application covers
  attendance, \* core Attendance rows, by session: each has a work date of its own
  noshow,    \* sessions with an exception "Missing Check-in"
  locked,    \* the month of LockedDays is Locked
  req,       \* requests and jobs in flight
  ops        \* the story

rows  == <<session, newer, counted, attendance, noshow>>
vars  == <<now, punch, session, newer, counted, queue, taps, leave, attendance, noshow,
           locked, req, ops>>

Idle == [op |-> "idle"]
InFlight == {r \in Requests : req[r] # Idle}
Day(t) == t \div 24
Work(s) == Day(Start[s])
Rows == {p \in Punches : punch[p] \notin {NoRow, Deleted}}
Existing == {s \in Sessions : session[s] # NoRow}
_is_date_locked(day) == locked /\ day \in LockedDays
Of(P, type) == {p \in P : punch[p].type = type}
Hours(P) == {punch[p].time : p \in P}

-----------------------------------------------------------------------------
(* What the engine counts. *)

\* OUTs before every IN close the session before; INs after every OUT open the next one.
_drop_adjacent_session_punches(P, s) ==
  {p \in P :
     /\ ~(/\ punch[p].type = "OUT" /\ punch[p].time <= Start[s]
          /\ \A q \in Of(P, "IN") : punch[q].time >= punch[p].time)
     /\ ~(/\ punch[p].type = "IN" /\ punch[p].time >= End[s]
          /\ \A q \in Of(P, "OUT") : punch[q].time <= punch[p].time)}

InWindow(t, s) == End[s] - Cap <= t /\ t <= Start[s] + Cap
_filter_logs_to_window(P, s) ==
  _drop_adjacent_session_punches({p \in P : InWindow(punch[p].time, s)}, s)

\* Mutant: no IN reads as midnight.
MidnightFirst(T) == IF T = {} THEN 0 ELSE Min(T)
First(T) == IF T = {} THEN NONE ELSE Min(T)
Last(T)  == IF T = {} THEN NONE ELSE Max(T)

\* Mutant: the absence mark survives a recalculation.
KeepAbsent(P, s) ==
  LET kept == _filter_logs_to_window(P, s)
  IN [status |-> "Calculated", in |-> First(Hours(Of(kept, "IN"))),
      out |-> Last(Hours(Of(kept, "OUT"))), auto |-> FALSE, leave |-> s \in leave,
      absent |-> session[s] # NoRow /\ session[s].absent, approved |-> FALSE]

\* The row persist_work_session writes when it reads the punches P.
calculate_work_session(P, s) ==
  LET kept == _filter_logs_to_window(P, s)
      out  == Last(Hours(Of(kept, "OUT")))
  IN [status |-> "Calculated", in |-> First(Hours(Of(kept, "IN"))), out |-> out,
      auto |-> \E p \in Of(kept, "OUT") : punch[p].time = out /\ punch[p].auto,
      leave |-> s \in leave, absent |-> FALSE, approved |-> FALSE]

\* The shift instance a punch recalculates: of its day or the day before, first one whose
\* window holds it, then the one whose start (IN) or end (OUT) is nearest.
Distance(a, b) == IF a < b THEN b - a ELSE a - b
Outside(t, s) == Max({Start[s] - t, t - End[s], 0})
Gap(t, type, s) == IF ~InWindow(t, s) THEN 1000 + Outside(t, s)
                   ELSE Distance(t, IF type = "IN" THEN Start[s] ELSE End[s])
pick_shift_instance(t, type) ==
  LET C == {s \in Sessions : Work(s) \in {Day(t) - 1, Day(t)}}
  IN {s \in C : \A q \in C : \/ Gap(t, type, s) < Gap(t, type, q)
                             \/ Gap(t, type, s) = Gap(t, type, q) /\ s <= q}

\* Mutant: the session of the day before is not looked for.
FindToday(t) == {s \in Existing : Work(s) = Day(t) /\ Start[s] - 4 <= t /\ t <= End[s] + 6}

\* The session a healing job looks at for a punch: the one of the day when the punch is near
\* it, else the one of the day before.
_find_ws_for_punch(t) ==
  LET near == {s \in Existing : Work(s) = Day(t) /\ Start[s] - 4 <= t /\ t <= End[s] + 6}
  IN IF near # {} THEN near ELSE {s \in Existing : Work(s) = Day(t) - 1}

\* calculated_at < creation.  The second criterion, a session without an IN while the punch
\* is one, never applies: neither caller reads log_type.
_ws_stale(s, p) == p \in newer[s]
Stale == {s \in Existing : \E p \in Rows : s \in _find_ws_for_punch(punch[p].time)
                                           /\ _ws_stale(s, p)}
\* A pass heals one session per calendar day of punches.
HealSets ==
  {H \in SUBSET Stale :
     /\ \A s, q \in H : s # q =>
          \E a, b \in Rows : /\ Day(punch[a].time) # Day(punch[b].time)
                             /\ s \in _find_ws_for_punch(punch[a].time) /\ _ws_stale(s, a)
                             /\ q \in _find_ws_for_punch(punch[b].time) /\ _ws_stale(q, b)
     /\ Stale # {} => H # {}}

-----------------------------------------------------------------------------
(* Requests. *)

Open(r, call) ==
  /\ call.op \in ops /\ req[r] = Idle /\ Cardinality(InFlight) < MaxInFlight
  /\ req' = [req EXCEPT ![r] = call]

\* r goes on as `next'; the rows of the sessions S got a new stamp.
Commit(r, next, S) ==
  req' = [q \in Requests |->
            IF q = r THEN next
            ELSE IF req[q].op \in Snapshots THEN [req[q] EXCEPT !.fresh = @ \ S] ELSE req[q]]

\* A request that recalculates the sessions S reads them now; what it is for besides: the
\* tap of the portal it ends, or the row it deletes (0 when none).
Snapshot(op, S, P, inline, row) ==
  [op |-> op, fresh |-> S, read |-> P, result |-> [s \in S |-> calculate_work_session(P, s)],
   stuck |-> {s \in S : session[s].status = "Recalculating"}, inline |-> inline, punch |-> row]

\* Core Attendance after the row `new' of s is saved or synced: not for a future day, nor
\* while the session is being recalculated; submitted once the month is locked.
_sync_attendance(s, new) ==
  IF Work(s) > Day(now) \/ new.status # "Calculated" THEN attendance[s]
  ELSE [status |-> IF new.absent THEN "Absent" ELSE "Present",
        submitted |-> \/ _is_date_locked(Work(s))
                      \/ attendance[s] # NoRow /\ attendance[s].submitted]

\* The writes of persist_work_session for the sessions S of a snapshot: a session that reads
\* Recalculating is left alone, the others get the result and perhaps a no-show exception.
Persist(q, S) ==
  LET W == S \ q.stuck IN
  /\ session' = [s \in Sessions |-> IF s \in W THEN q.result[s] ELSE session[s]]
  /\ newer'   = [s \in Sessions |-> IF s \in W THEN {} ELSE newer[s]]
  /\ counted' = [s \in Sessions |-> IF s \in W THEN q.read ELSE counted[s]]
  /\ attendance' = [s \in Sessions |-> IF s \in W THEN _sync_attendance(s, q.result[s])
                                       ELSE attendance[s]]
  /\ noshow'  = noshow \cup {s \in W : /\ q.result[s].in = NONE /\ q.result[s].out = NONE
                                       /\ now >= End[s] + 4}

\* The request throws or its worker dies; what it committed stays.
Abort(r) ==
  /\ req[r] # Idle /\ "crash" \in ops
  /\ req' = [req EXCEPT ![r] = Idle]
  /\ UNCHANGED <<now, punch, rows, queue, taps, leave, locked>>

-----------------------------------------------------------------------------
(* The tap: mobile_checkin. *)

Recent == {p \in Rows : Day(punch[p].time) \in {Day(now) - 1, Day(now)}}
Newest == {p \in Recent : \A q \in Recent : punch[q].time <= punch[p].time}
decide_log_type == IF \E p \in Newest : punch[p].type = "IN" THEN "OUT" ELSE "IN"

\* Less than two minutes after the last row: the hours are further apart.  Mutant: no guard.
NeverDuplicate == FALSE
is_duplicate_intent == \E p \in Newest : punch[p].time = now

NewRow(row, p) ==
  /\ punch[p] = NoRow /\ \A q \in Punches : punch[q] = NoRow => p <= q
  /\ punch' = [punch EXCEPT ![p] = row]
Fresh(p) == newer' = [s \in Sessions |-> newer[s] \cup {p}]

\* The request looks for its client_request_id, its lock and the newest row.
TapBegin(r, k) ==
  /\ "tap" \in ops /\ req[r] = Idle /\ k \notin taps /\ ~_is_date_locked(Day(now))
  /\ \/ /\ is_duplicate_intent /\ taps' = taps \cup {k}
        /\ UNCHANGED req
     \/ /\ ~is_duplicate_intent /\ UNCHANGED taps
        /\ Open(r, [op |-> "tap", tap |-> k, type |-> decide_log_type])
  /\ UNCHANGED <<now, punch, rows, queue, leave, locked>>

\* Mutant: the audit row's client_request_id is not unique.
AlwaysNew(k) == TRUE
UniqueRequest(k) == k \notin taps

\* The audit row and the punch, committed together; the request then recalculates the
\* session of the punch itself.
TapInsert(r, p) ==
  LET q == req[r] IN
  /\ q.op = "tap" /\ UniqueRequest(q.tap)
  /\ NewRow([time |-> now, type |-> q.type, auto |-> FALSE, tap |-> q.tap], p)
  /\ Fresh(p)
  /\ taps' = taps \cup {q.tap}
  /\ req' = [req EXCEPT ![r] = [op |-> "inline", todo |-> pick_shift_instance(now, q.type)]]
  /\ UNCHANGED <<now, session, counted, attendance, noshow, queue, leave, locked>>

\* Another request has inserted the audit row of this id since.
TapRejected(r) ==
  /\ req[r].op = "tap" /\ req[r].tap \in taps
  /\ req' = [req EXCEPT ![r] = Idle]
  /\ UNCHANGED <<now, punch, rows, queue, taps, leave, locked>>

InlineBegin(r) ==
  /\ req[r].op = "inline"
  /\ req' = [req EXCEPT ![r] = Snapshot("recalc", req[r].todo, Rows, TRUE, 0)]
  /\ UNCHANGED <<now, punch, rows, queue, taps, leave, locked>>

-----------------------------------------------------------------------------
(* Other punches. *)

\* A device's row arrives; a quiet one carries a creation before the last recalculation.
DevicePunch(p, t, type, quiet) ==
  /\ (IF quiet THEN "quiet" ELSE "device") \in ops /\ t <= now
  /\ NewRow([time |-> t, type |-> type, auto |-> FALSE, tap |-> 0], p)
  /\ IF quiet THEN UNCHANGED newer ELSE Fresh(p)
  /\ queue' = queue \cup pick_shift_instance(t, type)
  /\ UNCHANGED <<now, session, counted, attendance, noshow, taps, leave, locked, req>>

\* The engine closes a session that has an IN and no OUT, six hours after its end.
_close_session(s, p) ==
  /\ "autoclose" \in ops /\ s \in Existing /\ now >= End[s] + 6
  /\ session[s].in # NONE /\ session[s].out = NONE /\ ~session[s].auto
  /\ NewRow([time |-> End[s], type |-> "OUT", auto |-> TRUE, tap |-> 0], p)
  /\ Fresh(p)
  /\ session' = [session EXCEPT ![s].auto = TRUE, ![s].out = End[s]]
  /\ queue' = queue \cup pick_shift_instance(End[s], "OUT")
  /\ UNCHANGED <<now, counted, attendance, noshow, taps, leave, locked, req>>

create_checkin(p, t, type) ==
  /\ "create" \in ops /\ t <= now /\ ~_is_date_locked(Day(t))
  /\ NewRow([time |-> t, type |-> type, auto |-> FALSE, tap |-> 0], p)
  /\ Fresh(p)
  /\ queue' = queue \cup pick_shift_instance(t, type)
  /\ UNCHANGED <<now, session, counted, attendance, noshow, taps, leave, locked, req>>

\* The creation of the row stays; only the session of its new time is recalculated.
update_checkin(p, t, type) ==
  /\ "update" \in ops /\ p \in Rows /\ t <= now
  /\ ~_is_date_locked(Day(punch[p].time)) /\ ~_is_date_locked(Day(t))
  /\ punch' = [punch EXCEPT ![p].time = t, ![p].type = type]
  /\ queue' = queue \cup pick_shift_instance(t, type)
  /\ UNCHANGED <<now, rows, taps, leave, locked, req>>

\* The row goes, and the sessions of the days around it are recalculated in the same
\* transaction.
DeleteBegin(r, p) ==
  /\ "delete" \in ops /\ p \in Rows /\ ~_is_date_locked(Day(punch[p].time))
  /\ Open(r, Snapshot("delete", {s \in Existing : Work(s) \in
                                     (Day(punch[p].time) - 1)..(Day(punch[p].time) + 1)},
                        Rows \ {p}, FALSE, p))
  /\ UNCHANGED <<now, punch, rows, queue, taps, leave, locked>>

-----------------------------------------------------------------------------
(* Recalculations. *)

JobBegin(r, s) ==
  /\ s \in queue /\ Open(r, Snapshot("recalc", {s}, Rows, FALSE, 0))
  /\ queue' = queue \ {s}
  /\ UNCHANGED <<now, punch, rows, taps, leave, locked>>

\* The queue loses a job (the outage of 2026-09-11).
JobLost(s) ==
  /\ "lost" \in ops /\ s \in queue
  /\ queue' = queue \ {s}
  /\ UNCHANGED <<now, punch, rows, taps, leave, locked, req>>

\* today_status and the team grid before they read, and a job every 15 minutes.
HealBegin(r) ==
  /\ "heal" \in ops /\ req[r] = Idle /\ Stale # {}
  /\ \E H \in HealSets : Open(r, Snapshot("heal", H, Rows, FALSE, 0))
  /\ UNCHANGED <<now, punch, rows, queue, taps, leave, locked>>

PeriodBegin(r) ==
  /\ "period" \in ops /\ req[r] = Idle
  /\ Open(r, Snapshot("period", Sessions, Rows, FALSE, 0))
  /\ UNCHANGED <<now, punch, rows, queue, taps, leave, locked>>

\* Mutant: the row is written whatever happened to it since it was loaded.
KeepsStampAlways(q, s) == TRUE
KeepsStamp(q, s) == s \in q.fresh

\* One session.  If its row was written since it was loaded the save is refused: the tap's
\* own recalculation goes to the queue, a job's is lost.
Recalculate(r) ==
  LET q == req[r]
      S == DOMAIN q.result
      W == {s \in S : s \in q.stuck \/ KeepsStamp(q, s)} IN
  /\ q.op = "recalc"
  /\ Persist(q, W)
  /\ Commit(r, Idle, W \ q.stuck)
  /\ queue' = IF q.inline THEN queue \cup (S \ W) ELSE queue
  /\ UNCHANGED <<now, punch, taps, leave, locked>>

\* Several sessions in one transaction.  A refused save rolls back those before it in
\* recalculate_period, ends the pass in delete_checkin, and is passed over when healing; the
\* order is the database's.
RecalculateAll(r, W) ==
  LET q == req[r]
      Refused == {s \in DOMAIN q.result : s \notin q.stuck /\ ~KeepsStamp(q, s)} IN
  /\ q.op \in {"heal", "period", "delete"}
  /\ W \subseteq DOMAIN q.result \ Refused
  /\ Refused = {} \/ q.op = "heal" => W = DOMAIN q.result \ Refused
  /\ Persist(q, W)
  /\ Commit(r, Idle, W \ q.stuck)
  /\ punch' = IF q.op = "delete" THEN [punch EXCEPT ![q.punch] = Deleted] ELSE punch
  /\ UNCHANGED <<now, queue, taps, leave, locked>>

\* The claim of the status, then a recalculation that finds the claim and leaves the row.
recalculate_work_session(s) ==
  /\ "manual" \in ops /\ s \in Existing /\ session[s].status # "Recalculating"
  /\ session' = [session EXCEPT ![s].status = "Recalculating"]
  /\ UNCHANGED <<now, punch, newer, counted, attendance, noshow, queue, taps, leave, locked,
                 req>>

-----------------------------------------------------------------------------
(* Marks. *)

Changed(s) == [q \in Requests |-> IF req[q].op \in Snapshots
                                  THEN [req[q] EXCEPT !.fresh = @ \ {s}] ELSE req[q]]

\* The job of 02:00 reads yesterday's sessions, then writes the mark, with no document event.
AbsentBegin(r) ==
  /\ "absent" \in ops
  /\ Open(r, [op |-> "absent", todo |-> {s \in Existing :
       Work(s) = Day(now) - 1 /\ session[s].in = NONE /\ ~session[s].leave}])
  /\ UNCHANGED <<now, punch, rows, queue, taps, leave, locked>>
auto_mark_absent_job(r) ==
  /\ req[r].op = "absent"
  /\ session' = [s \in Sessions |-> IF s \in req[r].todo THEN [session[s] EXCEPT !.absent = TRUE]
                                    ELSE session[s]]
  /\ Commit(r, Idle, req[r].todo)
  /\ UNCHANGED <<now, punch, newer, counted, attendance, noshow, queue, taps, leave, locked>>

\* HR approves the overtime after the shift the session shows.
approve_session_overtime(s) ==
  /\ "approve" \in ops /\ s \in Existing /\ session[s].out > End[s]
  /\ ~_is_date_locked(Work(s))
  /\ session' = [session EXCEPT ![s].approved = TRUE]
  /\ req' = Changed(s)
  /\ UNCHANGED <<now, punch, newer, counted, attendance, noshow, queue, taps, leave, locked>>

\* HR writes the core Attendance itself; a row that exists only with `overwrite'.
mark_attendance_bulk(s, status, overwrite) ==
  /\ "mark" \in ops /\ ~_is_date_locked(Work(s)) /\ (attendance[s] = NoRow \/ overwrite)
  /\ attendance' = [attendance EXCEPT ![s] =
       [status |-> status, submitted |-> attendance[s] # NoRow /\ attendance[s].submitted]]
  /\ UNCHANGED <<now, punch, session, newer, counted, noshow, queue, taps, leave, locked, req>>

backfill_attendance ==
  /\ "mark" \in ops
  /\ attendance' = [s \in Sessions |-> IF s \in Existing THEN _sync_attendance(s, session[s])
                                       ELSE attendance[s]]
  /\ UNCHANGED <<now, punch, session, newer, counted, noshow, queue, taps, leave, locked, req>>

LeaveApproved(s) ==
  /\ "leave" \in ops /\ s \notin leave
  /\ leave' = leave \cup {s}
  /\ UNCHANGED <<now, punch, rows, queue, taps, locked, req>>

\* lock_period and unlock_period of the month, in MonthPeriod.
LockMonth ==
  /\ "lock" \in ops /\ locked' = ~locked
  /\ UNCHANGED <<now, punch, rows, queue, taps, leave, req>>

\* A tap takes less than the two minutes of the duplicate guard.
Hour ==
  /\ \A r \in Requests : req[r].op # "tap"
  /\ \E t \in Times : t > now /\ (\A u \in Times : u > now => t <= u) /\ now' = t
  /\ UNCHANGED <<punch, rows, queue, taps, leave, locked, req>>

-----------------------------------------------------------------------------
Init ==
  /\ now = Min(Times) /\ punch = [p \in Punches |-> NoRow]
  /\ session = [s \in Sessions |-> NoRow] /\ attendance = [s \in Sessions |-> NoRow]
  /\ newer = [s \in Sessions |-> {}] /\ counted = [s \in Sessions |-> {}]
  /\ queue = {} /\ taps = {} /\ leave = {} /\ noshow = {} /\ locked = FALSE
  /\ req = [r \in Requests |-> Idle] /\ ops \in Stories

Tap == \E r \in Requests : \/ \E k \in Taps : TapBegin(r, k)
                           \/ \E p \in Punches : TapInsert(r, p)
                           \/ TapRejected(r) \/ InlineBegin(r)
OtherPunch ==
  \E p \in Punches :
    \/ \E t \in Times, type \in Types :
         \/ \E quiet \in BOOLEAN : DevicePunch(p, t, type, quiet)
         \/ create_checkin(p, t, type) \/ update_checkin(p, t, type)
    \/ \E s \in Sessions : _close_session(s, p)
    \/ \E r \in Requests : DeleteBegin(r, p)
Recalculation ==
  \/ \E r \in Requests :
       \/ \E s \in Sessions : JobBegin(r, s)
       \/ HealBegin(r) \/ PeriodBegin(r) \/ Recalculate(r)
       \/ \E W \in SUBSET Sessions : RecalculateAll(r, W)
  \/ \E s \in Sessions : JobLost(s) \/ recalculate_work_session(s)
Mark ==
  \/ \E r \in Requests : AbsentBegin(r) \/ auto_mark_absent_job(r)
  \/ \E s \in Sessions : approve_session_overtime(s) \/ LeaveApproved(s)
  \/ \E s \in Sessions, st \in {"Present", "Absent"}, o \in BOOLEAN : mark_attendance_bulk(s, st, o)
  \/ backfill_attendance

Next ==
  /\ Hour \/ Tap \/ OtherPunch \/ Recalculation \/ Mark \/ LockMonth
       \/ \E r \in Requests : Abort(r)
  /\ "alone" \in ops => Cardinality(InFlight') <= 1 /\ (InFlight = {} \/ req' # req)
  /\ UNCHANGED ops
Spec == Init /\ [][Next]_vars

-----------------------------------------------------------------------------
(* Properties. *)

TypeOK ==
  /\ now \in Times /\ punch \in [Punches -> Punch \cup {NoRow, Deleted}]
  /\ session \in [Sessions -> Session \cup {NoRow}]
  /\ attendance \in [Sessions -> Core \cup {NoRow}]
  /\ newer \in [Sessions -> SUBSET Punches] /\ counted \in [Sessions -> SUBSET Punches]
  /\ queue \subseteq Sessions /\ taps \subseteq Taps /\ leave \subseteq Sessions
  /\ noshow \subseteq Sessions /\ locked \in BOOLEAN

\* A punch that a session was calculated with, and that is still there, is never left out by
\* a later save: an older calculation does not replace a newer one.
NeverUncounted == [][\A s \in Sessions : counted[s] \cap Rows' \subseteq counted'[s]]_vars

\* The retry of a tap whose answer was lost never closes the session the tap opened: no
\* in-and-out of zero hours.  (Where punches come from the portal alone: one of another
\* channel, put between two taps of one time, turns the second around.)
OtherChannels == {"device", "quiet", "autoclose", "create", "update", "delete"}
NoZeroHourDay ==
  ops \cap OtherChannels = {} =>
    \A p, q \in Rows : punch[p].time = punch[q].time => punch[p].type = punch[q].type

\* A request of the portal that is sent again makes no second punch, however late.
OneTapOnePunch == \A p, q \in Rows : punch[p].tap = punch[q].tap => p = q \/ punch[p].tap = 0

\* What a tap makes: one punch, however often it is sent, and never an out at the time of
\* the in.
TapsKept == TypeOK /\ OneTapOnePunch /\ NoZeroHourDay

\* Once nothing runs, waits or is due for healing, a calculated session shows the punches.
\* (A row moved in time leaves its old session behind, and a lost job of a quiet row is not
\* found again.)
Quiet == InFlight = {} /\ queue = {} /\ Stale = {}
Current(s) == LET c == calculate_work_session(Rows, s)
              IN session[s].in = c.in /\ session[s].out = c.out /\ session[s].auto = c.auto
CurrentWhenQuiet ==
  "alone" \in ops /\ ops \cap {"update", "quiet"} = {} /\ Quiet => \A s \in Existing :
    session[s].status = "Calculated" => Current(s)

\* A session that shows an IN is not absent.
AbsentHasNoIn == "alone" \in ops => \A s \in Existing : session[s].absent => session[s].in = NONE

\* Refuted.  A manual recalculation ends: no session stays Recalculating when nothing runs
\* ("recompute a Work Session on demand").
ManualRecalculationEnds == InFlight = {} => \A s \in Existing : session[s].status = "Calculated"

\* Refuted.  A day with approved leave raises no exception for a missing check-in.
LeaveIsNoNoShow == [][\A s \in noshow' \ noshow : ~session'[s].leave]_vars
=============================================================================
