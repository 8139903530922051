------------------------------ MODULE HandPunch ------------------------------
(* Punches edited by HR (admin.py, admin_custom_checkin) of one employee whose sessions get closed for him: which
punch an edit changes, which ticket of a missed checkout it waives, and what the recalculation that follows closes.
Hours since some midnight; a shift is planned from Start to End.

An edit has three steps: the punches, committed; the waiver, a transaction of its own; the recalculation, which
closes what is still undecided.  Unless `overlap', nothing happens in between. *)
EXTENDS Integers, FiniteSets, FiniteSetsExt
CONSTANTS
  Shifts, Start, End,
  Cap,         \* _ENGINE_CAP_HOURS, vn_max_total_work_hours
  Taps,        \* the punches that arrive by themselves: a kind and an hour
  EditTimes,   \* the hours typed in
  LockedDays,  \* the days of the month that may be locked
  MaxPunches,
  Overlaps     \* the values of `overlap' to look at
VARIABLES
  punch,   \* Employee Checkin rows
  flag,    \* vn_auto_checkout of the sessions
  ticket,  \* VN Checkout Miss, by shift
  due,     \* sessions with a recalculation on the queue
  edit,    \* the edit in progress, if any
  locked,  \* the month of LockedDays is locked
  paid,    \* and its salary slips are made
  overlap, \* whether requests overlap
  named    \* whether edits name the row they change
vars == <<punch, flag, ticket, due, edit, locked, paid, overlap, named>>

Kinds    == {"IN", "OUT"}
Statuses == {"None", "Pending", "Explained", "Penalised", "Waived", "Closed"}
NoEdit   == [step |-> "none"]
Row(kind, at, auto, of) == [kind |-> kind, at |-> at, auto |-> auto, of |-> of]
Genuine(kind, at) == Row(kind, at, FALSE, 0)
Day(t)  == t \div 24
Work(s) == Day(Start[s])
_is_date_locked(day) == locked /\ day \in LockedDays
Alone == overlap \/ edit = NoEdit

-----------------------------------------------------------------------------
(* Which shift a punch is of. *)

Distance(a, b) == IF a < b THEN b - a ELSE a - b
InWindow(t, s) == End[s] - Cap <= t /\ t <= Start[s] + Cap
Rank(t, kind, s) ==
  IF InWindow(t, s) THEN Distance(t, IF kind = "IN" THEN Start[s] ELSE End[s])
                    ELSE 1000 + Max({Start[s] - t, t - End[s], 0})
shift_of_punch(t, kind) ==
  LET C == {s \in Shifts : Work(s) \in {Day(t) - 1, Day(t)}}
  IN {s \in C : \A q \in C : \/ Rank(t, kind, s) < Rank(t, kind, q)
                             \/ Rank(t, kind, s) = Rank(t, kind, q) /\ s <= q}
ShiftOf(p) == shift_of_punch(p.at, p.kind)

FirstOrLast(P, kind) ==
  {p \in P : \A q \in P : IF kind = "IN" THEN p.at <= q.at ELSE p.at >= q.at}
\* Mutant: the punch of the calendar day, whatever its shift (before the repair of 2026-10-04).
ExistingOfDay(P, t, kind) == FirstOrLast({p \in P : p.kind = kind /\ Day(p.at) = Day(t)}, kind)
\* The row an edit to t changes; where no shift is near, the one of that day, the midnight after it included.
_find_existing_checkin(P, t, kind) ==
  LET target == shift_of_punch(t, kind)
  IN FirstOrLast({p \in P : /\ p.kind = kind
                            /\ IF target # {} THEN Distance(p.at, t) <= 36 /\ ShiftOf(p) = target
                                              ELSE 24 * Day(t) <= p.at /\ p.at <= 24 * Day(t) + 24}, kind)

-----------------------------------------------------------------------------
(* What a recalculation reads. *)

_filter_logs_to_window(P, s) ==
  LET W == {p \in P : InWindow(p.at, s)}
  IN {p \in W :
        /\ ~(p.kind = "OUT" /\ p.at <= Start[s] /\ \A q \in W : q.kind = "IN" => q.at >= p.at)
        /\ ~(p.kind = "IN" /\ p.at >= End[s] /\ \A q \in W : q.kind = "OUT" => q.at <= p.at)}
LastOut(P, s) == FirstOrLast({p \in _filter_logs_to_window(P, s) : p.kind = "OUT"}, "OUT")
AutoFlag(P, s) == \E p \in LastOut(P, s) : p.auto
\* Locked sessions stay as they are.  A session with no OUT at all closes its ticket too.
Calculated(P, S) == [s \in Shifts |-> IF s \in S /\ ~_is_date_locked(Work(s)) THEN AutoFlag(P, s) ELSE flag[s]]
_auto_resolve_checkout_miss(T, P, S) ==
  [s \in Shifts |->
     IF s \in S /\ ~_is_date_locked(Work(s)) /\ ~AutoFlag(P, s) /\ T[s] \in {"Pending", "Explained"} THEN "Closed" ELSE T[s]]

-----------------------------------------------------------------------------
(* Punches and tickets that are there before. *)

\* mobile_checkin, a device.
Tap(kind, t) ==
  /\ Alone /\ Cardinality(punch) < MaxPunches /\ ~_is_date_locked(Day(t))
  /\ \A p \in punch : p.at # t
  /\ punch' = punch \cup {Genuine(kind, t)} /\ due' = due \cup shift_of_punch(t, kind)
  /\ UNCHANGED <<flag, ticket, edit, locked, paid, overlap, named>>
\* A job of the queue: persist_work_session.
Recalculate(s) ==
  /\ Alone /\ s \in due /\ due' = due \ {s}
  /\ flag' = Calculated(punch, {s}) /\ ticket' = _auto_resolve_checkout_miss(ticket, punch, {s})
  /\ UNCHANGED <<punch, edit, locked, paid, overlap, named>>
\* _close_session: an OUT of the engine, and its ticket.
CloseSession(s) ==
  /\ Alone /\ ticket[s] = "None" /\ ~flag[s] /\ Cardinality(punch) < MaxPunches
  /\ LastOut(punch, s) = {} /\ \E p \in _filter_logs_to_window(punch, s) : p.kind = "IN"
  /\ punch' = punch \cup {Row("OUT", End[s], TRUE, s)}
  /\ flag' = [flag EXCEPT ![s] = TRUE] /\ ticket' = [ticket EXCEPT ![s] = "Pending"]
  /\ UNCHANGED <<due, edit, locked, paid, overlap, named>>
\* explain_checkout_miss; penalise_expired; _resolve_one for HR.
Decisions(status) ==
  CASE status = "Pending"   -> {"Explained", "Penalised"} \cup (IF paid THEN {} ELSE {"Waived", "Closed"})
    [] status = "Explained" -> IF paid THEN {} ELSE {"Penalised", "Waived", "Closed"}
    [] status = "Penalised" -> IF paid THEN {} ELSE {"Waived", "Closed"}
    [] status = "Waived"    -> IF paid THEN {} ELSE {"Penalised", "Closed"}
    [] OTHER                -> {}
Decide(s, status) ==
  /\ Alone /\ status \in Decisions(ticket[s]) /\ ticket' = [ticket EXCEPT ![s] = status]
  /\ UNCHANGED <<punch, flag, due, edit, locked, paid, overlap, named>>
Months ==
  /\ Alone
  /\ \/ ~locked /\ locked' = TRUE /\ UNCHANGED paid
     \/ locked /\ ~paid /\ paid' = TRUE /\ UNCHANGED locked
  /\ UNCHANGED <<punch, flag, ticket, due, edit, overlap, named>>

-----------------------------------------------------------------------------
(* The edit. *)

\* Over the row named, else over the one there is, else a new one; the engine's mark is taken off.
Target(P, t, kind, row) == IF row # {} THEN row ELSE _find_existing_checkin(P, t, kind)
\* Mutant: the mark of the engine stays.
MovedMarked(p, t) == [p EXCEPT !.at = t]
Moved(p, t) == [p EXCEPT !.at = t, !.auto = FALSE]
New(P, t, kind, row) ==
  LET old == Target(P, t, kind, row)
  IN IF old = {} THEN Genuine(kind, t) ELSE Moved(CHOOSE p \in old : TRUE, t)
_upsert_employee_checkin(P, t, kind, row) == (P \ Target(P, t, kind, row)) \cup {New(P, t, kind, row)}

\* IN then OUT; one of them may be left out.  The guard is about the days typed in.
EditPunches(ins, outs, row) ==
  LET P1 == IF ins = {} THEN punch ELSE _upsert_employee_checkin(punch, Min(ins), "IN", {})
      P2 == IF outs = {} THEN P1 ELSE _upsert_employee_checkin(P1, Min(outs), "OUT", row \cap P1)
      out == IF outs = {} THEN {} ELSE {New(P1, Min(outs), "OUT", row \cap P1)}
      in  == IF ins = {} THEN {} ELSE {New(punch, Min(ins), "IN", {})}
      of  == UNION {ShiftOf(p) : p \in out}
  IN  /\ edit = NoEdit /\ Cardinality(P2) <= MaxPunches
      /\ ins \cup outs # {} /\ (\A t \in ins \cup outs : ~_is_date_locked(Day(t)))
      /\ \A i \in ins, o \in outs : i <= o
      /\ row # {} => named
      /\ punch' = P2
      /\ flag' = [s \in Shifts |-> flag[s] /\ ~\E t \in ins \cup outs : Work(s) = Day(t)]
      /\ edit' = [step |-> "waive", in |-> in, out |-> out, row |-> row, was |-> [s \in of |-> ticket[s]]]
      /\ UNCHANGED <<ticket, due, locked, paid, overlap, named>>

\* The ticket the row carries, else the one whose shift holds the OUT until six hours later, of these the nearest.
_OUT_AFTER_PLANNED_END == 6
_checkout_miss_at(t) ==
  LET C == {s \in Shifts : ticket[s] # "None" /\ Start[s] <= t /\ t <= End[s] + _OUT_AFTER_PLANNED_END}
  IN {s \in C : \A q \in C : Distance(t, End[s]) <= Distance(t, End[q])}
_checkout_miss_for_out_log(p) == IF p.of # 0 THEN {p.of} ELSE _checkout_miss_at(p.at)
\* Mutant: the recalculation comes first, and leaves only penalised tickets to waive.
WaivableLate == {"Penalised"}
_MANUAL_OUT_WAIVABLE == {"Pending", "Explained", "Penalised"}
\* Refused when the slips are made; the edit goes on.
_waive_checkout_miss_for_manual_out ==
  LET names == UNION {_checkout_miss_for_out_log(p) : p \in edit.out}
  IN  /\ edit.step = "waive" /\ edit' = [edit EXCEPT !.step = "recalc"]
      /\ ticket' = [s \in Shifts |->
                      IF s \in names /\ ticket[s] \in _MANUAL_OUT_WAIVABLE /\ ~paid THEN "Waived" ELSE ticket[s]]
      /\ UNCHANGED <<punch, flag, due, locked, paid, overlap, named>>
\* The shifts the punches are of now.
_sync_recalc_after_checkin ==
  LET S == UNION {ShiftOf(p) : p \in (edit.in \cup edit.out) \cap punch}
  IN  /\ edit.step = "recalc" /\ edit' = NoEdit
      /\ flag' = Calculated(punch, S) /\ ticket' = _auto_resolve_checkout_miss(ticket, punch, S)
      /\ UNCHANGED <<punch, due, locked, paid, overlap, named>>

-----------------------------------------------------------------------------
Init ==
  /\ punch = {} /\ flag = [s \in Shifts |-> FALSE] /\ ticket = [s \in Shifts |-> "None"] /\ due = {} /\ edit = NoEdit
  /\ locked = FALSE /\ paid = FALSE /\ overlap \in Overlaps /\ named \in BOOLEAN
AtMostOne(S) == {{}} \cup {{x} : x \in S}
Next ==
  \/ \E tap \in Taps : Tap(tap[1], tap[2])
  \/ \E s \in Shifts : Recalculate(s) \/ CloseSession(s) \/ \E status \in Statuses : Decide(s, status)
  \/ Months
  \/ \E i, o \in AtMostOne(EditTimes), row \in AtMostOne(punch) : EditPunches(i, o, row)
  \/ _waive_checkout_miss_for_manual_out
  \/ _sync_recalc_after_checkin
Spec == Init /\ [][Next]_vars

-----------------------------------------------------------------------------
(* Properties. *)

TypeOK ==
  /\ \A p \in punch : p.kind \in Kinds /\ p.at \in Nat /\ p.auto \in BOOLEAN /\ p.of \in Shifts \cup {0}
  /\ flag \in [Shifts -> BOOLEAN] /\ ticket \in [Shifts -> Statuses] /\ due \subseteq Shifts
  /\ edit.step \in {"none", "waive", "recalc"} /\ {locked, paid, overlap, named} \subseteq BOOLEAN

SameShift(P, p) == {q \in P : q.kind = p.kind /\ ShiftOf(q) = ShiftOf(p)}
\* An edit that names no row changes punches of the shift of its times only, and adds none to a shift that has one
\* of the kind ("preventing duplicate punches on repeated edits", _upsert_employee_checkin).
EditsOwnShift ==
  edit = NoEdit /\ edit' # NoEdit /\ edit'.row = {} =>
    /\ \A p \in punch \ punch' : \E q \in edit'.in \cup edit'.out : q.kind = p.kind /\ (ShiftOf(q) # {} => ShiftOf(q) = ShiftOf(p))
    /\ \A q \in edit'.in \cup edit'.out :
         ShiftOf(q) # {} => Cardinality(SameShift(punch', q)) <= Max({1, Cardinality(SameShift(punch, q))})
\* An OUT by hand inside the allowance of its shift waives the ticket of the shift, before the recalculation could
\* close it: unless slips are made, rows are named or another recalculation comes in between
\* (_waive_checkout_miss_for_manual_out).
HandOutWaives ==
  edit # NoEdit /\ edit' = NoEdit /\ ~overlap /\ ~named /\ ~paid =>
    \A p \in edit.out : \A s \in ShiftOf(p) :
      Start[s] <= p.at /\ p.at <= End[s] + _OUT_AFTER_PLANNED_END /\ edit.was[s] \in {"Pending", "Explained", "Penalised"}
        => ticket'[s] = "Waived"
\* After the edit the session of its OUT is not closed by the engine's any more, unless the engine's comes later
\* or the session is locked (_upsert_employee_checkin).
HandOutCounts ==
  edit # NoEdit /\ edit' = NoEdit =>
    \A p \in edit.out \cap punch : \A s \in ShiftOf(p) : p \in LastOut(punch, s) /\ ~_is_date_locked(Work(s)) => ~flag'[s]

\* Refuted.  The same when another recalculation of the session comes in between: it closes the ticket for good.
HandOutWaivesAnyhow ==
  edit # NoEdit /\ edit' = NoEdit /\ ~named /\ ~paid =>
    \A p \in edit.out : \A s \in ShiftOf(p) :
      Start[s] <= p.at /\ p.at <= End[s] /\ edit.was[s] \in _MANUAL_OUT_WAIVABLE => ticket'[s] # "Closed"
\* Refuted.  The punches of a locked day stay: the guard looks at the day of the new time, not at the shift or the
\* row ("hand-edited checkins must not land inside a Locked monthly period").
LockedStaysPut == \A p \in punch \ punch' : \A s \in ShiftOf(p) : ~_is_date_locked(Work(s))
\* Refuted.  "A session with a genuine OUT closes its ticket": so does one whose OUT an edit took away by its name.
ClosedHasOut == edit # NoEdit /\ edit' = NoEdit => \A s \in Shifts : ticket[s] # ticket'[s] => LastOut(punch, s) # {}
=============================================================================
