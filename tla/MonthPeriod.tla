----------------------------- MODULE MonthPeriod -----------------------------
(***************************************************************************)
(* The monthly attendance period of a company: lines generated from the     *)
(* work sessions, confirmed or corrected by HR, locked, and unlocked while  *)
(* no payroll review depends on them.                                       *)
(*                                                                          *)
(* A request reads period and lines in a snapshot and writes later, in one   *)
(* transaction.  A save of a row that got a new stamp since is refused and  *)
(* the request rolled back: `period' in fresh stands for the period's row,  *)
(* the other members are lines.                                             *)
(***************************************************************************)
EXTENDS Integers, FiniteSets, Functions, TLC

CONSTANTS Employees, Requests, Values,
          MaxWork     \* bound on the changes of work sessions

PeriodStatuses == {"None", "Draft", "Generated", "Locked", "Unlocked"}
LineStatuses   == {"Draft", "Confirmed", "Adjusted", "Locked"}
NoLine == [status |-> "None", value |-> 0]
Line   == [status : LineStatuses, value : Values]
Idle   == [op |-> "idle"]

VARIABLES
  work,     \* per employee, what aggregate_period makes of the work sessions; changes
  changes,  \* counts them
  period,   \* VN Monthly Attendance Period: status and rolled-up total
  line,     \* VN Monthly Attendance Line rows
  review,   \* a VN Payroll Review Period of the month exists
  req       \* requests in flight, with the snapshot they read
vars == <<work, changes, period, line, review, req>>

ALLOWED_TRANSITIONS(old) ==
  CASE old = "Draft"     -> {"Generated"}
    [] old = "Generated" -> {"Locked", "Draft"}
    [] old = "Locked"    -> {"Unlocked"}
    [] old = "Unlocked"  -> {"Locked", "Generated"}
_validate_transition(old, new) == old = new \/ new \in ALLOWED_TRANSITIONS(old)

Lines(l) == {e \in Employees : l[e] # NoLine}
Figures(l) == [e \in Lines(l) |-> l[e].value]
\* Mutant: the total is of the draft lines.
DraftTotal(l) == SumFunctionOnSet(Figures(l), {e \in Lines(l) : l[e].status = "Draft"})
rollup_period(l) == SumFunction(Figures(l))
can_lock(l) == Lines(l) # {} /\ \A e \in Lines(l) : l[e].status \in {"Confirmed", "Adjusted"}

\* A line is made for the employees who have sessions; a confirmed or adjusted one keeps its
\* status, and takes the new value.
WithSessions == {e \in Employees : work[e] # 0}
_upsert_line(l) ==
  [e \in Employees |->
     IF e \notin WithSessions THEN l[e]
     ELSE [status |-> IF l[e].status \in {"Confirmed", "Adjusted"} THEN l[e].status ELSE "Draft",
           value |-> work[e]]]
SetStatus(l, E, status) == [e \in Employees |-> IF e \in E THEN [l[e] EXCEPT !.status = status]
                                                 ELSE l[e]]
Drafts(l) == {e \in Lines(l) : l[e].status = "Draft"}

-----------------------------------------------------------------------------
(* Requests: the read, and the rows `new' of the lines that the request will write. *)

Begin(r, op, lines, new) ==
  /\ req[r] = Idle /\ period.status # "None"
  /\ req' = [req EXCEPT ![r] = [op |-> op, lines |-> lines, new |-> new, line |-> line,
                               status |-> period.status, fresh |-> Employees \cup {"period"}]]
  /\ UNCHANGED <<work, changes, period, line, review>>

GenerateBegin(r) ==
  period.status # "Locked" /\ Begin(r, "generate", WithSessions, _upsert_line(line))
ConfirmBegin(r, e) ==
  /\ line[e] # NoLine /\ line[e].status # "Locked"
  /\ Begin(r, "confirm", {e}, SetStatus(line, {e}, "Confirmed"))
ConfirmAllBegin(r) ==
  Begin(r, "confirm", Drafts(line), SetStatus(line, Drafts(line), "Confirmed"))
AdjustBegin(r, e, v) ==
  /\ line[e] # NoLine /\ line[e].status # "Locked" /\ line[e].value # v
  /\ period.status # "Locked"
  /\ Begin(r, "adjust", {e}, [line EXCEPT ![e] = [status |-> "Adjusted", value |-> v]])
\* The drafts are confirmed first.
LockBegin(r) ==
  /\ period.status \in {"Generated", "Unlocked"}
  /\ can_lock(SetStatus(line, Drafts(line), "Confirmed"))
  /\ Begin(r, "lock", Lines(line), SetStatus(line, Lines(line), "Locked"))
UnlockBegin(r) ==
  /\ period.status = "Locked" /\ ~review
  /\ Begin(r, "unlock", {e \in Lines(line) : line[e].status = "Locked"}, line)

-----------------------------------------------------------------------------
(* Requests: the writes. *)

\* Mutant: no save looks at the stamp.
SavesAnyway(q, S) == TRUE
Saves(q, S) == S \subseteq q.fresh

\* r ends: it saved the rows S, so that the lines are l and the period is p.
Done(r, S, l, p) ==
  /\ line' = l /\ period' = p
  /\ req' = [q \in Requests |-> IF q = r \/ req[q] = Idle THEN Idle
                                ELSE [req[q] EXCEPT !.fresh = @ \ S]]
  /\ UNCHANGED <<work, changes>>

Merge(q) == [e \in Employees |-> IF e \in q.lines THEN q.new[e] ELSE line[e]]

generate_lines(r) ==
  LET q == req[r]
      S == q.lines \cup {"period"} IN
  /\ q.op = "generate" /\ Saves(q, S) /\ _validate_transition(q.status, "Generated")
  /\ Done(r, S, Merge(q), [status |-> "Generated", total |-> rollup_period(q.new)])
  /\ UNCHANGED review
confirm_line(r) ==
  LET q == req[r] IN
  /\ q.op = "confirm" /\ Saves(q, q.lines)
  /\ Done(r, q.lines, Merge(q), period) /\ UNCHANGED review
adjust_line(r) ==
  LET q == req[r]
      S == q.lines \cup {"period"} IN
  /\ q.op = "adjust" /\ Saves(q, S)
  /\ Done(r, S, Merge(q), [status |-> q.status, total |-> rollup_period(q.new)])
  /\ UNCHANGED review
\* The review of the month is made, or the one there is kept.
lock_period(r) ==
  LET q == req[r]
      S == q.lines \cup {"period"} IN
  /\ q.op = "lock" /\ Saves(q, S) /\ _validate_transition(q.status, "Locked")
  /\ Done(r, S, Merge(q), [status |-> "Locked", total |-> period.total])
  /\ review' = TRUE
\* The lines are written without a stamp.
unlock_period(r) ==
  LET q == req[r] IN
  /\ q.op = "unlock" /\ Saves(q, {"period"}) /\ _validate_transition(q.status, "Unlocked")
  /\ Done(r, {"period"}, SetStatus(line, q.lines, "Confirmed"),
          [status |-> "Unlocked", total |-> period.total])
  /\ UNCHANGED review

\* A save was refused, or the worker died.
Abort(r) ==
  /\ req[r] # Idle /\ req' = [req EXCEPT ![r] = Idle]
  /\ UNCHANGED <<work, changes, period, line, review>>

-----------------------------------------------------------------------------
create_period ==
  /\ period.status = "None"
  /\ period' = [status |-> "Draft", total |-> 0]
  /\ UNCHANGED <<work, changes, line, review, req>>

\* Only a draft, with the lines it may have.
delete_period ==
  /\ period.status = "Draft"
  /\ period' = [status |-> "None", total |-> 0]
  /\ line' = [e \in Employees |-> NoLine]
  /\ req' = [r \in Requests |-> Idle]
  /\ UNCHANGED <<work, changes, review>>

\* HR deletes the payroll review of the month.
delete_payroll_review ==
  /\ review /\ review' = FALSE
  /\ UNCHANGED <<work, changes, period, line, req>>

\* A work session of the month is calculated again: nothing looks at the lock.
WorkChanges(e, v) ==
  /\ changes < MaxWork /\ v # work[e]
  /\ work' = [work EXCEPT ![e] = v] /\ changes' = changes + 1
  /\ UNCHANGED <<period, line, review, req>>

Init ==
  /\ work = [e \in Employees |-> 1] /\ changes = 0
  /\ period = [status |-> "None", total |-> 0]
  /\ line = [e \in Employees |-> NoLine] /\ review = FALSE
  /\ req = [r \in Requests |-> Idle]

Next ==
  \/ create_period \/ delete_period \/ delete_payroll_review
  \/ \E e \in Employees, v \in Values : WorkChanges(e, v)
  \/ \E r \in Requests :
       \/ GenerateBegin(r) \/ ConfirmAllBegin(r) \/ LockBegin(r) \/ UnlockBegin(r)
       \/ \E e \in Employees : ConfirmBegin(r, e) \/ \E v \in Values : AdjustBegin(r, e, v)
       \/ generate_lines(r) \/ confirm_line(r) \/ adjust_line(r) \/ lock_period(r)
       \/ unlock_period(r) \/ Abort(r)
Spec == Init /\ [][Next]_vars

-----------------------------------------------------------------------------
(* Properties. *)

TypeOK ==
  /\ work \in [Employees -> Values] /\ changes \in 0..MaxWork /\ review \in BOOLEAN
  /\ period.status \in PeriodStatuses /\ period.total \in Nat
  /\ line \in [Employees -> Line \cup {NoLine}]

\* A locked period's lines are all locked, and its total is theirs.
LockedLinesAgree ==
  period.status = "Locked" =>
    /\ \A e \in Lines(line) : line[e].status = "Locked"
    /\ period.total = rollup_period(line)

\* What payroll reads of a locked month does not change before it is unlocked, whatever
\* requests were on their way.
Stands == period.status = "Locked" /\ period'.status = "Locked" => line' = line /\ period' = period
LockedStands == [][Stands]_vars

\* Refuted.  A line that HR adjusted keeps its values when the period is generated again ("so
\* a re-generate doesn't wipe a manually confirmed line").
AdjustedStands ==
  [][\A e \in Employees : line[e].status = "Adjusted" /\ line'[e].value # line[e].value
       => \E r \in Requests : req[r].op = "adjust" /\ req'[r] = Idle]_vars
=============================================================================
