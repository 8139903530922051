---------------------------- MODULE CheckoutMiss ----------------------------
(***************************************************************************)
(* Forgotten check-outs of one employee: the engine that closes the open    *)
(* work sessions and raises a VN Checkout Miss ticket for each, the         *)
(* recalculation of a session from its OUT punches, the life of a ticket,   *)
(* and the deduction a payroll calculation makes of the penalised ones.     *)
(*                                                                          *)
(* Sessions are numbered in the order of their planned_end; every one has   *)
(* its IN punch.  As in PayrollReview a request reads a snapshot in its     *)
(* first step and writes later.  req[r] holds what it still relies on:      *)
(* `fresh' (the stamp of the document it will save is the one it loaded),   *)
(* the sessions and counts it read, the sessions whose row it has locked.   *)
(***************************************************************************)
EXTENDS Naturals, FiniteSets

CONSTANTS
  Sessions,         \* shift instances: numbers, in the order of planned_end
  Tickets,          \* ticket names: numbers, given in order
  Requests,         \* request slots of the web and short-queue workers
  Jobs,             \* hourly engine runs that may exist at once
  FreeFirstN,       \* vn_cm_free_first_n: misses that cost nothing
  Purged,           \* sessions whose logs a seed script removed (dead links)
  Ops,              \* the operations that happen at all
  MaxInFlight       \* requests and jobs running at the same time

Statuses == {"Pending", "Explained", "Waived", "Penalised", "Closed"}
Out      == {"none", "auto", "real"}

Shift == [due  : BOOLEAN,                    \* planned_end + buffer has passed
          flag : BOOLEAN,                    \* vn_auto_checkout
          out  : Out,                        \* what actual_checkout shows
          real : {"none", "early", "late"},  \* the employee's OUT, against planned_end
          autos : Nat]                       \* OUT logs the engine made
Ticket == [session : Sessions, manual : BOOLEAN, status : Statuses, fined : BOOLEAN,
           waived : BOOLEAN, occ : Nat, expired : BOOLEAN, appealed : BOOLEAN]
NoTicket == [status |-> "None"]
Deleted  == [status |-> "Deleted"]

PeriodStatuses == {"Draft", "Calculating", "Calculated", "Approved", "Slips Generated", "Published"}
Period == [status : PeriodStatuses, linked : BOOLEAN, deducted : Nat, asked : BOOLEAN]

HRActions == {"waive", "penalise", "close", "extend", "reopen"}
OpNames   == HRActions \cup {"idle", "autoclose", "expire", "penalising", "recalc", "explain",
                             "appeal", "create", "delete", "calculate"}
Request == [op : OpNames, ticket : Tickets \cup {0}, session : Sessions \cup {0},
            fresh : BOOLEAN, todo : SUBSET Sessions, ticketed : SUBSET Sessions,
            made : SUBSET Sessions, held : SUBSET Sessions, count : Nat,
            names : SUBSET Tickets, last : Out, asks : BOOLEAN]
Idle == [op |-> "idle", ticket |-> 0, session |-> 0, fresh |-> FALSE, todo |-> {},
         ticketed |-> {}, made |-> {}, held |-> {}, count |-> 0, names |-> {},
         last |-> "none", asks |-> FALSE]

VARIABLES
  shift,       \* VN Attendance Work Session and its OUT logs, per session
  ticket,      \* VN Checkout Miss rows
  appeals,     \* ghost: appeals that were accepted, per ticket
  period,      \* the payroll period of these days and the employee's line; `asked' is a
               \* ghost: some response said payroll_recalc_required since the calculation
  lock,        \* the Redis key gege_hr:cm:run_hourly_lock: its owner, 0 when free
  req          \* requests and jobs in flight

db   == <<shift, ticket, appeals, period, lock>>
vars == <<shift, ticket, appeals, period, lock, req>>

-----------------------------------------------------------------------------
(* Queries. *)

Rows == {t \in Tickets : ticket[t].status \in Statuses}
Status(t) == ticket[t].status
TicketsOf(s) == {t \in Rows : ticket[t].session = s}
Engine(t) == ~ticket[t].manual
Ticketed == {s \in Sessions : \E t \in TicketsOf(s) : Engine(t)}  \* by shift_instance
Unused == {t \in Tickets : ticket[t] = NoTicket}
NewTickets(n) == {t \in Unused : Cardinality({u \in Unused : u < t}) < n}

\* The last OUT log inside the window of the shift; the engine's is at planned_end.
LastOut(s) ==
  CASE shift[s].real = "late"  -> "real"
    [] shift[s].autos > 0      -> "auto"
    [] shift[s].real = "early" -> "real"
    [] OTHER                   -> "none"

\* Mutants: an OUT log is not looked for (FINDING-P1 undone); an OUT of a later shift
\* masks the session too (FINDING-P6 undone).
OpenUnlessPaired == {s \in Sessions : shift[s].due /\ ~shift[s].flag /\ shift[s].out = "none"}
OpenUnlessMasked == {s \in OpenUnlessPaired : \A q \in Sessions : s <= q => LastOut(q) = "none"}
OpenSessions ==
  {s \in Sessions : /\ shift[s].due /\ ~shift[s].flag /\ shift[s].out = "none"
                    /\ LastOut(s) = "none"}

occurrences == Cardinality({t \in Rows : ~ticket[t].waived})

\* load_checkout_miss_penalty, in penalties.
PenaltyDue ==
  Cardinality({t \in Rows : Status(t) = "Penalised" /\ ~ticket[t].waived /\ ticket[t].fined})
Pending == {t \in Rows : Status(t) = "Pending"}

\* Mutant: an approved period does not ask for a recalculation.
payroll_unapproved == period.status = "Calculated"
payroll_locked     == period.status = "Approved" /\ period.linked
payroll_calculated == \/ period.status = "Calculated"
                      \/ period.status = "Approved" /\ ~period.linked

_ALLOWED_ACTIONS(status) ==
  CASE status \in {"Pending", "Explained"} -> {"waive", "penalise", "close", "extend"}
    [] status = "Waived"    -> {"penalise", "close"}
    [] status = "Penalised" -> {"waive", "close"}
    [] OTHER                -> {"reopen"}

InFlight == {r \in Requests \cup Jobs : req[r].op # "idle"}

-----------------------------------------------------------------------------
(* Requests. *)

StartCall(r, call) ==
  /\ call.op \in Ops
  /\ req[r] = Idle
  /\ Cardinality(InFlight) < MaxInFlight
  /\ req' = [req EXCEPT ![r] = call]

\* r becomes `next'; the tickets T and the sessions S got a new stamp.
Commit(r, next, T, S) ==
  req' = [q \in DOMAIN req |->
            IF q = r THEN next
            ELSE [req[q] EXCEPT
                    !.fresh = @ /\ req[q].ticket \notin T /\ req[q].session \notin S,
                    !.names = IF req[q].op = "penalising" THEN @ \ T ELSE @]]

\* The request throws or its worker dies.  A dead job leaves its lock behind.
Abort(r) ==
  /\ req[r] # Idle
  /\ req' = [req EXCEPT ![r] = Idle]
  /\ UNCHANGED db

Put(t, row) == ticket' = [ticket EXCEPT ![t] = row]

-----------------------------------------------------------------------------
(* The shift and its punches. *)

ShiftEnds(s) ==
  /\ ~shift[s].due /\ \A q \in Sessions : q < s => shift[q].due
  /\ shift' = [shift EXCEPT ![s].due = TRUE]
  /\ UNCHANGED <<ticket, appeals, period, lock, req>>

\* The employee's own OUT reaches the server (device synchronisation may be late); its
\* recalculation is a job of its own.
Punch(s) ==
  /\ shift[s].real = "none"
  /\ Cardinality(InFlight) < MaxInFlight
  /\ \E at \in {"early", "late"} : shift' = [shift EXCEPT ![s].real = at]
  /\ UNCHANGED <<ticket, appeals, period, lock, req>>

\* persist_work_session: the hook of a punch, heal_stale_sessions, or HR.
RecalcBegin(r, s) ==
  /\ StartCall(r, [Idle EXCEPT !.op = "recalc", !.session = s, !.fresh = TRUE, !.last = LastOut(s),
                 !.names = {t \in TicketsOf(s) : Status(t) \in {"Pending", "Explained"}}])
  /\ UNCHANGED db

\* vn_auto_checkout says that the OUT in use is the engine's.
RecalcFlag(r) == req[r].last = "auto"

\* The save of the session, then _auto_resolve_checkout_miss, which overwrites the
\* status of the tickets it saw undecided.
RecalcCommit(r) ==
  LET s == req[r].session
      closed == IF RecalcFlag(r) THEN {} ELSE req[r].names \cap Rows
  IN  /\ req[r].op = "recalc" /\ req[r].fresh
      /\ shift' = [shift EXCEPT ![s].flag = RecalcFlag(r), ![s].out = req[r].last]
      /\ ticket' = [t \in Tickets |->
                      IF t \in closed THEN [ticket[t] EXCEPT !.status = "Closed"] ELSE ticket[t]]
      /\ Commit(r, Idle, closed, {s})
      /\ UNCHANGED <<appeals, period, lock>>

-----------------------------------------------------------------------------
(* The engine: auto_close_missed_checkouts, in a check-in or in the hourly job. *)

\* What a transaction that starts to close sessions reads.
CloseReads(todo) ==
  [Idle EXCEPT !.op = "autoclose", !.todo = todo, !.ticketed = Ticketed, !.count = occurrences]

CloseBegin(r) ==
  /\ "checkin" \in Ops
  /\ OpenSessions # {}
  /\ StartCall(r, CloseReads(OpenSessions))
  /\ UNCHANGED db

Next_(r) == CHOOSE s \in req[r].todo : \A q \in req[r].todo : s <= q

\* Mutant: the claim reads the flag in the snapshot.
ClaimsSeen(r, s) == s \in req[r].todo
\* The guarded UPDATE of the current row.
Claims(r, s) == ~shift[s].flag

\* It waits for the row lock of a transaction that claimed the session before it.  The
\* search for a ticket of the session that follows is answered from the snapshot.
CloseNext(r) ==
  /\ req[r].op = "autoclose" /\ req[r].todo # {}
  /\ LET s == Next_(r)
         claimed == IF Claims(r, s) THEN {s} ELSE {}
     IN  /\ \A q \in InFlight : s \notin req[q].held
         /\ req' = [req EXCEPT ![r].todo = @ \ {s}, ![r].held = @ \cup claimed,
                               ![r].made = @ \cup (claimed \ req[r].ticketed)]
  /\ UNCHANGED db

\* An exception in _close_session: log_error rolls back what is not committed yet, the
\* claims of the sessions before it included, and the loop goes on.
CloseFails(r) ==
  /\ req[r].op = "autoclose" /\ req[r].todo # {}
  /\ \A q \in InFlight : Next_(r) \notin req[q].held
  /\ req' = [req EXCEPT ![r] = CloseReads(req[r].todo \ {Next_(r)})]
  /\ UNCHANGED db

Penalty(occ) == occ > FreeFirstN

RaisedTicket(s, manual, occ) ==
  [session |-> s, manual |-> manual, status |-> "Pending", fined |-> Penalty(occ),
   waived |-> FALSE, occ |-> occ, expired |-> FALSE, appealed |-> FALSE]

\* The n-th session made gets the n-th new ticket.
Nth(made, s) == Cardinality({q \in made : q <= s})
For(made, t) ==
  CHOOSE s \in made : Nth(made, s) = Nth(NewTickets(Cardinality(made)), t)

ClosedShift(c, s) ==
  [shift[s] EXCEPT !.flag  = @ \/ s \in c.held,
                   !.out   = IF s \in c.made THEN "auto" ELSE @,
                   !.autos = IF s \in c.made THEN @ + 1 ELSE @]
RaisedFor(c, t) ==
  LET s == For(c.made, t) IN RaisedTicket(s, FALSE, c.count + Nth(c.made, s))

\* For every session made: its OUT log, its ticket and the session row (stamp untouched).
\* A job then turns to the expired tickets, in a transaction of its own.
CloseCommit(r) ==
  LET made == req[r].made
      New == NewTickets(Cardinality(made))
  IN  /\ req[r].op = "autoclose" /\ req[r].todo = {}
      /\ Cardinality(made) <= Cardinality(Unused)
      /\ shift' = [s \in Sessions |-> ClosedShift(req[r], s)]
      /\ ticket' = [t \in Tickets |-> IF t \in New THEN RaisedFor(req[r], t) ELSE ticket[t]]
      /\ Commit(r, IF r \in Jobs THEN [Idle EXCEPT !.op = "expire"] ELSE Idle, {}, {})
      /\ UNCHANGED <<appeals, period, lock>>

-----------------------------------------------------------------------------
(* run_hourly: one run at a time, by a Redis key with a time to live. *)

TickBegin(j) ==
  /\ lock = 0
  /\ lock' = j
  /\ StartCall(j, CloseReads(OpenSessions))
  /\ UNCHANGED <<shift, ticket, appeals, period>>

LockExpires ==
  /\ lock # 0
  /\ lock' = 0
  /\ UNCHANGED <<shift, ticket, appeals, period, req>>

\* Mutants: a ticket with a dead link is never penalised (its save fails every hour);
\* explained tickets are penalised too.
ExpiredAlive == {t \in Pending : ticket[t].expired /\ ticket[t].session \notin Purged}
PenalisedEarly == {t \in Rows : Status(t) \in {"Pending", "Explained"} /\ ticket[t].expired}
Expired == {t \in Pending : ticket[t].expired}

PenaliseBegin(j) ==
  /\ req[j].op = "expire"
  /\ req' = [req EXCEPT ![j] = [Idle EXCEPT !.op = "penalising", !.names = Expired]]
  /\ UNCHANGED db

\* The save of one of the tickets found; one that was written since then fails on its
\* stamp and has left `names'.  Where a link is dead the status is set without a stamp.
PenaliseOne(j, t) ==
  /\ t \in req[j].names /\ req[j].op = "penalising"
  /\ LET left == [req[j] EXCEPT !.names = @ \ {t}]
     IN  IF t \in Rows
         THEN /\ Put(t, [ticket[t] EXCEPT !.status = "Penalised"])
              /\ Commit(j, left, IF ticket[t].session \in Purged THEN {} ELSE {t}, {})
         ELSE /\ Commit(j, left, {}, {})
              /\ UNCHANGED ticket
  /\ UNCHANGED <<shift, appeals, period, lock>>

\* The key is deleted whoever holds it now.
TickEnd(j) ==
  /\ req[j].op = "penalising" /\ req[j].names = {}
  /\ lock' = 0
  /\ req' = [req EXCEPT ![j] = Idle]
  /\ UNCHANGED <<shift, ticket, appeals, period>>

-----------------------------------------------------------------------------
(* The ticket: HR and the employee. *)

not_locked(act) == act = "extend" \/ ~payroll_locked

\* resolve_checkout_miss (one ticket of the bulk endpoint too), extend, reopen.
HRBegin(r, t, act) ==
  /\ t \in Rows
  /\ act \in _ALLOWED_ACTIONS(Status(t))
  /\ not_locked(act)
  /\ StartCall(r, [Idle EXCEPT !.op = act, !.ticket = t, !.fresh = TRUE,
                 !.asks = act # "extend" /\ payroll_calculated])
  /\ UNCHANGED db

\* The new deadline is in the future; a reopened ticket keeps the old one.
Extended(row) == [row EXCEPT !.expired = FALSE]
Reopened(row) == [row EXCEPT !.status = "Pending"]

\* Mutants: the waiver is not taken back; the action is stored for the status.
ResolvedSticky(act, row) ==
  CASE act = "waive"    -> {[row EXCEPT !.status = "Waived", !.waived = TRUE]}
    [] act = "penalise" -> {[row EXCEPT !.status = "Penalised"]}
    [] act = "close"    -> {[row EXCEPT !.status = "Closed"]}
    [] act = "extend"   -> {Extended(row)}
    [] act = "reopen"   -> {Reopened(row)}
ResolvedRaw(act, row) == {[row EXCEPT !.status = act]}

\* penalty_amount is given, or the configured one, or already set.
Resolved(act, row) ==
  CASE act = "waive"    -> {[row EXCEPT !.status = "Waived", !.waived = TRUE]}
    [] act = "penalise" -> {[row EXCEPT !.status = "Penalised", !.waived = FALSE, !.fined = f] :
                              f \in BOOLEAN}
    [] act = "close"    -> {[row EXCEPT !.status = "Closed"]}
    [] act = "extend"   -> {Extended(row)}
    [] act = "reopen"   -> {Reopened(row)}

\* doc.save(): refused on a stale stamp, or when a link of the ticket is dead.
HRCommit(r) ==
  LET t == req[r].ticket
  IN  /\ req[r].op \in HRActions /\ req[r].fresh
      /\ ticket[t].session \notin Purged
      /\ \E row \in Resolved(req[r].op, ticket[t]) : Put(t, row)
      /\ period' = [period EXCEPT !.asked = @ \/ req[r].asks]
      /\ Commit(r, Idle, {t}, {})
      /\ UNCHANGED <<shift, appeals, lock>>

\* Mutant: the states an explanation is accepted in (BUG-1 undone).
ExplainableAny(t) == Status(t) # "Closed" /\ ~ticket[t].expired
Explainable(t) == Status(t) \in {"Pending", "Explained"} /\ ~ticket[t].expired

ExplainBegin(r, t) ==
  /\ t \in Rows
  /\ Explainable(t)
  /\ StartCall(r, [Idle EXCEPT !.op = "explain", !.ticket = t])
  /\ UNCHANGED db

\* db.set_value: whatever the row has become.
ExplainCommit(r) ==
  LET t == req[r].ticket
  IN  /\ req[r].op = "explain" /\ t \in Rows
      /\ Put(t, [ticket[t] EXCEPT !.status = "Explained"])
      /\ Commit(r, Idle, {t}, {})
      /\ UNCHANGED <<shift, appeals, period, lock>>

Appealable(t) == Status(t) = "Penalised" /\ ~ticket[t].appealed

AppealBegin(r, t) ==
  /\ t \in Rows
  /\ Appealable(t)
  /\ not_locked("appeal")
  /\ StartCall(r, [Idle EXCEPT !.op = "appeal", !.ticket = t, !.asks = payroll_calculated])
  /\ UNCHANGED db

AppealCommit(r) ==
  LET t == req[r].ticket
  IN  /\ req[r].op = "appeal" /\ t \in Rows
      /\ Put(t, [ticket[t] EXCEPT !.status = "Explained", !.appealed = TRUE])
      /\ appeals' = [appeals EXCEPT ![t] = @ + 1]
      /\ period' = [period EXCEPT !.asked = @ \/ req[r].asks]
      /\ Commit(r, Idle, {t}, {})
      /\ UNCHANGED <<shift, lock>>

GraceExpires(t) ==
  /\ t \in Rows /\ ~ticket[t].expired
  /\ Put(t, [ticket[t] EXCEPT !.expired = TRUE])
  /\ UNCHANGED <<shift, appeals, period, lock, req>>

day_free(s) == TicketsOf(s) = {}

\* create_checkout_miss for the day of session s; it counts every ticket.
CreateBegin(r, s) ==
  /\ day_free(s)
  /\ StartCall(r, [Idle EXCEPT !.op = "create", !.session = s, !.count = Cardinality(Rows)])
  /\ UNCHANGED db

CreateCommit(r) ==
  /\ req[r].op = "create"
  /\ \E t \in NewTickets(1), f \in BOOLEAN :   \* penalty_amount may be given
       Put(t, [RaisedTicket(req[r].session, TRUE, req[r].count + 1) EXCEPT !.fined = f])
  /\ Commit(r, Idle, {}, {})
  /\ UNCHANGED <<shift, appeals, period, lock>>

\* Frappe deletes no document that others link: a ticket of the engine has its OUT log
\* and its session, so only a manual one can go.
DeleteBegin(r, t) ==
  /\ t \in Rows /\ ~Engine(t)
  /\ not_locked("delete")
  /\ StartCall(r, [Idle EXCEPT !.op = "delete", !.ticket = t])
  /\ UNCHANGED db

DeleteCommit(r) ==
  LET t == req[r].ticket
  IN  /\ req[r].op = "delete" /\ t \in Rows
      /\ Put(t, Deleted)
      /\ Commit(r, Idle, {t}, {})
      /\ UNCHANGED <<shift, appeals, period, lock>>

-----------------------------------------------------------------------------
(* The payroll period, as far as it reads the tickets (see PayrollReview).  *)

PeriodStep(from, to) ==
  /\ "calculate" \in Ops /\ Cardinality(InFlight) < MaxInFlight
  /\ period.status \in from
  /\ period' = [period EXCEPT !.status = to, !.linked = @ \/ to = "Slips Generated"]
  /\ UNCHANGED <<shift, ticket, appeals, lock, req>>

\* The claim commits before the blockers are looked at.  A published period can be
\* claimed again once an employee asked for an adjustment.
PayrollClaim    == PeriodStep({"Draft", "Calculating", "Calculated", "Published"}, "Calculating")
PayrollApprove  == PeriodStep({"Calculated", "Approved"}, "Approved")
PayrollGenerate == PeriodStep({"Approved", "Slips Generated"}, "Slips Generated")
PayrollPublish  == PeriodStep({"Slips Generated"}, "Published")

pending_checkout_miss_tickets == Pending = {}

PayrollReads(r) ==
  /\ period.status = "Calculating"
  /\ pending_checkout_miss_tickets
  /\ StartCall(r, [Idle EXCEPT !.op = "calculate", !.count = PenaltyDue])
  /\ UNCHANGED db

PayrollCalculated(r) ==
  /\ req[r].op = "calculate"
  /\ period' = [period EXCEPT !.status = "Calculated", !.deducted = req[r].count, !.asked = FALSE]
  /\ Commit(r, Idle, {}, {})
  /\ UNCHANGED <<shift, ticket, appeals, lock>>

-----------------------------------------------------------------------------
Init ==
  /\ shift = [s \in Sessions |-> [due |-> FALSE, flag |-> FALSE, out |-> "none",
                                  real |-> "none", autos |-> 0]]
  /\ ticket = [t \in Tickets |-> NoTicket]
  /\ appeals = [t \in Tickets |-> 0]
  /\ period = [status |-> "Draft", linked |-> FALSE, deducted |-> 0, asked |-> FALSE]
  /\ lock = 0
  /\ req = [r \in Requests \cup Jobs |-> Idle]

World ==
  \/ "autoclose" \in Ops /\ (\E s \in Sessions : ShiftEnds(s))
  \/ "recalc" \in Ops /\ (\E s \in Sessions : Punch(s))
  \/ \E t \in Tickets : GraceExpires(t)

Begin(r) ==
  \/ CloseBegin(r)
  \/ \E s \in Sessions : RecalcBegin(r, s) \/ CreateBegin(r, s)
  \/ \E t \in Tickets : \/ ExplainBegin(r, t) \/ AppealBegin(r, t) \/ DeleteBegin(r, t)
                        \/ \E act \in HRActions : HRBegin(r, t, act)
  \/ PayrollReads(r)

Finish(r) ==
  \/ RecalcCommit(r) \/ HRCommit(r) \/ ExplainCommit(r) \/ AppealCommit(r)
  \/ CreateCommit(r) \/ DeleteCommit(r) \/ PayrollCalculated(r)

Closing(r) == CloseNext(r) \/ CloseFails(r) \/ CloseCommit(r)

HourlyJob(j) ==
  TickBegin(j) \/ PenaliseBegin(j) \/ (\E t \in Tickets : PenaliseOne(j, t)) \/ TickEnd(j)

Next ==
  \/ World
  \/ \E r \in Requests : Begin(r) \/ Finish(r)
  \/ \E r \in Requests \cup Jobs : Closing(r) \/ Abort(r)
  \/ \E j \in Jobs : HourlyJob(j)
  \/ LockExpires
  \/ PayrollClaim \/ PayrollApprove \/ PayrollGenerate \/ PayrollPublish

Spec == Init /\ [][Next]_vars

\* The scheduler starts the job every hour, and the key expires.  A request does not run
\* for ever.  A job may die and a session may fail to close, but none every time.
SchedulerFairness ==
  /\ WF_vars(LockExpires)
  /\ \A r \in Requests : WF_vars(Finish(r) \/ Closing(r) \/ Abort(r))
  /\ \A j \in Jobs :
       /\ WF_vars(TickBegin(j)) /\ SF_vars(PenaliseBegin(j)) /\ WF_vars(TickEnd(j))
       /\ SF_vars(CloseCommit(j))
       /\ \A s \in Sessions : /\ SF_vars(CloseNext(j) /\ Next_(j) = s)
                            /\ SF_vars(CloseCommit(j) /\ s \in req[j].held)
       /\ \A t \in Tickets : SF_vars(PenaliseOne(j, t))
FairSpec == Spec /\ SchedulerFairness

-----------------------------------------------------------------------------
(* Properties. *)

\* Types of the sessions, the tickets, the payroll period, the lock and the requests.
TypeOK ==
  /\ shift \in [Sessions -> Shift]
  /\ ticket \in [Tickets -> Ticket \cup {NoTicket, Deleted}]
  /\ appeals \in [Tickets -> Nat]
  /\ period \in Period
  /\ lock \in Jobs \cup {0}
  /\ req \in [Requests \cup Jobs -> Request]

\* The guarded claim of _close_session: whoever closes a session at the same time, it
\* gets one OUT log of the engine and one ticket.
OneTicketPerSession ==
  \A s \in Sessions : /\ Cardinality({t \in TicketsOf(s) : Engine(t)}) <= 1
                      /\ shift[s].autos <= 1

\* FINDING-P1: no OUT of the engine is put on top of one the employee has made.
OutOverNone == \A s \in Sessions : shift'[s].autos > shift[s].autos => shift[s].real = "none"
NoDoubleOut == [][OutOverNone]_vars

\* A decided ticket (waived, penalised, closed) changes its status only by a request of HR
\* or by an appeal, never by an explanation or by a recalculation.
Stands ==
  \A t \in Rows :
    /\ Status(t) \in {"Waived", "Penalised", "Closed"}
    /\ ticket'[t].status # Status(t)
    => \E r \in Requests : /\ req[r].ticket = t /\ req'[r] = Idle
                          /\ req[r].op \in HRActions \cup {"appeal", "delete"}
DecisionStands == [][Stands]_vars

\* The hourly job penalises no ticket whose explanation HR has in its queue: only HR
\* takes a ticket from Explained to Penalised.
Explained ==
  \A t \in Rows :
    Status(t) = "Explained" /\ ticket'[t].status = "Penalised"
    => \E r \in Requests : req[r].ticket = t /\ req[r].op = "penalise"
ExplanationKept == [][Explained]_vars

\* A penalised ticket is one the payroll deducts: the waiver was taken back.
PenalisedIsDeducted == \A t \in Rows : Status(t) = "Penalised" => ~ticket[t].waived

\* appeal_checkout_miss: one appeal against a ticket.
OneAppeal == \A t \in Tickets : appeals[t] <= 1

\* What the payroll line deducts is what the tickets say, or HR has been told to
\* recalculate since.
DeductionIsCurrent ==
  period.status \in {"Calculated", "Approved"} => period.deducted = PenaltyDue \/ period.asked

\* Once slips were generated from an approved period, its tickets are not changed.
TicketsFrozenBySlips ==
  [][period.linked /\ period.status \in {"Approved", "Slips Generated", "Published"}
     => \A t \in Rows : ticket'[t].status = Status(t)]_vars

\* A ticket left pending past its deadline is decided, or its deadline moved.
ExpiredIsDecided ==
  \A t \in Tickets : LET Overdue == Status(t) = "Pending" /\ ticket[t].expired
                    IN  Overdue ~> ~Overdue

\* A forgotten check-out is closed, even if the employee does not come back.
ForgottenIsClosed ==
  \A s \in Sessions : shift[s].due ~> LastOut(s) # "none"
=============================================================================
