# gege_hr: a TLA+ verification of the HR portal

gege_hr is a Frappe/ERPNext app: HTTP endpoints (`gege_hr/gege_hr/api`), document
controllers (`doctype`), pure helpers (`utils`) and scheduled jobs (`hooks.py`) over one
MariaDB database and one Redis. It runs as many web and background workers, and all they
share is in the database and the cache. What is hard about it is what happens when requests,
jobs and employees meet on the same rows, what a long sequence of legal calls leads to, and
whether things that are computed in several places agree.

The project has 26 modules that model the program, `LoginGrant`, which only says what a
login promises, eight modules that instantiate them for TLC (`MCStories` is what two of them
share), twelve configurations, and eight modules of proofs. To run, in this directory:

    tlc -workers 2 -config MCTime.cfg MCTime.tla        # a run, see "Runs"
    tlapm PunchProofs.tla                               # a module of proofs, see "Proofs"

Paths below are under `src/gege_hr/gege_hr`. `PROJECT.json` maps every definition to its
lines, lists the hazards at theirs, and gives for each property a mutant: a plausible bug
of the code under which its run finds it violated. The mutated operators stand next to the
ones they replace.

## Inventory

"Correct means" is what the code, its comments and its documents promise.

| Part | State | Operations | Hard because | Correct means | Modules |
|---|---|---|---|---|---|
| **Payroll review and payslip acknowledgement** (`api/payroll.py`, `api/payslip_ack.py`, `utils/payroll.py`) | period status, lines, salary slips, the answer to each slip | calculate, approve, generate, retry, publish, update, delete, cancel, adjust, reopen; request, reject, confirm, pay; daily auto-confirm; monthly close | a claim that commits before the work; slips deleted and inserted again; confirmations that do not touch the period's row | one live slip per employee, with a reviewed amount; what was confirmed does not change; the period locks with the last confirmation | `PayrollReview`, `MonthEnd`, `PayCalc`, `PayBasis` |
| **Missed checkouts** (`utils/checkout_miss.py`, `api/checkout_miss.py`, `utils/calc.py`) | work sessions, OUT logs, tickets, a Redis lock | close a session (hourly job, any check-in), penalise expired tickets, recalculate; waive, penalise, close, extend, reopen, create, delete; explain, appeal | job, check-in, HR and employee on one ticket; late punches; partial rollback; a lock with a time to live | one OUT and one ticket per session; decisions stand; what is penalised is deducted; nothing is left open | `CheckoutMiss`, `HandPunch` |
| **Web QR login and seat bridge** (`api/web_qr.py`, `utils/web_qr.py`) | cache entries with ages, single-use keys, rate counters | create, poll, approve, redeem, finish | two browsers and a phone on one code; expiry in between; no transaction | one login per code, of the employee who confirmed it | `WebQr` |
| **Monthly attendance period** (`api/attendance_period.py`) | period and lines | open, generate, confirm, adjust, review, lock, unlock | lock against requests on their way | a locked month does not change | `MonthPeriod` |
| **Salary advance** (`api/advance.py`, the request's controller) | requests, their deductions, payment | submit, update, cancel; approve, reject, return; pay, reverse | payment and reversal overlapping; best-effort deduction | taken back once, with the amount approved by every step | `SalaryAdvance` |
| **Approval inbox, matrix and delegation** (`api/approval.py`, `utils/approval.py`) | state, log, delegations, matrices | route, approve, reject, return, delegate, escalate, bulk | who holds a step; matrices that change meanwhile | a decision is made once, by holders of every step | `Requests`, and where a kind has its own |
| **Check-in, sessions, recalculation** (`api/attendance.py`, `utils/calc.py`, `api/device.py`) | punches, sessions, core Attendance, queue, raw logs | tap, replay, edit, recalculate, heal, mark; push, upload, map | duplicated and late punches; recalculations in parallel; lost jobs | one punch per tap; a session shows its punches; no absence with an IN | `Attendance`, `Device`, `HandPunch`, `WorkDay`, `TapScreen` |
| **Correction, overtime, explanation requests** | request rows, session, ticket | draft, submit, move, return, approve, cancel | effects are jobs queued before the commit | overtime is counted once approved, all of it | `Requests` |
| **Leave** (`api/leave*.py`, `api/handover.py`, `utils/leave*.py`) | applications, ledger, cancellations, handovers, blackout rules, policies, allocations | apply, approve, cancel, hand over; rules; assign, grant, amend | balances read in a snapshot from before the lock | the balance holds; a decision stands; grants follow assignments | `Leave`, `Blackout`, `LeavePolicy` |
| **Shift instances and swaps** (`api/shift.py`, `api/admin.py`) | assignments, instances, requests, swaps | assign, end, amend, override, skip, swap, generate; bulk | one transaction writes many rows and the generator rolls all of it back | nobody is booked twice; no instance without its assignment; screens offer what can be done | `Schedule`, `RosterScreen` |
| **Salary masters** (`api/payroll_master.py`) | structures, assignments, pay mode, payroll periods | assign, bulk assign, cancel, switch mode | several ideas of an overlap | one open assignment; periods apart | `SalarySetup` |
| **Onboarding and lifecycle** (`api/onboarding.py`, `api/employee_lifecycle.py`) | onboarding tasks, ToDos; employees, shifts, days | template, start, task, cancel; leave, return, delete | ToDos found by who holds the tasks at the end | nobody keeps a dead ToDo; who left has no shift; punched days stay | `Onboarding`, `Lifecycle` |
| **Expense, benefits, services** (`api/expense.py`, `api/employee_services.py`, ...) | documents of nine kinds | draft, submit, decide, pay, cancel, amend | kinds that differ in one guard | what is approved is what stands; what is offered is accepted | `Claims` |
| **Recruitment and appraisal** (`api/recruitment.py`) | openings, applicants, interviews, offers | publish, close, move, decide, onboard | two ways to the same status | who was accepted stays so | `Hiring` (not the appraisal) |
| **Reports, dashboards, month sheet** (`utils/month_sheet.py`, `api/attendance.py`) | none | queries | written apart from one another | the screens agree | `MonthSheet`, `TapScreen`, `RosterScreen` |
| **Profiles, settings, permissions** (`api/admin.py`, `api/user_profile.py`, ...) | accounts, roles, links | create, link, assign roles, ask for a change | order of account, employee and role | an employee's account has his role | `Accounts` (settings are not modelled) |
| Notifications and audit | append-only rows | push, log | best effort by design | - | - |
| Bank export, VietQR | none | formatting | - | - | - |
| Setup, seeds, patches | fixtures | one-off scripts | - | - | - |

How they interact: a payroll calculation reads the penalised tickets, the paid advances and
the locked month, and refuses to run while tickets are pending or advances unpaid; a ticket
asks HR to recalculate once a payroll has read it; the recalculation of a session closes
its ticket, an approved correction or a punch edited by HR waives one; approved overtime
queues a recalculation; the inbox moves advances, corrections, overtime and leave
cancellations by `doc.save()`, whose hooks do the rest; leaving ends the shift assignment.

## How a request is modelled

Every endpoint is a transaction under REPEATABLE READ: the guards are evaluated on the
snapshot of its first read, the writes come later, and other requests may commit in between.
Four forms are used, by what is hard about the component.

*Begin and commit* (`PayrollReview`, `CheckoutMiss`, `SalaryAdvance`, `Attendance`,
`MonthPeriod`, `Leave`, `Claims`, `Device`). *Begin* evaluates the guards and keeps in
`req[r]` what the request goes on relying on; *commit* writes; a commit in the middle of the
code is a step of its own. Whatever another commit invalidates is taken out of `req[r]` at
that moment. The rules are those of the code's ways to write:

* `doc.save()` compares the row's `modified` stamp under `FOR UPDATE` with the one loaded
  and throws otherwise (`fresh`, `CanSave`, `HRCommit`, `Saves`); a stale request can only abort.
* `db.set_value` / `db_set` write whatever the row has become, with a new stamp
  (`StampAck`, `ExplainCommit`, `ReverseCancels`).
* `guarded_update` (`utils/_db.py`) reads the *current* row and leaves the stamp alone
  (`Claim`, `Claims`). What is read afterwards in the same transaction is the old
  snapshot again, which is why `CloseNext` uses `req[r].ticketed`.

*A held snapshot* (`SalarySetup`, `LeavePolicy`, `Blackout`, `Onboarding`, `Hiring`,
`Lifecycle`, `Accounts`). `held` is a snapshot taken before other requests were let
through; a request reads the present state or, once, the held one, and is refused where the
row it saves has changed since. This gives every overlap of one request with those that
follow its first read. `overlap` says from the start whether there are any, so that one
module has both kinds of behaviour; `faulty` says whether what the code catches may fail.

*One transaction with its outcomes* (`Schedule`, `MonthEnd`, `HandPunch`, `Requests`). What
is hard happens inside one request, or between it and the job it queues. An operator that
may throw returns the set of its outcomes, empty when the request is rolled back. In
`Requests` a decision locks its row, so each request has one open transaction.

*Cache commands* (`WebQr`): there is no transaction, every GET, SET, INCR and DELETE is a step.

`WorkDay`, `PayCalc`, `PayBasis`, `MonthSheet` and `TapScreen` are pure: the state is one
input, chosen at the start, and the properties compare what is computed from it in
different ways.

A worker may die or an exception may be thrown at any time (`Abort`): what was committed
stays - the claim of a calculation, the tickets a job penalised, the Redis key - and nothing
else is written. `frappe.log_error` inside a loop of the engine rolls back the claims of
earlier sessions too (`CloseFails`).

Ghost variables record history for properties and no guard reads them: `reviewed` (nets
on the lines at the last approval), `appeals`, `period.asked` (some response said that a
recalculation is due), `signed` and `sent` of `Requests` (approvals since a request was
sent, and the matrix of that time), `counted` of `Attendance` (punches of the last
calculation), `known` of `Device` (rows that were answered), `waived` of `Blackout` and
`Accounts` (rules forced and roles taken knowingly), `confirmed` of `WebQr`, `linked` of the
deductions of `SalaryAdvance` (whether the request was linked with it when it was made).

## Modules

| Module | Its state and actions in the code |
|---|---|
| `PayrollReview` | `status`, `lines`, `slips`, `errors` are the period's row, its lines (a sequence per employee: two calculations that re-enter one claim can insert two), the Salary Slips and `generate_errors`. `Slips` are names `<<employee, k>>`; `Gone` is a line's link to a slip that was deleted. `ALLOWED_TRANSITIONS` is the doctype's table. `GenerateCommit` has per employee: a slip, a slip deleted and not replaced because HRMS refused the insert (`broken`), or nothing. `ConfirmCommit` contains the lock after the last confirmation and the submits it makes, each of which may fail. `DaysPass` makes a slip overdue. |
| `MonthEnd` | Several review periods of one company and month: opened by hand or by `auto_close_payroll`, blocked by tickets, advances and missing bases, recalculated while employees leave and amounts change. What stops a calculation leaves its committed claim. |
| `PayCalc` | The folds over the sessions of a period (`summarize_work_sessions`, `build_monthly_agg`), the hours by bracket, in steps of an hour from the start of a span, `compute_line` and `compute_hourly_line`; days in hundredths, hours in ticks. |
| `PayBasis` | Who looks up salary assignments, base, allowances and hourly rate, and as of which date. |
| `CheckoutMiss` | One employee. `shift` is a session with its OUT logs, the employee's (early or late) and the engine's; `LastOut` is the pairing of `persist_work_session`; `ticket` and `period` are the tickets and the payroll that reads them. The engine runs `TickBegin`, `CloseNext`* , `CloseCommit`, `PenaliseBegin`, `PenaliseOne`* , `TickEnd`, or its closing part in a check-in (`CloseBegin`). `Purged` are sessions whose rows a seed script removed: a ticket with such a dead link cannot be saved. A wait for a row lock is modelled in `CloseNext` (`held`), where its order matters. |
| `HandPunch` | `admin_custom_checkin`: the punches, committed; the waiver of the ticket in a transaction of its own; the recalculation. |
| `WebQr`, `LoginGrant` | `record`, `ticket`, `once` are the cache entries of a code, of a ticket and the counters, each with its expiry; `active`, `sessions` are accounts and logins. `LoginGrant` is the promise: a code waits, one employee confirms it, one session of that employee. |
| `MonthPeriod` | `work` are the figures of the sessions, which go on changing; `period`, `line`, `review` (whether a payroll depends on the month). `fresh` holds the rows whose stamp a request still has. |
| `SalaryAdvance` | `Valid` is `validate()`, which runs in every save, also in those of an approver or a payment: cap, cutoff day, quota. The deduction a payment makes may fail, stay a draft, or be made while the link to it cannot be written (`PayCommit`); the cancellation a reversal makes may fail with the row untouched or already written (`ReverseKeeps`), and so may the clearing of the link (`ReverseKeeps`, `ReverseClears`). Where the code always throws no commit exists. |
| `Requests` | `doc` and `saving` are the committed row and the one of the open transaction; `matrix`, `deleg`, `locked` (days of a locked month), `queue` (recalculations), `counted` (what the session counts), `ticket`. `Eager` lets a worker take a job before the approval that queued it commits, `Overlap` lets two submissions validate against the same state. |
| `Attendance` | One employee, hours since some midnight. The tap (`mobile_checkin`) with its attempt, its type by the last punch and its recalculation; the offline replay; punches of devices and of HR; jobs of the queue, lost and healed; absence; manual marks; HR's overtime. `ops` is the set of operations of a behaviour. |
| `Device` | A pushed row becomes a raw log, committed, and then a check-in, or an error; `mapping` leads from badge to employee, `holder` is who really has it. |
| `WorkDay`, `TapScreen`, `MonthSheet` | `calculate_work_session` and `generate_segments` of one shift, with overtime credited to requests by looks at the middle of parts of about a `Step`, the five minutes of the code (`match_overtime_request_detailed`; credits are in `Grain`ths of a tick); the button, the session context and the tap at one moment; the month sheet, the team grid, the review and the locks of one month. |
| `Leave` | `leave` with its `ledger`, cancellation requests `cr`, handovers `task`. The lock on the allocation makes an approval wait and then look at the old ledger. |
| `Blackout`, `LeavePolicy` | rules, their overlap guard, the mark they put on an application; leave periods, policies, assignments and what they grant. |
| `Schedule`, `RosterScreen` | `sa`, `inst`, `punch`, `sr`, `swap`; the generator rolls the whole transaction back when a row fails, and goes on. `RosterScreen` extends it with the calendars, the grid's cells and their `can`, the lists, the drawer and the gates of the endpoints; `Bulks` are sets of assignments HR ends or switches at once. |
| `SalarySetup`, `Claims`, `Onboarding`, `Lifecycle`, `Hiring`, `Accounts` | the rows of the inventory above, one action per endpoint. |

`MCTime` and `MCPeople` put the components of one side into one run: a behaviour is of one
component, told by `story`, and its variables are cells (`MCStories`), so that the components
that rest cost nothing. Their specifications are `TimeSpec` and `PeopleSpec`; the bounds are
in the constraints `TimeSmall` and `PeopleSmall` alone, and the theorems of
`PeopleStoryProofs` and `TimeStoryProofs` are about the specifications without them.
`MCCheckout` does the same as they do for three instances of `CheckoutMiss`. `MCSalaryAdvance`
and `MCAttendance` are one instance each, under names of its own (`Callers` for `Requests`,
`inflight` for `req`), so that a module of proofs can extend them beside another component.

## Properties

| Run | Property | Says |
|---|---|---|
| payroll | `OneLiveSlip` | an employee never has two slips with docstatus < 2, however generations, reopenings and locks overlap |
| | `SlipPaysReviewedAmount` | an amount gets onto a slip only if HR approved it since the last calculation |
| | `ConfirmedSlipIsFinal` | a confirmed slip keeps row, net and confirmation until the period is reopened |
| | `LockedMeansConfirmed`, `LastConfirmationLocks` | the period is locked exactly by the last confirmation |
| | `OverdueIsAnswered` | an overdue slip does not stay unanswered (liveness) |
| checkout | `OneTicketPerSession` | one OUT of the engine and one ticket for a session, whoever closes it |
| | `NoDoubleOut` | no OUT of the engine on top of the employee's |
| | `StandsAlone` | one request at a time, only HR or the one appeal changes a decided ticket |
| | `ExplanationKept` | the deadline job never penalises an explained ticket |
| | `PenalisedIsDeducted` | a penalised ticket has no waiver left on it |
| | `DeductionIsCurrent` | the payroll line deducts what the tickets say, or HR was told |
| | `ExpiredIsDecided`, `ForgottenIsClosed` | liveness of the hourly job |
| advance | `OneLiveDeduction`, `AmountsAgree` | at most one submitted Additional Salary per advance of those it was ever linked with; each of the approved amount |
| | `ApprovedWithinAsked`, `AllStepsSigned`, `ApprovedStands` | nobody sanctions more than was asked for, every step signed, and nothing in flight edits an approved advance |
| attendance | `TapsKept` | a tap that is sent again makes one punch, and from the portal alone never an OUT at the time of an IN |
| | `CurrentWhenQuiet` | when nothing runs, waits or is due for healing, a session shows its punches |
| | `AbsentHasNoIn` | a session with an IN is not absent |
| | `NeverUncounted` | an older calculation does not replace a newer one |
| webqr | `KeepsPromise` | `WebQr` implements `LoginGrant` |
| time | `RequestsKept` | every step of the matrix signed; one open request of a day and kind; the session counts what was approved |
| | `RosterKept` | nobody is booked twice; no instance without its assignment; an assignment the grid offers can be made and stays; what is offered is allowed; nothing possible is hidden; the lists agree |
| | `DeviceKept` | one check-in of a time; what was answered "imported" is kept |
| | `MonthKept` | lines and total of a locked month agree; a month is reviewed once, and the total HR approves is that of the lines |
| | `StepsStand` | a locked month stands; manual adjustments survive a calculation; an edit of punches touches its own shift, waives its ticket, and counts |
| | `DayFigures` | segments add up to the hours, but for those a night band within the day loses; more work pays no less; requests are credited with the overtime they cover to within a part of each window, exactly when all lies on steps, and never with more than was worked |
| | `MonthFigures` | a full period is paid in full; the bracket hours are the payable hours, and less than an hour for each change of the coefficient is paid at another; who comes later is paid no more by the month and for no more hours, and no more by the hour where a span has one coefficient; base, allowances, slip and rate are of one source |
| | `ScreensAgree` | every day of the sheet is accounted for once, its review and the grid agree with it, the locks are the same everywhere; the tap does what the button says |
| people | `LeaveKept` | the ledger keeps to the allocation, one open cancellation; grants follow the assignments in force; blackout rules are apart and their readers agree |
| | `ClaimsKept` | what the screen offers of a claim is accepted, in every state a row gets to |
| | `PayMastersAgree` | one open salary assignment, payroll periods apart |
| | `StaffKept` | no ToDo of a dead onboarding; no applicant of a deleted opening; no shift of who left; the account has its employee's role |
| | `NothingTakenBack` | decisions about leave stand; a claim is approved as it stands; who was accepted stays accepted; punched days stay |

`RequestsKept` to `NothingTakenBack` are conjunctions of the named properties of their
components, each under its `story`; the type invariants are in them too.

## Runs

All passing runs finish within some minutes on two cores. States are distinct states.

| Run | Question | Bounds |
|---|---|---|
| `payroll_overlap` (1.1 M) | do two requests in flight break one-slip or the reviewed amounts? | 1 employee, 2 requests, 2 amounts, 2 slips |
| `payroll_serial` (1.2 M) | does a sequence of legal calls change a confirmed slip, or get the lock wrong? | 2 employees, 1 request at a time, 2 slips each, failures at every step |
| `payroll_autoconfirm` (86 k) | is an overdue slip always answered? | 2 employees (one without a bank account), HR and the job in flight together |
| `checkout` (0.6 M) | tickets three ways: check-ins, job, HR and employee two in flight; every operation one at a time; HR around a payroll calculation | 2 sessions, 2 tickets; `First`: one at a time only the first shift ends; `Second`: and a second ticket follows a quiet first one |
| `checkout_hourly` (5 k) | does the job get everything done? | 2 sessions, one with a dead link; runs die, closes fail, the key expires |
| `advance_overlap` (0.6 M) | every operation on advances, two in flight | 2 advances (the second a resubmission or a race), 2 deductions, 2 amounts, cap on and off, quota 1, 2 steps |
| `attendance` (0.3 M) | do taps, devices, HR, jobs and healing keep the sessions right? | 2 consecutive night shifts, 3 punches, 3 taps, 2 requests; six sets of operations; `TwoPunches`: the third punch in two of them |
| `webqr` (0.6 M) | one login per code? | 1 code, 2 tickets, 2 employees, 2 requests, `CODE_TTL` 3, `MaxNow` 5; `OneStory`: a code is asked for in the first unit of time, and a history is about one of the two ways in |
| `time` (0.6 M) | the components of the time side, one in a behaviour | see `MCTime` |
| `people` (0.3 M) | the components of the people side, one in a behaviour | see `MCPeople` |
| `payroll_late_adjustment` | expects a violation | 1 employee, every endpoint |
| `leave_paid` | expects a violation | a period of two days |

The stories of `time`: *Overtime* (two requests, matrices of one and two steps, a deputy or
an edit by HR), *Correction* (an overtime request and the correction of a missed checkout),
*Roster* (three assignments of one employee over two days), *Bulk* (two assignments, the
second in HR's hands in bulk, seen by HR, a line manager and the employee), *Swap* (two
employees), *Device* (two logs, two requests), *Hand* (two night shifts, three punches),
*Month* (two employees, two requests), *End* (two periods, two days), and over every input
of small sets *Day* (a day of eight ticks, three policies, a night band across midnight and
one within the day, looks every three ticks, requests that touch and requests that overlap,
on and off the steps), *Pay* (two days of 24 ticks, four of them an hour; a span begins
before, within an hour of, or after the end of a bracket), *Basis* (two
assignments, or the departments of five days), *Sheet* (a month of three days) and *Tap* (up
to three punches around one moment). Those of `people`: *Leave*, *Claims* (nine kinds),
*Salary*, *Policy*, *Blackout*, *Onboard*, *Hiring*, *Staff*, *Accounts*, each with
overlapping and, where the code catches exceptions, with failing requests. Further bounds
are constraints named in the modules: mostly "one thing out of the ordinary at a time"
(`RosterSmall`, `DeviceSmall`, `HandSmall`, `EndSmall`, `StaffSmall`, ...) and "when requests
overlap, one row" (`BlackoutSmall`, `AccountsSmall`, ...).

Why the bounds are enough: the properties about a slip, a ticket, an advance or a day
concern one employee, so employees matter only where they share something - the period and
its lock, hence two in `payroll_serial`. A race needs a reader and a writer: two requests in
flight, or one snapshot held, give every ordered pair of operations at every point of their
transactions, and as a slot is used again and again, a request can also overlap with several
that follow one another. Two amounts tell a reviewed from an unreviewed one; two slip names
are one to delete and one to insert. Two sessions are what makes the rollback of
`CloseFails` matter, and two consecutive night shifts are where a punch may be of the wrong
one. What is wrong about a roster is wrong about two rows of one employee, about their
days' overlap and the instances left between them. Where a theorem says the same ("Proofs"),
the bounds do not matter.

Properties that are only checked one request at a time do not hold otherwise (see "What
overlapping requests break").

Deadlock is not checked where the system may stop: all names used up, a clock at its end, a
period deleted, cancelled or confirmed. In `advance_overlap` it is.

## Findings

| Run | What it shows |
|---|---|
| `payroll_late_adjustment` | A line may be adjusted while the period is Slips Generated, and generate is accepted again: the slip pays an amount nobody approved. `_assert_line_editable` looks for a status that does not exist ("Submitted"). |
| `leave_paid` | A rejected leave application is a submitted document, and the payroll looks for docstatus 1 alone: its day is paid. |

### What the code does against its words

The definitions named here state what a docstring, a comment or a name says and a behaviour
of the model contradicts; most have "Refuted" in their comment. They are kept in the modules
for the next change of the code, and no run checks them.

* **Payroll.** "need_review rows contribute NOTHING", but a month that is all in review falls
  back on the sum that does not look at reviews (`ReviewPaysNothing`). One on leave who comes
  and goes outside the shift is paid the day twice (`DaysPaidOnce`). An hour that straddles
  two brackets is all of the first (`BracketsExact`), and the hours are counted from the start
  of the span: with the default brackets, one of which ends at 16:00, 08:59 to 17:00 is paid
  less than 09:00 to 17:00 (`LaterPaysNoMoreAnyhow`). The monthly mode pays overtime nobody
  approved, in sums that are not those of the sessions (`OnlyApprovedOvertime`,
  `OvertimeCountedOnce`). A move to a department after the period prices all of it anew when
  no earlier one is on record (`LaterMoveChangesNothing`); a line's allowances can be of
  another structure than its slip (`OneStructure`); who joins within the period is assigned
  from the joining date and gets no slip for it (`JoinerIsReady`).
* **Month end.** The claim of the job commits before tickets, advances and bases are looked
  at, so a refused month stays Calculating; the next day the period "exists" and is not
  tried again, without an alarm. A cancelled period blocks its month for ever. The line of an
  employee who left after the first calculation stays, gets a slip, and is in no total.
* **Tickets.** A ticket is meant to be frozen once slips were generated, but generating them
  moves the period to a status the check does not know (`TicketsFrozenBySlips`). A reopened
  waived ticket that the hourly job penalises is penalised and waived. Deleting a penalised
  ticket HR made by hand does not ask for a recalculation.
* **Punches by hand.** A recalculation between the edit's commit and the waiver closes the
  ticket for good (`HandOutWaivesAnyhow`); the lock guard looks at the day typed in, not at the
  shift (`LockedStaysPut`); a session without any OUT closes its ticket (`ClosedHasOut`).
* **Figures of a day.** A night band that ends on the day it begins, as 00:00-06:00, ends the
  split: the hours after it are in no segment, though "next day's band" is to come
  (`NothingLost`). "The summed values always equal `match_overtime_request`", but an overlap
  of 58 of 60 minutes is credited with 60, and where two requests overlap the other sum counts
  both (`SumsEqual`).
* **Check-in.** A manual recalculation claims its session and then leaves it alone because of
  the claim (`ManualRecalculationEnds`); a day of leave raises a no-show (`LeaveIsNoNoShow`: the
  check is dead, `utils/calc.py` 1437); moving a punch leaves its old session stale; HR's approval of
  overtime is lost at the next recalculation. A punch of a night shift handed over to the next
  shift at its end may leave a session that is not current (`HandoverOnly`).
* **Time clocks.** Locked months get check-ins, the guard being seven hours off
  (`LockedGetsNoCheckin`); a badge that changes hands books the punch to its new holder
  (`RightEmployee`); a row of an unknown badge is dropped as a duplicate of anybody's.
* **Requests.** With three steps a request never becomes Approved (`ApproveAdvances`);
  a locked month blocks the rejection of a correction, as its save validates the day
  (`HolderCanReject`); the real OUT does not always replace the engine's
  (`CorrectionReplacesOut`). A job that starts before the approval commits leaves the overtime
  uncounted (`Eager`).
* **Advances.** "The row is linked via `linked_additional_salary` so the step never repeats",
  but when the link cannot be written that is only logged: the row is Paid, and paid again, or
  reversed and paid again, the money is taken back twice (`OneLiveAnyhow`). The quota counts
  up to the posting date the client chooses (`MonthQuotaKept`). Only Approved requests block a
  payroll calculation; one that is still pending can be paid afterwards and is on no line
  (`SettledBeforeCalculation`).
* **Leave.** The lock on the allocation comes after the first read: two overlapping
  approvals overdraw it (`AllocationKept`). A draft that is approved while it is deleted
  leaves its ledger entries (`LedgerHasLeave`); an approved cancellation whose leave cannot be
  cancelled is approved all the same (`ApprovedCancellationHolds`). A blackout mark is not
  renewed with the days and is given by rules of other branches (`MarkIsCurrent`,
  `RuleIsForItsBranch`); "Block" blocks nothing when applying.
* **Rosters.** The generator's `except` rolls back the whole transaction: an assignment that
  collides with a leftover instance vanishes while the endpoint returns its name, and a
  request can be approved without its assignment (`ApprovedIsAssigned`); a swap can give both
  employees the shift of the other (`SwapIsWhole`). Ending in bulk an assignment that has
  instances reports it as failed and leaves it cancelled, with its instances; switching one
  on in bulk reports the conflict and leaves it Active. The grid offers HR Users to skip a
  day, which the endpoint refuses; it offers to end what has no assignment
  (`EndHasAssignment`), previews no conflict of leftover instances (`PreviewIsWhole`), shows
  shifts the employee's calendar does not (`GridIsCalendar`), and the drawer offers to cancel
  what has instances (`CancelIsPossible`). A line manager's badge counts everybody's requests
  (`BadgeAgrees`).
* **Screens.** On consecutive night shifts the session context says "completed" while the
  button offers a check-out; an OUT on the evening after a night shift is measured by the
  shift of yesterday; a late day without core attendance is counted by no chip of the grid,
  and who is on leave without attendance is "Not Checked In" in the list
  (`ListAgreesWithGrid`).
* **People.** A claim its author withdrew can be approved, a paid one cancelled, amended and
  paid again (`AcceptedIsOffered`, `WithdrawnStaysOut`, `PaidOnce`), and a booking that fails
  is swallowed (`EffectFollowsBook`). Who is paid by the month may have no base
  (`MonthlyHasBase`), and the report of a bulk assignment may not be true (`ReportIsTrue`). An
  open task may have no ToDo (`OpenTaskHasTodo`). An applicant who was rejected meanwhile is
  onboarded by his offer, one can apply to a closed opening (`OnboardedIsAccepted`,
  `ClosedIsQuiet`, `OfferIsFollowed`). A later last day takes back no shifts
  (`LeftHasNoEmptyDay`). A cancelled profile request stays with managers who were replaced
  (`CancelledIsGone`), and not every role said to be added is there (`AssignedIsThere`).

### What overlapping requests break

Left out of the passing runs by their bounds or by `~overlap`, each at the hazard of its
line in `PROJECT.json` where it is listed:

* A slip confirmed after `generate_salary_slips` has looked for confirmed slips is still a
  draft; it is deleted and replaced. Each of two last confirmations misses the other in its
  snapshot and the period is not locked.
* A recalculation puts `vn_auto_checkout` back to 0 while a second closer of the session
  waits: it claims the session again and, on its old snapshot, sees no ticket. So a session
  can also get a second OUT. An explanation overwrites a decision made since its check, and
  two appeals both pass theirs.
* Two calculations that enter one claim insert two lines for an employee. `OneLiveSlip`
  holds nevertheless, and is proved with it. A generation whose insert fails leaves a line
  with a dead link, which `retry_failed` skips.
* Two leave approvals overdraw the allocation, two cancellation requests are both open; a
  punch between the first read of a leaving and its end is lost with its day
  (`PunchedDayStaysAnyhow`); two salary assignments, policies, rules or periods made at once
  overlap; an onboarding begun is deleted (`BegunIsKept`); a device batch sent twice at once
  makes two check-ins; two review periods are opened of one month.

## Fairness

Safety runs use `Spec`, without fairness. The liveness runs use:

* `JobFairness` (payroll): the daily job comes round to every overdue slip that stays
  confirmable often enough (strong fairness of `AutoConfirmBegin`, since a period that is
  being worked on may make the slip go away and come back), and a run may fail but not
  every run does (strong fairness of `ConfirmCommit`); a run whose slip was deleted meanwhile ends
  (weak fairness of `StampGone`). Nothing is assumed of employees or HR.
* `SchedulerFairness` (checkout): the scheduler starts the job and the key expires (weak
  fairness of `TickBegin`, `TickEnd`, `LockExpires`); a request ends in one way or another (weak
  fairness of its steps and `Abort` together); a job may die, a session may fail to close,
  but not every time (strong fairness of `CloseNext` and `CloseCommit` for each session, of
  `PenaliseBegin`, and of `PenaliseOne` for each ticket). Nothing is assumed of employees, HR
  or punches.

The cron entries of `hooks.py` and the loops of the jobs justify these; a job that always
fails, or that is switched off, is outside.

## Refinement

`WebQr` implements `LoginGrant`. The mapping `Granted` reads the promise of a code off what
the HR app was told (`confirmed`) and the activity log (`sessions`), the two things that
cannot be taken back: "waiting" before the first confirmation, "approved" by the one employee
who was told so, "in" with the one session, which must be his; anything else is "broken",
which `LoginGrant` never is. `ApproveWrite` maps to `Confirm`, `FinishLogin` to `Enter`, every
other step to a stutter. TLC checks it (`KeepsPromise`), and `WebQrProofs` proves it.

## Proofs

tlapm checks about 21 900 obligations. A module of proofs is about one side of the system:
`PayProofs` (the payroll review and the advances it deducts), `PunchProofs` (missed checkouts,
and the punches and sessions), `WebQrProofs`, `RosterProofs`, `TimeProofs` (requests, time
clocks, punches by hand, the month and its end) and `PeopleProofs`; `PeopleStoryProofs` and
`TimeStoryProofs` are about the runs `people` and `time`. All theorems but those of the last two
are for any values of the constants under the named assumptions of the modules (TLC evaluates
those in the runs) and the hypotheses in the third column, which are in the theorems. There are
two sorts of hypotheses. One restricts what happens, because the property fails otherwise
("What overlapping requests break"): those about `Ops`, `MaxInFlight`, `~Overlap`, `~Eager`.
Where "serial" stands in the last column the property itself says so (`~overlap => ...`,
`Serial => ...`) and the theorem is about every behaviour. The other sort only says that
names and numbers are what they are:

* 0, "None", "period" and "every" are no ticket, document, employee or leave type (`Names`,
  `MonthNames`, `ClaimNames`, `HiringNames`, `DeviceNames`, `StaffNames`); the kinds of
  claims are those of the source.
* Days are counted from 1, amounts and figures are numbers, and what is summed or counted is
  finite (`AdvancePlan`, `LeaveAmounts`, `PayCalendar`, `GrantDays`, `PayFigures`,
  `PeriodFigures`). A shift ends after it starts and there is a first hour (`Hourly`); a
  matrix is a list, none of them the mark of an edited one (`Lists`).
* All blackout rules are on one page of the list HR gets (`BlackoutPage`: with more, that
  reader sees fewer than the others). The employee's role is one of the portal's, and a role
  profile has roles of the portal (`AccountRoles`).
* Hours that clash with others are clashed with by them, and HR's bulk actions are about
  assignments (`RosterPlan`); nobody is not a shift, and who has not left is an employee
  (`RosterScreens`).
* Shifts are shorter than a day and end apart, and two times of one shift lie within the
  hours in which an edit looks for the row to change (`ShiftPlan`). No hour HR types is the end
  of a shift to the hour (`NotTheEnd`): the engine's OUT has that time, and which of two OUTs
  of one time is the last of a session is open in the model, as it is in a query without a
  second key.

| Module | Theorem | Hypotheses | Says |
|---|---|---|---|
| `PayProofs` | `TypeCorrect` | - | `TypeOK` |
| | `OneSlipEach` | - | `OneLiveSlip`, any number of requests in flight |
| | `ReviewedAmounts` | no "adjust" | `SlipPaysReviewedAmount`, any number in flight |
| | `ConfirmedStays`, `LockIsTrue`, `LastLocks` | `OneAtATime` | `ConfirmedSlipIsFinal`, `LockedMeansConfirmed`, `LastConfirmationLocks` |
| | `AdvanceTypes`, `OneDeduction`, `AmountsMatch`, `WithinAsked`, `StepsSigned`, `ApprovedFinal` | `AdvancePlan` | the six properties of `advance_overlap`, any number in flight, any matrix |
| `PunchProofs` | `TypeCorrect` | `Names` | `TypeOK` |
| | `SessionClosedOnce` | `Names`, no "recalc" | `OneTicketPerSession`, any number in flight |
| | `SessionClosedOnceAlone` | `Names`, `Serial` | the same with recalculations, one request at a time |
| | `PenaltyIsDeducted` | `Names`, `WaiversEnd` (no "reopen", or no hourly job) | `PenalisedIsDeducted`, any number in flight |
| | `ExplanationStays` | `Names` | `ExplanationKept`, any number in flight |
| | `NoSecondOut`, `DecidedStays`, `AppealedOnce` | `Names`, `Serial` | `NoDoubleOut`, and the two parts of `StandsAlone` |
| | `DeductionStaysCurrent` | `Names`, `Asking` (`Serial`, no hourly job, no "delete") | `DeductionIsCurrent` |
| | `SessionsTyped`, `NothingUncounted`, `TapsAreKept` | `Hourly` | types of `Attendance`, `NeverUncounted` and `TapsKept`, any number in flight |
| | `AbsentShowsNoIn` | `Hourly`, finitely many requests | `AbsentHasNoIn` |
| `WebQrProofs` | `TypeCorrect`, `Invariant`, `Implements` | - | `KeepsPromise`, any codes, tickets, accounts and requests |
| `RosterProofs` | `RosterTyped`, `NobodyBookedTwice`, `NoInstanceOrphaned` | `RosterPlan` | types, `NoDoubleBooking` and `NoOrphanInstance` of `Schedule` |
| | `ScreensKeep` | `RosterPlan`, `RosterScreens` | `ScreenKept` of `RosterScreen` |
| `TimeProofs` | `RequestsTyped`, `EveryStepIsSigned` | `Lists` | types and `StepsSigned` of `Requests` |
| | `OneRequestPerDay` | `Lists`, `~Overlap` | `OneOpenPerDay` |
| | `AllOvertimeCounted` | `Lists`, `~Eager` | `OvertimeCounted` |
| | `DeviceTyped`, `DeviceAnswers` | `DeviceNames` | types and `AnsweredIsKept` of `Device`, any number in flight |
| | `DeviceOnce` | `DeviceNames` | `OneCheckinPerTime`, serial |
| | `HandTyped`, `EditsAreOfTheirShift`, `HandOutsWaive` | `ShiftPlan` | types, `EditsOwnShift` and `HandOutWaives` of `HandPunch` |
| | `HandOutsCount` | `ShiftPlan`, `NotTheEnd` | `HandOutCounts` |
| | `LockedAgree`, `LockedMonthStands` | `MonthNames` | `LockedLinesAgree` and `Stands` of `MonthPeriod`, any number in flight |
| | `MonthTyped` | `MonthNames`, `PeriodFigures` | `TypeOK` of `MonthPeriod` |
| | `EndTyped`, `MonthReviewedOnce`, `TotalsHold`, `AdjustmentsStay` | `PayFigures` | types, `OnePeriod`, `TotalsAreOfLines` and `AdjustmentStays` of `MonthEnd` |
| `PeopleProofs` | `LeavesTyped`, `DecisionsStand` | `LeaveAmounts` | types and `Stands` of `Leave`, any number in flight |
| | `BalanceHolds`, `OneCancellation` | `LeaveAmounts` | `BalanceKept` and `OneOpenCancellation`, serial |
| | `ClaimsTyped`, `ClaimsApprovedAsTheyStand`, `WhatIsOfferedIsAccepted` | `ClaimNames` | types, `AsItStands` and `OfferedIsAccepted` of `Claims`, any number in flight |
| | `PayMastersTyped`, `OneAssignmentHolds`, `PeriodsAreApart` | `PayCalendar` | types, `OneAssignment` and `PeriodsApart` of `SalarySetup`, serial |
| | `GrantsTyped`, `GrantsAlwaysFollow` | `GrantDays` | types and `GrantsFollow` of `LeavePolicy`, overlaps and failures too |
| | `AssignmentsAlwaysHold` | `GrantDays` | `AssignmentsHold`, serial |
| | `BlackoutTyped`, `ReadersAlwaysAgree` | `BlackoutPage` | types and `ReadersAgree` of `Blackout`, overlaps too |
| | `RulesStayApart` | `BlackoutPage` | `RulesApart`, serial |
| | `OnboardingTyped`, `CancelledHasNoTodo` | - | types and `CancelledLeavesNoTodo` of `Onboarding`, overlaps too |
| | `HiringTyped`, `OpeningsAreThere`, `AcceptedAlwaysStays` | `HiringNames` | types, `OpeningIsThere` and `AcceptedStays` of `Hiring`, serial |
| | `StaffTyped`, `LeftHaveNoShift`, `PunchedDaysStay` | `StaffNames` | types, `LeftHasNoShift` and `DayStays` of `Lifecycle`, serial |
| | `AccountsTyped`, `LinkedAlwaysHasRole` | `AccountRoles` | types and `LinkedHasRole` of `Accounts`, serial and without failures |
| `PeopleStoryProofs` | `LeaveKeptAlways`, `ClaimsKeptAlways`, `PayMastersAgreeAlways`, `StaffKeptAlways`, `NothingTakenBackAlways` | `Named` | the five properties of `people`, of `PeopleSpec` |
| `TimeStoryProofs` | `RequestsKeptAlways`, `RosterKeptAlways`, `DeviceKeptAlways`, `MonthKeptAlways`, `StepsAlwaysStand` | `Named` | five of the eight properties of `time`, of `TimeSpec` |

`TimeProofs` and `PeopleProofs` are about one component after the other, each an instance of
its module. `PeopleStoryProofs` and `TimeStoryProofs` put them together: what a run checks of a
story is what they prove.
For each story three lemmas say that the instance in the MC module and the one in the
proofs come to the same (`LeaveSame`), that the constants of the run satisfy the hypotheses
(`LeaveFits`: so there are constants that do), and that every behaviour of that story is a
behaviour of the component (`LeaveStory`); a step of another story leaves `story` alone. The theorems
then hold for every choice of names that are not words of the program (`Named`), and for all
the states the constraints of the runs cut off.

None of the safety invariants is inductive by itself. What strengthens them says what a
request that has read something may still rely on:

* **PayrollReview.** `Typed` is `TypeOK` with `RefsExist`: what a request is going to write
  exists, because a deletion takes the slip out of the other requests' reads. `OneSlipEach`
  adds `GenerationSees`: as long as a generation's stamp is fresh, the drafts and submitted
  slips it read are exactly those there are; every step that adds, submits or cancels a slip
  stamps the period (`StampedSees`), the others keep the document status (`UnstampedSees`).
  `ReviewedAmounts` adds `LinesReviewed`: in an approved or later period the nets of the
  lines are in `reviewed`. One at a time, `Undisturbed` says that what a request read is
  what there is, and `PeriodAnswered` puts the two halves of the lock together: neither
  `LockedMeansConfirmed` nor `LastConfirmationLocks` survives a step without the other.
* **CheckoutMiss.** `Typed` is `TypeOK` with the shapes of the requests. `ExplanationStays` needs
  `NamesUndecided`: what the hourly run still has to penalise is Pending, or already Penalised
  by another run. `PenaltyIsDeducted` adds `NotWaived`: a penalised ticket has no waiver, and
  where nothing is reopened a pending one has none either. `SessionClosedOnce` rests on
  `Claimed`: the OUT of an engine is there at most once and only with the flag up (`AutosOnce`),
  a ticket of an engine means that the flag is up (`FlagTells`), a session that a request holds
  has its flag down (`HeldOpen`), two requests hold different sessions (`HeldApart`), and a
  session has one ticket of an engine (`OneEach`). One request at a time, `Settled` says that
  what the operation decided on is still so, and carries `DecidedStays` and `NoSecondOut`;
  `OnceEach`, a session without an engine's OUT has no ticket of one, is the serial form of
  the one ticket; `AppealsShow`, an accepted appeal shows in the row, that of the one appeal.
  `Paid` is `DeductionIsCurrent` with: a calculation under way counted the present penalties,
  and a request that changes a penalty of a calculated period is going to ask.
* **SalaryAdvance.** `Inv == TypeOK /\ RowsSound /\ DeductionsLinked /\ ReadsSound`.
  `RowsSound`: a row that is not approved has no amount and no link, a link leads to a
  deduction made for this advance, the signatures suffice. `DeductionsLinked`: a deduction
  that was linked and is not cancelled is the one its advance links, and every one has the
  approved amount; `OneLiveDeduction` alone is not inductive, as a payment looks at the link
  only. That is why a deduction whose link was lost is outside: nothing the code reads leads
  to it. `ReadsSound`: an edit or a decision with a fresh stamp finds the row not approved; a
  payment or reversal finds it approved without a look at the stamp, and with a fresh one its
  link is current. Three lemmas write the rows (`UndecidedInv`, `ApprovedInv`, `SubmitInv`);
  each action is an instance of one.
* **WebQr.** `Timely`: a request in flight began in this unit of time or the one before. So a
  counter outlives every request that read before it was raised. This is where `Lifetimes`
  comes in: a code must live longer than two units, and with `CODE_TTL` = 2 the promise is
  broken. `OneApproval`: who passed the counter of a code writes while nobody else can pass
  it, and who was told "confirmed" is who the record names. `OneTicket`: one ticket of a code is
  told to a browser, in that name. `OneEntry`: one session comes of it, as the counter of a
  ticket lives as long as the ticket.
* **Attendance.** `CountsKept`: every punch a session was calculated with is read by each
  recalculation whose stamp is still current, except the one it deletes, because a save in
  between renews the stamp. `Taken` is about the taps: the id of a punch's tap is in the log
  (`Audited`), two punches are of different taps (`OneTapOnePunch`), only deletions delete (`Deleters`),
  and where punches come from the portal alone, whether a tap is an IN or an OUT depends on the
  rows of earlier hours, which nothing changes, so that all taps of one time have the same
  turn (`InTurn`). `OneByOne`: a recalculation never marks absent (`Unmarked`), and one request at
  a time, the sessions the absence job has read still have no IN (`Marked`).
* **MonthPeriod.** `MonthInv`: no request runs before there is a period (`NoneIsQuiet`); there
  are no lines before generation, and afterwards the total is that of the lines (`Totalled`); a
  locked period's lines are locked (`AllLocked`); each request has its `MonthShape`, and with the
  period's stamp no figure has changed since it read, with a line's stamp that line has not
  (`MonthCurrent`).
* **MonthEnd.** Every step does one of six things to one period, or nothing (`Touched`,
  `EndSteps`); what is not there has no lines (`NoneIsEmpty`). That the total is the sum is then
  a matter of the sums: the fold of the model is the sum of the function (`SumMatches`), a
  calculation writes the sum itself (`TotalIs`), and that of those who left since is told apart
  by `FormulaTotalIs`.
* **Requests.** `AllSigned`: a row that waits for HR is signed at the first step, an approved one
  at all, in the table and in the open transaction. `RequestApart`: open requests of a kind are
  on different days, in both. `Accounts`: a transaction neither moves nor un-approves an approved
  request (`Lawful`), and a day that is not queued counts the overtime approved for it
  (`Counts`), as an approval under way has queued its day (`Due`).
* **Device.** `DeviceBase`: since a request read it, a raw log keeps its employee and its time,
  which is why what was answered stays. `DeviceCurrent`: one request at a time, its check-ins are
  those there are, and no two of an employee are of one time, the portal's included. A sweep
  handles its rows one after the other, and `OnTheWay` says what holds between two of them.
* **HandPunch.** A row of the engine carries its shift and lies at the end of it (`EngineOwn`);
  unless it is named an edit never takes it for another's (`OwnShift`). `WaivesOwn`: the tickets
  an edit saw are those there are until it waives, and afterwards none it owes is left.
* **Rosters.** `RosterInv` says of the tables what the two properties say, but of any tables:
  `RosterApart` of the assignments, `OwnInstances` of the instances together with them. Every
  operation is then a step, or a sequence of steps, from tables of that sort to tables of that
  sort that keep each row's employee and shift (`MadeOf`): one row written where its guard found no
  clash (`WrittenIs`), instances made for one assignment, or all rolled back. A generation is a
  fold over the assignments in any order; what holds of the tables before and after each of them
  holds of what it makes, whichever fails (`GenerateStays`).
  The screens (`ScreensKeep`) are about one state: a cell is one of a day's instances and one of
  the assignments that cover it (`CellsAre`), and what it offers has the guards of the endpoint.
* **Leave.** An open leave is a draft (`OpenIsDraft`), what a request has read of a row
  whose stamp is current is the row, and unless requests overlap one runs and all it has read
  is still so. The balance is a cardinality, so the lemmas of `FiniteSetTheorems` apply.
* **Claims.** `ClaimInv`: a row a request has read is the row as long as its stamp is
  current, and an expense claim is only ever a draft, approved or rejected. The nine kinds
  need no cases of their own but where their guards differ (`OfferedIsAccepted`).
* **The components with a held snapshot.** Each has a base (`PayBase`, `GrantBase`,
  `BlackoutBase`, `StaffBase`, `OneHeld`, `AccountViews`): the held snapshot is one the system
  could be in, and without overlaps there is none. What is more is of the component.
  *SalarySetup*: a step inserts at most one assignment in force of an employee, and one without
  an end only where none was (`SsaStep`). *LeavePolicy*: a row that was there when a request
  read is there. *Onboarding*: a ToDo is of somebody who has a task (`TodoOfTask`), and the
  status is the one that follows from the tasks (`Derived`); so closing by those who have the
  tasks at the end closes all of them. *Lifecycle*: managers are
  there and no set of employees is closed under going up (`NoneClosed`); such a set is just what
  the walk up the chain finds in as many steps as there are employees (`ChainExists`, `DetectIs`,
  `ClosedIsCycle`, `CycleIsClosed`). *Accounts*: an account with the role profile has no other
  roles (`Profiles`).

### What stays with TLC, and why

* *Liveness* (`OverdueIsAnswered`, `ExpiredIsDecided`, `ForgottenIsClosed`): the prover does not
  treat fairness and ENABLED.
* *Figures*: those of `WorkDay`, `PayCalc`, `PayBasis` and `MonthSheet` (`DayFigures`,
  `MonthFigures`, half of `ScreensAgree`). They are products, quotients and roundings of sums
  over sequences of sessions, cut at midnights and brackets; each comparison is of two such
  results, beyond linear arithmetic, and what a fold computes for every sequence needs
  induction over data, which the library states with an operator as parameter. (What a fold over
  a finite set or an order of one *preserves* is within reach: `FoldUnique` and `FoldExists`
  characterise it by the smallest set for which it would fail, `SmallestSet`; the sums of
  `MonthEnd` and `MonthPeriod`, the sweep of `Device` and the generator of `Schedule` are
  proved with them.)
* *Geometry of shifts*: `CurrentWhenQuiet` depends on how windows and punches lie; where a day
  shift follows a night shift at once it does not even hold (`HandoverOnly` in
  `MCAttendance`). The same goes for `TapScreen`, the other half of `ScreensAgree`.

## Not modelled, and why

Exact money, tax and rounding of HRMS slips (a calculation may come to any of `Amounts`);
sessions of authentication other than the QR login, the seat's single sign-on and VPN ticket
(the same redeem step as a login's); GPS, photo and device checks; texts, notifications, audit
rows and realtime events (best effort, never read back); exports; the internals of HRMS and
ERPNext, modelled by the outcomes the code handles; the lists, counts and history of the
inbox; the calendar of a team; the forms of components, shift types, work locations, training
and appraisal; settings; scripts that seed, patch and set up. Who may call an endpoint is
modelled where a property is about it (`Requests`, `RosterScreen`, `Accounts`), and otherwise
left to the callers. `PROJECT.json` says of every component what of it is left out.

## Plan

1. Composition: a payroll calculation that reads tickets, advances and the locked month of
   one window, so that "settled before the payroll" is a property of the composed system; an
   abstract payroll ("an employee is paid once, an amount that was approved and confirmed")
   implemented by `PayrollReview`.
2. `CurrentWhenQuiet` for any plan of shifts whose windows do not touch.
