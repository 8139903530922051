------------------------------- MODULE Device -------------------------------
(***************************************************************************)
(* Punches pushed by attendance devices, or uploaded by HR, become raw logs  *)
(* and the raw logs check-ins.  Each pushed row reads in the snapshot of its  *)
(* request and writes at its end; `overlap' says whether requests overlap.    *)
(*                                                                          *)
(* A badge belongs to somebody (`holder', not in the program), and HR maps   *)
(* it to an employee, perhaps later.  A time is a day and the part of it: an  *)
(* evening is after 17:00, when it is the next day seven hours on.            *)
(***************************************************************************)
EXTENDS Integers, FiniteSets, FiniteSetsExt

CONSTANTS
  Employees, Badges, Devices, LastDay,
  Times,      \* of punches: a day and "day" or "evening"
  Logs,       \* names of raw logs
  Requests,
  PageSize,   \* rows of a page of the sync: 500
  Overlaps    \* the values of `overlap' to look at

VARIABLES
  raw,      \* VN Attendance Raw Log
  checkin,  \* Employee Checkin: those of a raw log, under its name, or NoRow
  portal,   \* other check-ins of the portal: <<employee, time>>
  mapping,  \* VN Device Employee Mapping: active employee of a badge on a device, or Nobody
  holder,   \* who carries a badge
  punched,  \* the punches devices still hold: badge, device, time and who made it
  known,    \* <<employee, time>> of the rows that were answered with "imported" or "duplicate"
  lockedTo, \* the days up to this one are in a locked period
  overlap, req
vars == <<raw, checkin, portal, mapping, holder, punched, known, lockedTo, overlap, req>>

Nobody == "Nobody"
NoRow  == [status |-> "None"]
Idle   == [kind |-> "Idle"]
Days   == 1..LastDay

-----------------------------------------------------------------------------
(* Ingest, in the snapshot s. *)

\* The device's mapping, else that of any device.
_resolve_employee(s, badge, device) ==
  IF s.mapping[device, badge] # Nobody THEN {s.mapping[device, badge]}
  ELSE LET any == {s.mapping[d, badge] : d \in Devices} \ {Nobody} IN
       IF any = {} THEN {Nobody} ELSE any

\* Mutant: the time and the device are enough.
SameDevice(s, e, device, at) == {n \in Logs : s.raw[n] # NoRow /\ s.raw[n].at = at /\ s.raw[n].device = device}
\* A row of nobody is the same as that of anybody, one without a device as that of any.
DupLogs(s, e, device, at) ==
  {n \in Logs : /\ s.raw[n] # NoRow /\ s.raw[n].at = at
                /\ e \in {Nobody, s.raw[n].emp} /\ device \in {"None", s.raw[n].device}}

\* Mutant: the check-ins of the portal are not looked at.
DeviceCheckins(s, e, at) == \E n \in Logs : s.checkin[n] = [emp |-> e, at |-> at]
\* The check of the code, and again that of HRMS on insert.
ExistingCheckin(s, e, at) ==
  <<e, at>> \in s.portal \/ \E n \in Logs : s.checkin[n] = [emp |-> e, at |-> at]

\* The time, kept on the clock of the portal, is read as UTC.
DateOf(at) == IF at[2] = "evening" THEN at[1] + 1 ELSE at[1]
_is_date_locked(s, d) == d <= s.lockedTo

\* What becomes of a row that has an employee: the new status, and whether a check-in is made.
_process_raw_log(s, row) ==
  IF _is_date_locked(s, DateOf(row.at)) THEN [status |-> "Skipped", made |-> FALSE]
  ELSE IF ExistingCheckin(s, row.emp, row.at) THEN [status |-> "Duplicate", made |-> FALSE]
  ELSE [status |-> "Processed", made |-> TRUE]

-----------------------------------------------------------------------------
Snapshot == [kind |-> "Running", raw |-> raw, checkin |-> checkin, portal |-> portal,
             mapping |-> mapping, lockedTo |-> lockedTo]
Alone == overlap \/ \A q \in Requests : req[q] = Idle
Begin(r) ==
  /\ req[r] = Idle /\ Alone
  /\ req' = [req EXCEPT ![r] = Snapshot]
  /\ UNCHANGED <<raw, checkin, portal, mapping, holder, punched, known, lockedTo, overlap>>
Ends(r) == req' = [req EXCEPT ![r] = Idle] /\ UNCHANGED <<portal, mapping, holder, lockedTo, overlap>>
Abort(r) == req[r] # Idle /\ Ends(r) /\ UNCHANGED <<raw, checkin, punched, known>>

\* A row that resolves to e.  The insert of the check-in may fail: the caller swallows it, and
\* the raw log stays behind as Pending.
_create_raw_log(r, e, badge, device, at) ==
  LET s == req[r]  row == [status |-> "Pending", emp |-> e, badge |-> badge, device |-> device, at |-> at] IN
  IF DupLogs(s, e, device, at) # {}
  THEN UNCHANGED <<raw, checkin>> /\ known' = known \cup ({<<e, at>>} \ {<<Nobody, at>>})
  ELSE \E n \in Logs :
    /\ raw[n] = NoRow
    /\ IF e = Nobody
       THEN /\ raw' = [raw EXCEPT ![n] = [row EXCEPT !.status = "Skipped"]]
            /\ UNCHANGED <<checkin, known>>
       ELSE \/ /\ raw' = [raw EXCEPT ![n] = [row EXCEPT !.status = _process_raw_log(s, row).status]]
               /\ checkin' = IF _process_raw_log(s, row).made
                             THEN [checkin EXCEPT ![n] = [emp |-> e, at |-> at]] ELSE checkin
               /\ known' = known \cup {<<e, at>>}
            \/ /\ _process_raw_log(s, row).made
               /\ raw' = [raw EXCEPT ![n] = row] /\ UNCHANGED <<checkin, known>>

\* A row of a pushed batch.  The device may keep the punch, and send it again.
device_import(r, p) ==
  /\ req[r] # Idle
  /\ \E e \in _resolve_employee(req[r], p.badge, p.device) : _create_raw_log(r, e, p.badge, p.device, p.at)
  /\ punched' \in {punched, punched \ {p}}
  /\ Ends(r)
\* A row HR uploads names the employee, and perhaps no device.
upload_logs(r, e, device, at) ==
  /\ req[r] # Idle /\ _create_raw_log(r, e, "None", device, at)
  /\ UNCHANGED punched /\ Ends(r)

\* The pages are counted from the rows already done, which have left the set: with n rows
\* pending this many are reached.
Swept(n) == (n \div (2 * PageSize)) * PageSize + (IF n % (2 * PageSize) < PageSize THEN n % (2 * PageSize) ELSE PageSize)

\* One row of a sync on the way: `done' are the raw logs and check-ins so far.
SyncRow(s, failing, n, done) ==
  LET row == done.raw[n]  out == _process_raw_log([s EXCEPT !.checkin = done.checkin], row) IN
  IF n \in failing /\ out.made THEN [done EXCEPT !.raw[n].status = "Error"]
  ELSE [raw     |-> [done.raw EXCEPT ![n].status = out.status],
        checkin |-> IF out.made THEN [done.checkin EXCEPT ![n] = [emp |-> row.emp, at |-> row.at]]
                    ELSE done.checkin]
_process_pending_logs(s, rows, failing) ==
  FoldSet(LAMBDA n, done : SyncRow(s, failing, n, done), [raw |-> s.raw, checkin |-> s.checkin], rows)

sync_device(r, device) ==
  LET s == req[r]
      pending == {n \in Logs : s.raw[n].status = "Pending" /\ s.raw[n].device = device} IN
  /\ s # Idle
  /\ \E rows \in kSubset(Swept(Cardinality(pending)), pending) : \E failing \in SUBSET rows :
       LET after == _process_pending_logs(s, rows, failing) IN
       /\ raw' = [n \in Logs |-> IF n \in rows THEN after.raw[n] ELSE raw[n]]
       /\ checkin' = [n \in Logs |-> IF n \in rows /\ after.checkin[n] # NoRow THEN after.checkin[n] ELSE checkin[n]]
  /\ UNCHANGED <<punched, known>> /\ Ends(r)

(* Around it. *)

\* HR adds, changes or switches off a mapping: there is one per device and badge.
VNDeviceEmployeeMapping(d, b, e) ==
  /\ Alone /\ mapping' = [mapping EXCEPT ![<<d, b>>] = e]
  /\ UNCHANGED <<raw, checkin, portal, holder, punched, known, lockedTo, overlap, req>>
HandOver(b, e) ==
  /\ holder' = [holder EXCEPT ![b] = e]
  /\ UNCHANGED <<raw, checkin, portal, mapping, punched, known, lockedTo, overlap, req>>
Punch(d, b, at) ==
  /\ punched' = punched \cup {[badge |-> b, device |-> d, at |-> at, who |-> holder[b]]}
  /\ UNCHANGED <<raw, checkin, portal, mapping, holder, known, lockedTo, overlap, req>>
\* A check-in of the portal: HRMS refuses a second one of the same time.
PortalCheckin(e, at) ==
  /\ Alone /\ ~ExistingCheckin([checkin |-> checkin, portal |-> portal], e, at)
  /\ portal' = portal \cup {<<e, at>>}
  /\ UNCHANGED <<raw, checkin, mapping, holder, punched, known, lockedTo, overlap, req>>
LockDay(d) ==
  /\ Alone /\ d > lockedTo /\ lockedTo' = d
  /\ UNCHANGED <<raw, checkin, portal, mapping, holder, punched, known, overlap, req>>

-----------------------------------------------------------------------------
Init ==
  /\ raw = [n \in Logs |-> NoRow] /\ checkin = [n \in Logs |-> NoRow]
  /\ portal = {} /\ punched = {} /\ known = {} /\ lockedTo = 0
  /\ mapping = [x \in Devices \X Badges |-> Nobody]
  /\ holder \in [Badges -> Employees] /\ overlap \in Overlaps
  /\ req = [r \in Requests |-> Idle]

Next ==
  \/ \E r \in Requests :
       \/ Begin(r) \/ Abort(r)
       \/ \E p \in punched : device_import(r, p)
       \/ \E e \in Employees, d \in Devices \cup {"None"}, at \in Times : upload_logs(r, e, d, at)
       \/ \E d \in Devices : sync_device(r, d)
  \/ \E d \in Devices, b \in Badges :
       \/ \E e \in Employees \cup {Nobody} : VNDeviceEmployeeMapping(d, b, e)
       \/ \E at \in Times : Punch(d, b, at)
  \/ \E e \in Employees :
       \/ \E b \in Badges : HandOver(b, e)
       \/ \E at \in Times : PortalCheckin(e, at)
  \/ \E d \in Days : LockDay(d)
Spec == Init /\ [][Next]_vars

-----------------------------------------------------------------------------
(* Properties. *)

TypeOK ==
  /\ \A n \in Logs : raw[n] = NoRow \/
       /\ raw[n].status \in {"Pending", "Processed", "Skipped", "Duplicate", "Error"}
       /\ raw[n].emp \in Employees \cup {Nobody} /\ raw[n].at \in Times
  /\ \A n \in Logs : checkin[n] = NoRow \/ checkin[n] \in [emp : Employees, at : Times]
  /\ mapping \in [Devices \X Badges -> Employees \cup {Nobody}] /\ lockedTo \in 0..LastDay

\* However often a punch is sent, uploaded, retried after an error and made on the portal too, an
\* employee has one check-in of a time, when requests do not overlap.
OneCheckinPerTime ==
  ~overlap => \A e \in Employees, at \in Times :
    Cardinality({n \in Logs : checkin[n] = [emp |-> e, at |-> at]})
      + Cardinality({<<e, at>>} \cap portal) <= 1

\* A row that was answered with "imported" or "duplicate" is kept under its employee: the check-in
\* is there, or the raw log says why it is not.
AnsweredIsKept ==
  \A x \in known : \E n \in Logs : raw[n] # NoRow /\ raw[n].emp = x[1] /\ raw[n].at = x[2]

\* Refuted.  "A punch inside a Locked monthly period must not create a new checkin."
LockedGetsNoCheckin ==
  [][\A n \in Logs : checkin[n] = NoRow /\ checkin'[n] # NoRow => checkin'[n].at[1] > lockedTo]_vars
\* Refuted.  A badge that changes hands: the check-in is of the one who punched.
RightEmployee ==
  [][\A p \in punched : \A n \in Logs :
       raw[n] = NoRow /\ raw'[n] # NoRow /\ raw'[n].badge = p.badge /\ raw'[n].at = p.at
         => raw'[n].emp \in {Nobody, p.who}]_vars
=============================================================================
