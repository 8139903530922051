------------------------------- MODULE MCTime -------------------------------
(* The components of the time side for TLC, in one run: requests and their approval, shifts, devices, the monthly
period, punches edited by hand, the figures of a day and of a month.  A behaviour is of one of them, told by
`story'; its variables are the cells of MCStories. *)
EXTENDS MCStories
CONSTANTS boss, hr, deputy

(* Overtime requests of two matrices; an overtime request and the correction of a missed checkout. *)
R == INSTANCE Requests WITH
  doc <- c1, saving <- c2, matrix <- c3, deleg <- c4, locked <- c5, counted <- c6, queue <- c7, ticket <- c8,
  signed <- c9, sent <- c10, edits <- c11,
  Docs <- X, OT <- X, Linked <- {}, Days <- {1, 2}, Boss <- boss, Chief <- boss, HR <- {hr}, Deputies <- {deputy},
  Matrices <- {<<"Line Manager">>, <<"Line Manager", "HR Manager">>},
  Eager <- FALSE, Overlap <- FALSE, MaxEdits <- 1, MaxDelegations <- 1
R2 == INSTANCE Requests WITH
  doc <- c1, saving <- c2, matrix <- c3, deleg <- c4, locked <- c5, counted <- c6, queue <- c7, ticket <- c8,
  signed <- c9, sent <- c10, edits <- c11,
  Docs <- {w1, w2}, OT <- {w1}, Linked <- {w2}, Days <- {1}, Boss <- boss, Chief <- boss, HR <- {hr}, Deputies <- {deputy},
  Matrices <- {<<>>, <<"Line Manager", "HR Manager">>},
  Eager <- FALSE, Overlap <- FALSE, MaxEdits <- 1, MaxDelegations <- 1

(* The shifts of one employee, the swaps of two; and what HR, a line manager and others see of the shifts of one,
when HR works in bulk too. *)
Roster == INSTANCE Schedule WITH
  sa <- c1, inst <- c2, punch <- c3, sr <- c4, swap <- c5, today <- c6,
  Employees <- {w1}, Shifts <- Y, Clash <- Y \X Y, Assignments <- {1, 2, 3}, ShiftRequests <- {w2}, Swaps <- {},
  Bulks <- {}, LastDay <- 2, Horizon <- 1
Viewer(user, emp, roles) == [user |-> user, emp |-> emp, roles |-> roles]
Bulk == INSTANCE RosterScreen WITH
  sa <- c1, inst <- c2, punch <- c3, sr <- c4, swap <- c5, today <- c6,
  Employees <- {w1}, Shifts <- Y, Clash <- Y \X Y, Assignments <- {1, 2}, ShiftRequests <- {z1}, Swaps <- {},
  Bulks <- {{2}}, LastDay <- 2, Horizon <- 1, Active <- {w1}, Nobody <- "-",
  Viewers <- {Viewer(hr, "-", {"HR User"}), Viewer(boss, boss, {"Line Manager"}), Viewer(w1, w1, {"Employee"})},
  ReportsTo <- [e \in {w1} |-> boss], OwnApprover <- [e \in {w1, boss} |-> "-"],
  DeptApprover <- [e \in {w1, boss} |-> w2], LockedDays <- {}, OnLeave <- {<<w1, 2>>}
Swap == INSTANCE Schedule WITH
  sa <- c1, inst <- c2, punch <- c3, sr <- c4, swap <- c5, today <- c6,
  Employees <- X, Shifts <- Y, Clash <- Y \X Y, Assignments <- {1, 2}, ShiftRequests <- {}, Swaps <- {w1},
  Bulks <- {}, LastDay <- 2, Horizon <- 1

D == INSTANCE Device WITH
  raw <- c1, checkin <- c2, portal <- c3, mapping <- c4, holder <- c5, punched <- c6, known <- c7, lockedTo <- c8,
  overlap <- c9, req <- c10,
  Employees <- X, Badges <- {w1}, Devices <- {w2}, LastDay <- 1, Logs <- Y, Requests <- Z, PageSize <- 1,
  Times <- {<<1, "day">>}, Overlaps <- BOOLEAN

(* Two night shifts, and the hours of the days around them. *)
U == INSTANCE HandPunch WITH
  punch <- c1, flag <- c2, edit <- c3, due <- c4, locked <- c5, paid <- c6, named <- c7, ticket <- c8, overlap <- c9,
  Shifts <- {1, 2}, Start <- <<20, 44>>, End <- <<32, 56>>, Cap <- 20,
  Taps <- {<<"IN", 21>>, <<"IN", 43>>, <<"OUT", 33>>}, EditTimes <- {31, 43}, LockedDays <- {0}, MaxPunches <- 3,
  Overlaps <- BOOLEAN

M == INSTANCE MonthPeriod WITH
  work <- c1, changes <- c2, period <- c3, review <- c5, line <- c6, req <- c10,
  Employees <- X, Requests <- Z, Values <- {0, 1}, MaxWork <- 1

(* A day of eight ticks, and a month of two days of twenty-four; a span crosses the end of a bracket within an hour. *)
Rule == [graceLate |-> 1, graceEarly |-> 0, tolerance |-> 1, full |-> 4, half |-> 2, perMinute |-> FALSE,
         compLate |-> FALSE, compEarly |-> FALSE, minOvertime |-> 0, approval |-> TRUE,
         rounding |-> "No Rounding", unit |-> 2, maxTotal |-> 10, maxOvertime |-> 2]
W == INSTANCE WorkDay WITH
  input <- c1, Day <- 8,
  Shifts <- {[start |-> s, end |-> s + 4, pre |-> b, post |-> b] : s \in {2, 6}, b \in BOOLEAN},
  Policies <- {Rule, [Rule EXCEPT !.graceLate = 2, !.perMinute = TRUE, !.approval = FALSE, !.rounding = "Nearest"],
               [Rule EXCEPT !.compLate = TRUE, !.compEarly = TRUE, !.minOvertime = 2, !.rounding = "Up to"]},
  Bands <- {<<7, 2>>, <<0, 3>>}, Holidays <- {{}, {1}}, Step <- 3, Grain <- 6,
  Requests <- {{[name |-> 1, from |-> 6, to |-> 9], [name |-> 2, from |-> q[1], to |-> q[2]]} : q \in {<<9, 12>>, <<7, 13>>}},
  Leaves <- {0, 50}
Pay == INSTANCE PayCalc WITH
  input <- c1, days <- c2, rows <- c3, later <- c4, Day <- 24, Shifts <- {}, Policies <- {}, Bands <- {}, Holidays <- {}, Requests <- {}, Leaves <- {}, Step <- 1, Grain <- 1,
  Length <- 2,
  DayInputs <- [in : {-1, 8, 9, 11, 14}, out : {-1, 16, 22}, leave : {"None", "Approved", "Rejected"}, holiday : BOOLEAN],
  Shift <- [start |-> 8, end |-> 16, pre |-> TRUE, post |-> TRUE],
  Policy <- [Rule EXCEPT !.approval = FALSE, !.tolerance = 2, !.full = 8, !.half = 4, !.maxTotal = 20, !.maxOvertime = 8],
  Band <- <<20, 4>>, Hour <- 4,
  Brackets <- <<[from |-> 8, to |-> 13, coeff |-> 10], [from |-> 13, to |-> 8, coeff |-> 15]>>,
  StandardDays <- 2, StandardHours <- 8,
  Rules <- <<[from |-> 1, to |-> 3, type |-> "Per Minute", value |-> 2],
             [from |-> 4, to |-> 18, type |-> "Half Day", value |-> 0]>>,
  Base <- 400, Rate <- 20, Percent <- 10

(* A month of three days. *)
Sheet == INSTANCE MonthSheet WITH month <- c1, sheet <- c2, Days <- 1..3, Buffer <- 1
Work == [in |-> TRUE, out |-> TRUE, late |-> 0, early |-> 0, auto |-> FALSE, end |-> 3]
Late == [Work EXCEPT !.late = 20]
Open == [Work EXCEPT !.out = FALSE]
OutOnly == [Work EXCEPT !.in = FALSE, !.early = 10]
Planned == [Open EXCEPT !.in = FALSE]
NightOpen == [Open EXCEPT !.end = 5, !.late = 10]
Closed == [Work EXCEPT !.auto = TRUE]
OnDay(ss, t, a) == [sessions |-> ss, ticket |-> t, att |-> a]
Here == [status |-> "Present", late |-> FALSE]
Fully == [from |-> 2, to |-> 3, half |-> FALSE, halfDay |-> 0, paid |-> TRUE]
Months == [now : {6, 10, 14, 17}, join : {1, 2}, left : {0, 2}, assigned : BOOLEAN,
           leaves : {<<>>, <<Fully>>, <<[Fully EXCEPT !.from = 1, !.half = TRUE, !.halfDay = 2], [Fully EXCEPT !.to = 2, !.paid = FALSE]>>,
                     <<[from |-> 1, to |-> 1, half |-> TRUE, halfDay |-> 0, paid |-> FALSE]>>},
           periods : {<<>>},
           day : {<<a, b, c>> : a \in {OnDay(ss, t, r) : ss \in {<<>>, <<Work>>, <<Late>>, <<Open>>, <<NightOpen>>, <<OutOnly>>, <<Planned>>,
                                                              <<Closed>>, <<Work, Late>>, <<NightOpen, Late>>},
                                                    t \in {"None", "Penalised", "Waived"}, r \in {Sheet!NoAtt, [Here EXCEPT !.late = TRUE]}},
                               b \in {OnDay(<<>>, "None", Sheet!NoAtt), OnDay(<<Work>>, "None", Here)},
                               c \in {OnDay(<<>>, "None", Sheet!NoAtt), OnDay(<<Late>>, "None", Sheet!NoAtt)}}]
\* Nobody has worked on a day to come.
Happened(m) == \A d \in 1..3 : d > Sheet!today(m) => \A i \in DOMAIN m.day[d].sessions : m.day[d].sessions[i] = Planned
Locks == LET p == [from : {-1, 1, 2}, to : {0, 2, 5}, locked : BOOLEAN] IN
  {[now |-> 6, join |-> 1, left |-> 0, assigned |-> TRUE, leaves |-> <<>>, periods |-> ps,
    day |-> [d \in 1..3 |-> OnDay(<<>>, "None", Sheet!NoAtt)]] : ps \in {<<>>} \cup {<<a>> : a \in p} \cup (p \X p)}

Close == INSTANCE MonthEnd WITH
  day <- c1, staff <- c2, period <- c3, due <- c4, blockers <- c5, line <- c6, closing <- c7,
  Employees <- X, Periods <- {w1, w2}, Adjustments <- {0, 1}, Formulas <- {1, 2}, AlarmDay <- 1, LastDay <- 2

(* What the pay of a period of two days rests on. *)
Q == INSTANCE PayBasis WITH
  person <- c1, Start <- 2, End <- 3, Today <- 4, DeptRate <- [a |-> 2, b |-> 3, c |-> 0], DefaultRate <- 1, Company <- "ours"
Ssas == [from : 1..4, doc : {0, 1}, structure : {"old", "new"}, base : {0, 1}, company : {"ours", "other"}]
Kept(n) == [d \in 0..4 |-> n]
People ==
  {[mode |-> m, own |-> 0, dept |-> Kept("a"), ssas |-> {a, b}, live |-> l] :
     m \in {"Hourly", "Monthly"}, a, b \in Ssas, l \in {{"new"}, {"old", "new"}}}
  \cup [mode : {"Hourly"}, own : {0, 5}, dept : [0..4 -> {"a", "b", "c", "none"}], ssas : {{}}, live : {{"new"}}]
Dated(p) == \A a, b \in p.ssas : a.from = b.from => a = b

(* Days of eight ticks; the moments are of day 2. *)
Tap == INSTANCE TapScreen WITH
  moment <- c1, Day <- 8, EarliestIn <- 1, LatestIn <- 1, EarliestOut <- 1, LatestOut <- 2, Buffer <- 1
Onward(a, b) == [from |-> 0, start |-> a, end |-> b]
Punches == LET p == [time : {9, 13, 15, 16, 17, 18, 20, 21, 23}, type : {"IN", "OUT"}] IN
  {{}} \cup {{a} : a \in p} \cup {{a, b} : a, b \in p} \cup {{[a EXCEPT !.type = "IN"], [b EXCEPT !.type = "OUT"], [c EXCEPT !.type = "IN"]} : a, b, c \in p}
Moments == [now : {16, 17, 18, 19, 21, 23}, locked : {{}, {2}},
            assignments : {<<>>, <<Onward(2, 5)>>, <<Onward(6, 1)>>, <<Onward(6, 3)>>,
                           <<[Onward(2, 5) EXCEPT !.from = 2], Onward(6, 1)>>, <<[Onward(5, 1) EXCEPT !.from = 2], Onward(1, 4)>>},
            punches : Punches]

-----------------------------------------------------------------------------
\* Cells of no component of the story.
ZeroFrom2 == c2 = 0 /\ c3 = 0 /\ c4 = 0 /\ c5 = 0 /\ c6 = 0 /\ c7 = 0 /\ c8 = 0 /\ c9 = 0 /\ c10 = 0 /\ c11 = 0
ZeroFrom7 == c7 = 0 /\ c8 = 0 /\ c9 = 0 /\ c10 = 0 /\ c11 = 0
TimeInit ==
  \/ story = "Overtime"   /\ R!Init
  \/ story = "Correction" /\ R2!Init
  \/ story = "Roster"     /\ Roster!Init /\ ZeroFrom7
  \/ story = "Bulk"       /\ Bulk!Init /\ ZeroFrom7
  \/ story = "Swap"       /\ Swap!Init /\ ZeroFrom7
  \/ story = "Device"     /\ D!Init /\ c11 = 0
  \/ story = "Hand"       /\ U!Init /\ c10 = 0 /\ c11 = 0
  \/ story = "Month"      /\ M!Init /\ c4 = 0 /\ c7 = 0 /\ c8 = 0 /\ c9 = 0 /\ c11 = 0
  \/ story = "End"        /\ Close!Init /\ c8 = 0 /\ c9 = 0 /\ c10 = 0 /\ c11 = 0
  \/ story = "Day"        /\ W!Init /\ ZeroFrom2
  \/ story = "Pay"        /\ Pay!PayInit /\ c5 = 0 /\ c6 = 0 /\ ZeroFrom7
  \/ story = "Basis"      /\ c1 \in {p \in People : Dated(p)} /\ ZeroFrom2
  \/ story = "Sheet"      /\ c1 \in {m \in Months : Happened(m)} \cup Locks /\ Sheet!SheetInit
                          /\ c3 = 0 /\ c4 = 0 /\ c5 = 0 /\ c6 = 0 /\ ZeroFrom7
  \/ story = "Tap"        /\ c1 \in {m \in Moments : \A p \in m.punches : p.time < m.now} /\ ZeroFrom2
TimeNext ==
  /\ story' = story
  /\ \/ story = "Overtime"   /\ R!Next
     \/ story = "Correction" /\ R2!Next
     \/ story = "Roster"     /\ Roster!Next /\ UNCHANGED <<c7, c8, c9, c10, c11>>
     \/ story = "Bulk"       /\ Bulk!Next /\ UNCHANGED <<c7, c8, c9, c10, c11>>
     \/ story = "Swap"       /\ Swap!Next /\ UNCHANGED <<c7, c8, c9, c10, c11>>
     \/ story = "Device"     /\ D!Next /\ UNCHANGED c11
     \/ story = "Hand"       /\ U!Next /\ UNCHANGED <<c10, c11>>
     \/ story = "Month"      /\ M!Next /\ UNCHANGED <<c4, c7, c8, c9, c11>>
     \/ story = "End"        /\ Close!Next /\ UNCHANGED <<c8, c9, c10, c11>>
TimeSpec == TimeInit /\ [][TimeNext]_vars

(* Bounds. *)

\* What is out of the ordinary at once: days taken out (Cancelled is as Skipped), days with punches, requests, and
\* assignments off or cancelled; nothing of it once there are three assignments, and with two of them when HR works
\* in bulk only the last, on the first day.
Around == Cardinality({i \in DOMAIN c2 : c2[i].status = "Skipped"})
          + Cardinality({d \in (DOMAIN c3) \X {1, 2} : c3[d[1]][d[2]] # {}})
          + Cardinality({q \in DOMAIN c4 : c4[q] # Roster!NoRow}) + Cardinality({w \in DOMAIN c5 : c5[w] # Roster!NoRow})
RosterSmall ==
  LET off == Cardinality({a \in DOMAIN c1 : c1[a] # Roster!NoRow /\ ~Roster!Applies(c1[a])})
      full == Cardinality({a \in DOMAIN c1 : c1[a] # Roster!NoRow}) = IF story = "Bulk" THEN 2 ELSE 3
  IN /\ \A i \in DOMAIN c2 : c2[i].status # "Cancelled"
     /\ Around + off <= IF full /\ (story # "Bulk" \/ c6 > 1) THEN 0 ELSE 1
     /\ full /\ story = "Bulk" => Around = 0
\* HR changes something, or somebody is a deputy.
OvertimeSmall == c11 + Cardinality(c4) <= 1
\* What happens around the handling of rows, and nothing of it when requests overlap.
DeviceSmall ==
  Cardinality(c6) + Cardinality(c3) + c8 + Cardinality({x \in DOMAIN c4 : c4[x] # D!Nobody}) <= IF c9 THEN 0 ELSE 3
\* One ticket; two punches when anything else is out of the ordinary, of which there is one thing.
HandSmall ==
  /\ Cardinality({s \in {1, 2} : c8[s] # "None"}) <= 1
  /\ ~(c9 /\ (c7 \/ c5)) /\ ~(c7 /\ c6) /\ (c9 \/ c5 \/ c7 => Cardinality(c1) <= 2) /\ (c7 => c4 = {})
\* One thing of the month is not final, or somebody has left.
EndSmall == Cardinality(c5) + Cardinality(X \ c2) <= 1
TimeSmall ==
  CASE story \in {"Roster", "Bulk", "Swap"} -> RosterSmall
    [] story = "Overtime"           -> OvertimeSmall
    [] story = "Device"             -> DeviceSmall
    [] story = "Hand"               -> HandSmall
    [] story = "End"                -> EndSmall
    [] OTHER                        -> TRUE

-----------------------------------------------------------------------------
(* Properties: of each component its type invariant and its safety. *)

\* The steps of the matrix are signed, a day has one open request, and the session counts what was approved
\* (approval.py, overtime.py, correction.py).
RequestsKept ==
  /\ story = "Overtime"   => R!TypeOK /\ R!StepsSigned /\ R!OneOpenPerDay /\ R!OvertimeCounted
  /\ story = "Correction" => R2!TypeOK /\ R2!StepsSigned /\ R2!OneOpenPerDay /\ R2!OvertimeCounted
\* Nobody is booked twice, no instance is without its assignment, and what the screens offer can be done (admin.py,
\* shift.py).
RosterKept ==
  /\ story = "Roster" => Roster!TypeOK /\ Roster!NoDoubleBooking /\ Roster!NoOrphanInstance
  /\ story = "Bulk"   => Bulk!TypeOK /\ Bulk!NoDoubleBooking /\ Bulk!NoOrphanInstance /\ Bulk!ScreenKept
  /\ story = "Swap"   => Swap!TypeOK /\ Swap!NoDoubleBooking /\ Swap!NoOrphanInstance
\* A punch gives one check-in, and what was answered is kept (device.py); rows as the edits of HR leave them (admin.py).
DeviceKept ==
  /\ story = "Device" => D!TypeOK /\ D!OneCheckinPerTime /\ D!AnsweredIsKept
  /\ story = "Hand"   => U!TypeOK
\* The lines of a locked month agree (attendance_period.py), and the total of its review with its lines (payroll.py).
MonthKept ==
  /\ story = "Month" => M!TypeOK /\ M!LockedLinesAgree
  /\ story = "End"   => Close!TypeOK /\ Close!OnePeriod /\ Close!TotalsAreOfLines
\* A locked month stands (attendance_period.py), what was adjusted by hand is calculated around (payroll.py), and an
\* edit of punches is of one shift and waives the ticket of that one (admin.py).
StepsStand == [][/\ story = "Month" => M!Stands
                 /\ story = "End"   => Close!AdjustmentStays
                 /\ story = "Hand"  => U!EditsOwnShift /\ U!HandOutWaives /\ U!HandOutCounts]_vars
\* The figures of a day (calc.py): segments add up, more work pays no less, overtime is credited.
DayFigures == story = "Day" => W!SegmentsAddUp /\ W!MoreWorkPaysNoLess /\ W!ApprovedIsCredited
\* The figures of a month (payroll.py): the full period, the hours by bracket, the late penalties, and what they
\* are based on.
MonthFigures ==
  /\ story = "Pay"   => Pay!FullPeriodPaidInFull /\ Pay!BracketHoursKept /\ Pay!LaterPaysNoMore
  /\ story = "Basis" => Q!BasisAgrees
\* The screens of a month agree, and the button with the tap (month_sheet.py, attendance.py).
ScreensAgree ==
  /\ story = "Sheet" => Sheet!SheetsAgree
  /\ story = "Tap"   => Tap!ScreenMatchesTap
=============================================================================
