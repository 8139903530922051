--------------------------- MODULE TimeStoryProofs ---------------------------
(* What the run of the time side checks, for every choice of its names: each behaviour of MCTime is one of a component,
whose theorems, of TimeProofs and RosterProofs, are about any number of rows.  The run leaves out the states beyond
its bounds; here all of them count. *)
EXTENDS MCTime, FiniteSetTheorems, TLAPS

\* The names of rows and people are not words of the program.
Named == \A n \in {"-", "None", "Nobody", "period"} : n \notin {x1, x2, y1, y2, w1}

\* The pairs are finite sets.
LEMMA Sizes == IsFiniteSet(X) /\ IsFiniteSet(Y) /\ IsFiniteSet({1, 2})
  <1>1. \A a, b : IsFiniteSet({a, b})
    <2> SUFFICES ASSUME NEW a, NEW b PROVE IsFiniteSet({a, b})
      OBVIOUS
    <2>1. IsFiniteSet({a} \cup {b})
      BY FS_Singleton, FS_AddElement
    <2>2. {a, b} = {a} \cup {b}
      OBVIOUS
    <2> QED BY <2>1, <2>2
  <1> QED BY <1>1 DEF X, Y

-----------------------------------------------------------------------------
(* Requests, devices, punches by hand, months. *)

TT == INSTANCE TimeProofs WITH
  Employees <- X, Requests <- Z, Overlaps <- BOOLEAN,
  Docs <- X, OT <- X, Linked <- {}, Days <- {1, 2}, Boss <- boss, Chief <- boss, HR <- {hr}, Deputies <- {deputy},
  Matrices <- {<<"Line Manager">>, <<"Line Manager", "HR Manager">>},
  Eager <- FALSE, Overlap <- FALSE, MaxEdits <- 1, MaxDelegations <- 1,
  Badges <- {w1}, Devices <- {w2}, LastDay <- 1, Times <- {<<1, "day">>}, Logs <- Y, PageSize <- 1,
  Shifts <- {1, 2}, Start <- <<20, 44>>, End <- <<32, 56>>, Cap <- 20,
  Taps <- {<<"IN", 21>>, <<"IN", 43>>, <<"OUT", 33>>}, EditTimes <- {31, 43}, LockedDays <- {0}, MaxPunches <- 3,
  Values <- {0, 1}, MaxWork <- 1,
  Periods <- {w1, w2}, Adjustments <- {0, 1}, Formulas <- {1, 2}, AlarmDay <- 1, LastDate <- 2,
  overlap <- c9, req <- c10, ticket <- c8, locked <- c5, due <- c4, period <- c3, line <- c6,
  doc <- c1, saving <- c2, matrix <- c3, deleg <- c4, counted <- c6, queue <- c7, signed <- c9, sent <- c10, edits <- c11,
  raw <- c1, checkin <- c2, portal <- c3, mapping <- c4, holder <- c5, punched <- c6, known <- c7, lockedTo <- c8,
  punch <- c1, flag <- c2, edit <- c3, paid <- c6, named <- c7,
  work <- c1, changes <- c2, review <- c5, day <- c1, staff <- c2, blockers <- c5, closing <- c7

\* The finite sets of TimeProofs are those here.
LEMMA TimeSizes == \A s : TT!IsFiniteSet(s) <=> IsFiniteSet(s)
  BY DEF TT!IsFiniteSet, IsFiniteSet

\* The instances of Requests here and in TimeProofs are one: their definitions come to the same.
LEMMA OvertimeSame ==
  /\ R!Spec <=> TT!Rq!Spec
  /\ []R!TypeOK <=> []TT!Rq!TypeOK
  /\ []R!StepsSigned <=> []TT!Rq!StepsSigned
  /\ []R!OneOpenPerDay <=> []TT!Rq!OneOpenPerDay
  /\ []R!OvertimeCounted <=> []TT!Rq!OvertimeCounted
  <1> USE DEF
    R!Users, TT!Rq!Users, R!Pending, TT!Rq!Pending, R!States, TT!Rq!States, R!_OT_ENGINE_STATES,
    TT!Rq!_OT_ENGINE_STATES, R!Row, TT!Rq!Row, R!NoRow, TT!Rq!NoRow, R!vars, TT!Rq!vars, R!outside, TT!Rq!outside,
    R!Idle, TT!Rq!Idle, R!Exists, TT!Rq!Exists, R!state_step_index, TT!Rq!state_step_index, R!step_pending_state,
    TT!Rq!step_pending_state, R!ApproveAtOnce, TT!Rq!ApproveAtOnce, R!next_state_after, TT!Rq!next_state_after,
    R!step_holder_users, TT!Rq!step_holder_users, R!approver_matches, TT!Rq!approver_matches, R!_delegated_users,
    TT!Rq!_delegated_users, R!_user_can_act, TT!Rq!_user_can_act, R!SameKind, TT!Rq!SameKind, R!DuplicateOfPending,
    TT!Rq!DuplicateOfPending, R!_validate_no_duplicate, TT!Rq!_validate_no_duplicate, R!_validate_lock_period,
    TT!Rq!_validate_lock_period, R!Valid, TT!Rq!Valid, R!Save, TT!Rq!Save, R!CanStart, TT!Rq!CanStart, R!Sent,
    TT!Rq!Sent, R!submit_request, TT!Rq!submit_request, R!update_request, TT!Rq!update_request, R!cancel_request,
    TT!Rq!cancel_request, R!submit_overtime_request, TT!Rq!submit_overtime_request, R!submit_correction_request,
    TT!Rq!submit_correction_request, R!update_overtime_request, TT!Rq!update_overtime_request,
    R!update_correction_request, TT!Rq!update_correction_request, R!cancel_overtime_request,
    TT!Rq!cancel_overtime_request, R!cancel_correction_request, TT!Rq!cancel_correction_request, R!MayDecide,
    TT!Rq!MayDecide, R!NoJob, TT!Rq!NoJob, R!_after_ot_state_change, TT!Rq!_after_ot_state_change, R!approve_request,
    TT!Rq!approve_request, R!reject_request, TT!Rq!reject_request, R!return_request, TT!Rq!return_request,
    R!delegate_request, TT!Rq!delegate_request, R!_after_correction_state_change,
    TT!Rq!_after_correction_state_change, R!Commit, TT!Rq!Commit, R!Abort, TT!Rq!Abort, R!get_approved_ot_requests,
    TT!Rq!get_approved_ot_requests, R!RunJob, TT!Rq!RunJob, R!Edit, TT!Rq!Edit, R!save_approval_matrix,
    TT!Rq!save_approval_matrix, R!save_delegation, TT!Rq!save_delegation, R!delete_delegation,
    TT!Rq!delete_delegation, R!Confirm, TT!Rq!Confirm, R!LockDay, TT!Rq!LockDay, R!DecideTicket, TT!Rq!DecideTicket,
    R!Init, TT!Rq!Init, R!Next, TT!Rq!Next, R!Spec, TT!Rq!Spec, R!TypeOK, TT!Rq!TypeOK, R!StepsSigned,
    TT!Rq!StepsSigned, R!OneOpenPerDay, TT!Rq!OneOpenPerDay, R!OvertimeCounted, TT!Rq!OvertimeCounted,
    R!ApproveAdvances, TT!Rq!ApproveAdvances, R!HolderCanReject, TT!Rq!HolderCanReject, R!CorrectionReplacesOut,
    TT!Rq!CorrectionReplacesOut, R!Cardinality, TT!Rq!Cardinality, R!IsFiniteSet, TT!Rq!IsFiniteSet
  <1>1. R!Spec <=> TT!Rq!Spec
    BY PTL
  <1>2. []R!TypeOK <=> []TT!Rq!TypeOK
    BY PTL
  <1>3. []R!StepsSigned <=> []TT!Rq!StepsSigned
    BY PTL
  <1>4. []R!OneOpenPerDay <=> []TT!Rq!OneOpenPerDay
    BY PTL
  <1>5. []R!OvertimeCounted <=> []TT!Rq!OvertimeCounted
    BY PTL
  <1> QED BY <1>1, <1>2, <1>3, <1>4, <1>5

\* What the theorems assume of the constants (Lists) is so of this instance.
LEMMA OvertimeFits ==
  ASSUME Named
  PROVE  TT!Lists
  BY DEF TT!Lists

\* A behaviour of overtime requests is one of Requests, and has what is proved of it.
LEMMA OvertimeStory ==
  ASSUME Named
  PROVE  story = "Overtime" /\ TimeSpec =>
            /\ [](story = "Overtime")
            /\ []R!TypeOK
            /\ []R!StepsSigned
            /\ []R!OneOpenPerDay
            /\ []R!OvertimeCounted
  <1>1. story = "Overtime" /\ TimeInit => R!Init
    BY DEF TimeInit
  <1>2. story = "Overtime" /\ [TimeNext]_vars => [R!Next]_R!vars /\ (story = "Overtime")'
    BY DEF TimeNext, vars, R!vars
  <1>3. story = "Overtime" /\ TimeSpec => [](story = "Overtime") /\ R!Spec
    BY <1>1, <1>2, PTL DEF TimeSpec, R!Spec
  <1>4. TT!Lists
    BY OvertimeFits
  <1>5. TT!Rq!Spec => []TT!Rq!TypeOK /\ []TT!Rq!StepsSigned /\ []TT!Rq!OneOpenPerDay /\ []TT!Rq!OvertimeCounted
    BY <1>4, TT!RequestsTyped, TT!EveryStepIsSigned, TT!OneRequestPerDay, TT!AllOvertimeCounted
  <1> QED BY <1>3, <1>5, OvertimeSame, PTL

\* The instances of Device here and in TimeProofs are one: their definitions come to the same.
LEMMA DeviceSame ==
  /\ D!Spec <=> TT!Dv!Spec
  /\ []D!TypeOK <=> []TT!Dv!TypeOK
  /\ []D!OneCheckinPerTime <=> []TT!Dv!OneCheckinPerTime
  /\ []D!AnsweredIsKept <=> []TT!Dv!AnsweredIsKept
  <1> USE DEF
    D!vars, TT!Dv!vars, D!Nobody, TT!Dv!Nobody, D!NoRow, TT!Dv!NoRow, D!Idle, TT!Dv!Idle, D!Days, TT!Dv!Days,
    D!_resolve_employee, TT!Dv!_resolve_employee, D!SameDevice, TT!Dv!SameDevice, D!DupLogs, TT!Dv!DupLogs,
    D!DeviceCheckins, TT!Dv!DeviceCheckins, D!ExistingCheckin, TT!Dv!ExistingCheckin, D!DateOf, TT!Dv!DateOf,
    D!_is_date_locked, TT!Dv!_is_date_locked, D!_process_raw_log, TT!Dv!_process_raw_log, D!Snapshot, TT!Dv!Snapshot,
    D!Alone, TT!Dv!Alone, D!Begin, TT!Dv!Begin, D!Ends, TT!Dv!Ends, D!Abort, TT!Dv!Abort, D!_create_raw_log,
    TT!Dv!_create_raw_log, D!device_import, TT!Dv!device_import, D!upload_logs, TT!Dv!upload_logs, D!Swept,
    TT!Dv!Swept, D!SyncRow, TT!Dv!SyncRow, D!_process_pending_logs, TT!Dv!_process_pending_logs, D!sync_device,
    TT!Dv!sync_device, D!VNDeviceEmployeeMapping, TT!Dv!VNDeviceEmployeeMapping, D!HandOver, TT!Dv!HandOver, D!Punch,
    TT!Dv!Punch, D!PortalCheckin, TT!Dv!PortalCheckin, D!LockDay, TT!Dv!LockDay, D!Init, TT!Dv!Init, D!Next,
    TT!Dv!Next, D!Spec, TT!Dv!Spec, D!TypeOK, TT!Dv!TypeOK, D!OneCheckinPerTime, TT!Dv!OneCheckinPerTime,
    D!AnsweredIsKept, TT!Dv!AnsweredIsKept, D!LockedGetsNoCheckin, TT!Dv!LockedGetsNoCheckin, D!RightEmployee,
    TT!Dv!RightEmployee, D!Cardinality, TT!Dv!Cardinality, D!IsFiniteSet, TT!Dv!IsFiniteSet, D!Max, TT!Dv!Max, D!Min,
    TT!Dv!Min, D!kSubset, TT!Dv!kSubset, D!FoldSet, TT!Dv!FoldSet, D!MapThenFoldSet, TT!Dv!MapThenFoldSet
  <1>1. D!Spec <=> TT!Dv!Spec
    BY PTL
  <1>2. []D!TypeOK <=> []TT!Dv!TypeOK
    BY PTL
  <1>3. []D!OneCheckinPerTime <=> []TT!Dv!OneCheckinPerTime
    BY PTL
  <1>4. []D!AnsweredIsKept <=> []TT!Dv!AnsweredIsKept
    BY PTL
  <1> QED BY <1>1, <1>2, <1>3, <1>4

\* What the theorems assume of the constants (DeviceNames) is so of this instance.
LEMMA DeviceFits ==
  ASSUME Named
  PROVE  TT!DeviceNames
  BY Sizes, TimeSizes DEF Named, TT!DeviceNames, TT!Dv!Nobody, X

\* A behaviour of devices is one of Device, and has what is proved of it.
LEMMA DeviceStory ==
  ASSUME Named
  PROVE  story = "Device" /\ TimeSpec =>
            /\ [](story = "Device")
            /\ []D!TypeOK
            /\ []D!OneCheckinPerTime
            /\ []D!AnsweredIsKept
  <1>1. story = "Device" /\ TimeInit => D!Init
    BY DEF TimeInit
  <1>2. story = "Device" /\ [TimeNext]_vars => [D!Next]_D!vars /\ (story = "Device")'
    BY DEF TimeNext, vars, D!vars
  <1>3. story = "Device" /\ TimeSpec => [](story = "Device") /\ D!Spec
    BY <1>1, <1>2, PTL DEF TimeSpec, D!Spec
  <1>4. TT!DeviceNames
    BY DeviceFits
  <1>5. TT!Dv!Spec => []TT!Dv!TypeOK /\ []TT!Dv!OneCheckinPerTime /\ []TT!Dv!AnsweredIsKept
    BY <1>4, TT!DeviceTyped, TT!DeviceOnce, TT!DeviceAnswers
  <1> QED BY <1>3, <1>5, DeviceSame, PTL

\* The row an edit goes over, in both instances of HandPunch, and what it leaves.
LEMMA HandTarget ==
  \A rows, t, k, row : U!Target(rows, t, k, row) = TT!Hp!Target(rows, t, k, row)
  BY DEF
    U!Target, TT!Hp!Target, U!_find_existing_checkin, TT!Hp!_find_existing_checkin, U!FirstOrLast, TT!Hp!FirstOrLast,
    U!ShiftOf, TT!Hp!ShiftOf, U!shift_of_punch, TT!Hp!shift_of_punch, U!Rank, TT!Hp!Rank, U!InWindow, TT!Hp!InWindow,
    U!Distance, TT!Hp!Distance, U!Work, TT!Hp!Work, U!Day, TT!Hp!Day, U!Max, TT!Hp!Max

LEMMA HandNew ==
  \A rows, t, k, row : U!New(rows, t, k, row) = TT!Hp!New(rows, t, k, row)
  <1> DEFINE One(s) == CHOOSE p \in s : TRUE
             Made(s, t, k) == IF s = {} THEN U!Genuine(k, t) ELSE U!Moved(One(s), t)
  <1>1. \A rows, t, k, row : U!New(rows, t, k, row) = Made(U!Target(rows, t, k, row), t, k)
    BY DEF U!New
  <1>2. \A rows, t, k, row : TT!Hp!New(rows, t, k, row) = Made(TT!Hp!Target(rows, t, k, row), t, k)
    BY DEF TT!Hp!New, U!Genuine, TT!Hp!Genuine, U!Row, TT!Hp!Row, U!Moved, TT!Hp!Moved
  <1> HIDE DEF Made
  <1> QED BY <1>1, <1>2, HandTarget

LEMMA HandUpsert ==
  \A rows, t, k, row : U!_upsert_employee_checkin(rows, t, k, row) = TT!Hp!_upsert_employee_checkin(rows, t, k, row)
  BY HandTarget, HandNew DEF U!_upsert_employee_checkin, TT!Hp!_upsert_employee_checkin

\* An edit, given the punches after its IN and its OUT.
LEMMA HandEdit ==
  ASSUME NEW i, NEW o, NEW row
  PROVE  U!EditPunches(i, o, row) <=> TT!Hp!EditPunches(i, o, row)
  <1> DEFINE Rest(after, out, in) ==
               LET of == UNION {U!ShiftOf(p) : p \in out}
               IN  /\ c3 = U!NoEdit /\ U!Cardinality(after) <= 3
                   /\ i \cup o # {} /\ (\A t \in i \cup o : ~U!_is_date_locked(U!Day(t)))
                   /\ \A a \in i, b \in o : a <= b
                   /\ row # {} => c7
                   /\ c1' = after
                   /\ c2' = [s \in {1, 2} |-> c2[s] /\ ~\E t \in i \cup o : U!Work(s) = U!Day(t)]
                   /\ c3' = [step |-> "waive", in |-> in, out |-> out, row |-> row, was |-> [s \in of |-> c8[s]]]
                   /\ UNCHANGED <<c8, c4, c5, c6, c7, c9>>
             First == IF i = {} THEN c1 ELSE U!_upsert_employee_checkin(c1, U!Min(i), "IN", {})
             Last(first) == IF o = {} THEN first ELSE U!_upsert_employee_checkin(first, U!Min(o), "OUT", row \cap first)
             Out(first) == IF o = {} THEN {} ELSE {U!New(first, U!Min(o), "OUT", row \cap first)}
             In == IF i = {} THEN {} ELSE {U!New(c1, U!Min(i), "IN", {})}
             First2 == IF i = {} THEN c1 ELSE TT!Hp!_upsert_employee_checkin(c1, TT!Hp!Min(i), "IN", {})
             Last2(first) ==
               IF o = {} THEN first ELSE TT!Hp!_upsert_employee_checkin(first, TT!Hp!Min(o), "OUT", row \cap first)
             Out2(first) == IF o = {} THEN {} ELSE {TT!Hp!New(first, TT!Hp!Min(o), "OUT", row \cap first)}
             In2 == IF i = {} THEN {} ELSE {TT!Hp!New(c1, TT!Hp!Min(i), "IN", {})}
  <1>1. U!EditPunches(i, o, row) <=> Rest(Last(First), Out(First), In)
    BY DEF U!EditPunches
  <1>2. TT!Hp!EditPunches(i, o, row) <=> Rest(Last2(First2), Out2(First2), In2)
    BY DEF TT!Hp!EditPunches,
      U!ShiftOf, TT!Hp!ShiftOf, U!shift_of_punch, TT!Hp!shift_of_punch, U!Rank, TT!Hp!Rank, U!InWindow,
      TT!Hp!InWindow, U!Distance, TT!Hp!Distance, U!Work, TT!Hp!Work, U!Day, TT!Hp!Day, U!Max, TT!Hp!Max, U!NoEdit,
      TT!Hp!NoEdit, U!_is_date_locked, TT!Hp!_is_date_locked, U!Cardinality, TT!Hp!Cardinality, U!IsFiniteSet,
      TT!Hp!IsFiniteSet
  <1>3. \A s : U!Min(s) = TT!Hp!Min(s)
    BY DEF U!Min, TT!Hp!Min
  <1>4. First = First2 /\ In = In2
    BY <1>3, HandNew, HandUpsert
  <1>5. \A first : Last(first) = Last2(first) /\ Out(first) = Out2(first)
    BY <1>3, HandNew, HandUpsert
  <1> HIDE DEF Rest, First, First2, Last, Last2, Out, Out2, In, In2
  <1> QED BY <1>1, <1>2, <1>4, <1>5

LEMMA HandSteps ==
  /\ U!Init <=> TT!Hp!Init
  /\ U!Next <=> TT!Hp!Next
  <1>1. U!Init <=> TT!Hp!Init
    BY DEF
      U!Init, TT!Hp!Init, U!NoEdit, TT!Hp!NoEdit
  <1>2. U!Next <=> TT!Hp!Next
    BY HandEdit DEF
      U!vars, TT!Hp!vars, U!Kinds, TT!Hp!Kinds, U!Statuses, TT!Hp!Statuses, U!NoEdit, TT!Hp!NoEdit, U!Row, TT!Hp!Row,
      U!Genuine, TT!Hp!Genuine, U!Day, TT!Hp!Day, U!Work, TT!Hp!Work, U!_is_date_locked, TT!Hp!_is_date_locked,
      U!Alone, TT!Hp!Alone, U!Distance, TT!Hp!Distance, U!InWindow, TT!Hp!InWindow, U!Rank, TT!Hp!Rank,
      U!shift_of_punch, TT!Hp!shift_of_punch, U!ShiftOf, TT!Hp!ShiftOf, U!FirstOrLast, TT!Hp!FirstOrLast,
      U!ExistingOfDay, TT!Hp!ExistingOfDay, U!_filter_logs_to_window, TT!Hp!_filter_logs_to_window, U!LastOut,
      TT!Hp!LastOut, U!AutoFlag, TT!Hp!AutoFlag, U!Calculated, TT!Hp!Calculated, U!_auto_resolve_checkout_miss,
      TT!Hp!_auto_resolve_checkout_miss, U!Tap, TT!Hp!Tap, U!Recalculate, TT!Hp!Recalculate, U!CloseSession,
      TT!Hp!CloseSession, U!Decisions, TT!Hp!Decisions, U!Decide, TT!Hp!Decide, U!Months, TT!Hp!Months, U!MovedMarked,
      TT!Hp!MovedMarked, U!Moved, TT!Hp!Moved, U!_OUT_AFTER_PLANNED_END, TT!Hp!_OUT_AFTER_PLANNED_END,
      U!_checkout_miss_at, TT!Hp!_checkout_miss_at, U!_checkout_miss_for_out_log, TT!Hp!_checkout_miss_for_out_log,
      U!WaivableLate, TT!Hp!WaivableLate, U!_MANUAL_OUT_WAIVABLE, TT!Hp!_MANUAL_OUT_WAIVABLE,
      U!_waive_checkout_miss_for_manual_out, TT!Hp!_waive_checkout_miss_for_manual_out, U!_sync_recalc_after_checkin,
      TT!Hp!_sync_recalc_after_checkin, U!Init, TT!Hp!Init, U!AtMostOne, TT!Hp!AtMostOne, U!Next, TT!Hp!Next, U!Spec,
      TT!Hp!Spec, U!TypeOK, TT!Hp!TypeOK, U!SameShift, TT!Hp!SameShift, U!EditsOwnShift, TT!Hp!EditsOwnShift,
      U!HandOutWaives, TT!Hp!HandOutWaives, U!HandOutCounts, TT!Hp!HandOutCounts, U!HandOutWaivesAnyhow,
      TT!Hp!HandOutWaivesAnyhow, U!LockedStaysPut, TT!Hp!LockedStaysPut, U!ClosedHasOut, TT!Hp!ClosedHasOut,
      U!Cardinality, TT!Hp!Cardinality, U!IsFiniteSet, TT!Hp!IsFiniteSet, U!Max, TT!Hp!Max, U!Min, TT!Hp!Min
  <1> QED BY <1>1, <1>2

\* The instances of HandPunch here and in TimeProofs are one: their definitions come to the same.
LEMMA HandSame ==
  /\ U!Spec <=> TT!Hp!Spec
  /\ []U!TypeOK <=> []TT!Hp!TypeOK
  /\ [][U!EditsOwnShift]_U!vars <=> [][TT!Hp!EditsOwnShift]_TT!Hp!vars
  /\ [][U!HandOutWaives]_U!vars <=> [][TT!Hp!HandOutWaives]_TT!Hp!vars
  /\ [][U!HandOutCounts]_U!vars <=> [][TT!Hp!HandOutCounts]_TT!Hp!vars
  <1>1. U!Spec <=> TT!Hp!Spec
    BY HandSteps, PTL DEF U!Spec, TT!Hp!Spec, U!vars, TT!Hp!vars
  <1> USE DEF
    U!vars, TT!Hp!vars, U!Kinds, TT!Hp!Kinds, U!Statuses, TT!Hp!Statuses, U!NoEdit, TT!Hp!NoEdit, U!Row, TT!Hp!Row,
    U!Genuine, TT!Hp!Genuine, U!Day, TT!Hp!Day, U!Work, TT!Hp!Work, U!_is_date_locked, TT!Hp!_is_date_locked, U!Alone,
    TT!Hp!Alone, U!Distance, TT!Hp!Distance, U!InWindow, TT!Hp!InWindow, U!Rank, TT!Hp!Rank, U!shift_of_punch,
    TT!Hp!shift_of_punch, U!ShiftOf, TT!Hp!ShiftOf, U!FirstOrLast, TT!Hp!FirstOrLast, U!_filter_logs_to_window,
    TT!Hp!_filter_logs_to_window, U!LastOut, TT!Hp!LastOut, U!AutoFlag, TT!Hp!AutoFlag, U!Decisions, TT!Hp!Decisions,
    U!_OUT_AFTER_PLANNED_END, TT!Hp!_OUT_AFTER_PLANNED_END, U!_checkout_miss_at, TT!Hp!_checkout_miss_at,
    U!_checkout_miss_for_out_log, TT!Hp!_checkout_miss_for_out_log, U!WaivableLate, TT!Hp!WaivableLate,
    U!_MANUAL_OUT_WAIVABLE, TT!Hp!_MANUAL_OUT_WAIVABLE, U!AtMostOne, TT!Hp!AtMostOne, U!TypeOK, TT!Hp!TypeOK,
    U!SameShift, TT!Hp!SameShift, U!EditsOwnShift, TT!Hp!EditsOwnShift, U!HandOutWaives, TT!Hp!HandOutWaives,
    U!HandOutCounts, TT!Hp!HandOutCounts, U!Cardinality, TT!Hp!Cardinality, U!IsFiniteSet, TT!Hp!IsFiniteSet, U!Max,
    TT!Hp!Max, U!Min, TT!Hp!Min
  <1>2. []U!TypeOK <=> []TT!Hp!TypeOK
    BY PTL
  <1>3. [][U!EditsOwnShift]_U!vars <=> [][TT!Hp!EditsOwnShift]_TT!Hp!vars
    BY PTL
  <1>4. [][U!HandOutWaives]_U!vars <=> [][TT!Hp!HandOutWaives]_TT!Hp!vars
    BY PTL
  <1>5. [][U!HandOutCounts]_U!vars <=> [][TT!Hp!HandOutCounts]_TT!Hp!vars
    BY PTL
  <1> QED BY <1>1, <1>2, <1>3, <1>4, <1>5

\* What the theorems assume of the constants (ShiftPlan) is so of this instance.
LEMMA HandFits ==
  ASSUME Named
  PROVE  TT!ShiftPlan /\ TT!NotTheEnd
  <1>1. TT!HandTimes \subseteq 21..56
    BY DEF TT!HandTimes
  <1>2. \A t, u \in 21..56 : TT!Hp!Distance(t, u) <= 36
    BY DEF TT!Hp!Distance
  <1> QED BY <1>1, <1>2 DEF TT!ShiftPlan, TT!NotTheEnd, TT!Hp!Kinds

\* A behaviour of edited punches is one of HandPunch, and has what is proved of it.
LEMMA HandStory ==
  ASSUME Named
  PROVE  story = "Hand" /\ TimeSpec =>
            /\ [](story = "Hand")
            /\ []U!TypeOK
            /\ [][U!EditsOwnShift]_U!vars
            /\ [][U!HandOutWaives]_U!vars
            /\ [][U!HandOutCounts]_U!vars
  <1>1. story = "Hand" /\ TimeInit => U!Init
    BY DEF TimeInit
  <1>2. story = "Hand" /\ [TimeNext]_vars => [U!Next]_U!vars /\ (story = "Hand")'
    BY DEF TimeNext, vars, U!vars
  <1>3. story = "Hand" /\ TimeSpec => [](story = "Hand") /\ U!Spec
    BY <1>1, <1>2, PTL DEF TimeSpec, U!Spec
  <1>4. TT!ShiftPlan /\ TT!NotTheEnd
    BY HandFits
  <1>5. TT!Hp!Spec => /\ []TT!Hp!TypeOK /\ [][TT!Hp!EditsOwnShift]_TT!Hp!vars
                      /\ [][TT!Hp!HandOutWaives]_TT!Hp!vars /\ [][TT!Hp!HandOutCounts]_TT!Hp!vars
    BY <1>4, TT!HandTyped, TT!EditsAreOfTheirShift, TT!HandOutsWaive, TT!HandOutsCount
  <1> QED BY <1>3, <1>5, HandSame, PTL

\* The instances of MonthPeriod here and in TimeProofs are one: their definitions come to the same.
LEMMA MonthSame ==
  /\ M!Spec <=> TT!Mp!Spec
  /\ []M!TypeOK <=> []TT!Mp!TypeOK
  /\ []M!LockedLinesAgree <=> []TT!Mp!LockedLinesAgree
  /\ [][M!Stands]_M!vars <=> TT!Mp!LockedStands
  <1> USE DEF
    M!PeriodStatuses, TT!Mp!PeriodStatuses, M!LineStatuses, TT!Mp!LineStatuses, M!NoLine, TT!Mp!NoLine, M!Line,
    TT!Mp!Line, M!Idle, TT!Mp!Idle, M!vars, TT!Mp!vars, M!ALLOWED_TRANSITIONS, TT!Mp!ALLOWED_TRANSITIONS,
    M!_validate_transition, TT!Mp!_validate_transition, M!Lines, TT!Mp!Lines, M!Figures, TT!Mp!Figures, M!DraftTotal,
    TT!Mp!DraftTotal, M!rollup_period, TT!Mp!rollup_period, M!can_lock, TT!Mp!can_lock, M!WithSessions,
    TT!Mp!WithSessions, M!_upsert_line, TT!Mp!_upsert_line, M!SetStatus, TT!Mp!SetStatus, M!Drafts, TT!Mp!Drafts,
    M!Begin, TT!Mp!Begin, M!GenerateBegin, TT!Mp!GenerateBegin, M!ConfirmBegin, TT!Mp!ConfirmBegin, M!ConfirmAllBegin,
    TT!Mp!ConfirmAllBegin, M!AdjustBegin, TT!Mp!AdjustBegin, M!LockBegin, TT!Mp!LockBegin, M!UnlockBegin,
    TT!Mp!UnlockBegin, M!SavesAnyway, TT!Mp!SavesAnyway, M!Saves, TT!Mp!Saves, M!Done, TT!Mp!Done, M!Merge,
    TT!Mp!Merge, M!generate_lines, TT!Mp!generate_lines, M!confirm_line, TT!Mp!confirm_line, M!adjust_line,
    TT!Mp!adjust_line, M!lock_period, TT!Mp!lock_period, M!unlock_period, TT!Mp!unlock_period, M!Abort, TT!Mp!Abort,
    M!create_period, TT!Mp!create_period, M!delete_period, TT!Mp!delete_period, M!delete_payroll_review,
    TT!Mp!delete_payroll_review, M!WorkChanges, TT!Mp!WorkChanges, M!Init, TT!Mp!Init, M!Next, TT!Mp!Next, M!Spec,
    TT!Mp!Spec, M!TypeOK, TT!Mp!TypeOK, M!LockedLinesAgree, TT!Mp!LockedLinesAgree, M!Stands, TT!Mp!Stands,
    M!LockedStands, TT!Mp!LockedStands, M!AdjustedStands, TT!Mp!AdjustedStands, M!Cardinality, TT!Mp!Cardinality,
    M!IsFiniteSet, TT!Mp!IsFiniteSet, M!SumFunction, TT!Mp!SumFunction, M!SumFunctionOnSet, TT!Mp!SumFunctionOnSet,
    M!FoldFunctionOnSet, TT!Mp!FoldFunctionOnSet, M!MapThenFoldSet, TT!Mp!MapThenFoldSet
  <1>1. M!Spec <=> TT!Mp!Spec
    BY PTL
  <1>2. []M!TypeOK <=> []TT!Mp!TypeOK
    BY PTL
  <1>3. []M!LockedLinesAgree <=> []TT!Mp!LockedLinesAgree
    BY PTL
  <1>4. [][M!Stands]_M!vars <=> TT!Mp!LockedStands
    BY PTL
  <1> QED BY <1>1, <1>2, <1>3, <1>4

\* What the theorems assume of the constants (MonthNames) is so of this instance.
LEMMA MonthFits ==
  ASSUME Named
  PROVE  TT!MonthNames /\ TT!PeriodFigures
  BY Sizes, TimeSizes DEF Named, TT!MonthNames, TT!PeriodFigures, X

\* A behaviour of the monthly period is one of MonthPeriod, and has what is proved of it.
LEMMA MonthStory ==
  ASSUME Named
  PROVE  story = "Month" /\ TimeSpec =>
            /\ [](story = "Month")
            /\ []M!TypeOK
            /\ []M!LockedLinesAgree
            /\ [][M!Stands]_M!vars
  <1>1. story = "Month" /\ TimeInit => M!Init
    BY DEF TimeInit
  <1>2. story = "Month" /\ [TimeNext]_vars => [M!Next]_M!vars /\ (story = "Month")'
    BY DEF TimeNext, vars, M!vars
  <1>3. story = "Month" /\ TimeSpec => [](story = "Month") /\ M!Spec
    BY <1>1, <1>2, PTL DEF TimeSpec, M!Spec
  <1>4. TT!MonthNames /\ TT!PeriodFigures
    BY MonthFits
  <1>5. TT!Mp!Spec => []TT!Mp!TypeOK /\ []TT!Mp!LockedLinesAgree /\ TT!Mp!LockedStands
    BY <1>4, TT!MonthTyped, TT!LockedAgree, TT!LockedMonthStands
  <1> QED BY <1>3, <1>5, MonthSame, PTL

\* The sums of both instances of MonthEnd.
LEMMA EndSums ==
  /\ \A l : Close!TotalOf(l) = TT!Me!TotalOf(l)
  /\ \A l : Close!FormulaTotalOf(l) = TT!Me!FormulaTotalOf(l)
  /\ Close!rollup_lines = TT!Me!rollup_lines
  <1>1. \A l : Close!TotalOf(l) = TT!Me!TotalOf(l)
    BY DEF
      Close!TotalOf, TT!Me!TotalOf, Close!MapThenSumSet, TT!Me!MapThenSumSet, Close!MapThenFoldSet,
      TT!Me!MapThenFoldSet, Close!Sum, TT!Me!Sum, Close!_period_employees, TT!Me!_period_employees, Close!Net,
      TT!Me!Net
  <1>2. \A l : Close!FormulaTotalOf(l) = TT!Me!FormulaTotalOf(l)
    BY DEF
      Close!FormulaTotalOf, TT!Me!FormulaTotalOf, Close!MapThenSumSet, TT!Me!MapThenSumSet, Close!MapThenFoldSet,
      TT!Me!MapThenFoldSet, Close!Sum, TT!Me!Sum, Close!_period_employees, TT!Me!_period_employees, Close!Net,
      TT!Me!Net
  <1>3. Close!rollup_lines = TT!Me!rollup_lines
    BY DEF
      Close!rollup_lines, TT!Me!rollup_lines, Close!MapThenSumSet, TT!Me!MapThenSumSet, Close!MapThenFoldSet,
      TT!Me!MapThenFoldSet, Close!Sum, TT!Me!Sum, Close!_period_employees, TT!Me!_period_employees, Close!Net,
      TT!Me!Net
  <1> QED BY <1>1, <1>2, <1>3

\* Their steps: those that add up, and with them the rest.
LEMMA EndSteps ==
  /\ Close!Init <=> TT!Me!Init
  /\ Close!Next <=> TT!Me!Next
  <1>1. Close!Init <=> TT!Me!Init
    BY DEF
      Close!Init, TT!Me!Init, Close!Period, TT!Me!Period, Close!NoPeriod, TT!Me!NoPeriod, Close!NoLine, TT!Me!NoLine,
      Close!Line, TT!Me!Line, Close!Blockers, TT!Me!Blockers, Close!Quiet, TT!Me!Quiet
  <1>2. \A p : Close!calculate_payroll_review(p) <=> TT!Me!calculate_payroll_review(p)
    BY EndSums DEF
      Close!vars, TT!Me!vars, Close!Statuses, TT!Me!Statuses, Close!Period, TT!Me!Period, Close!NoPeriod,
      TT!Me!NoPeriod, Close!NoLine, TT!Me!NoLine, Close!Line, TT!Me!Line, Close!Blockers, TT!Me!Blockers, Close!Quiet,
      TT!Me!Quiet, Close!Init, TT!Me!Init, Close!Existing, TT!Me!Existing, Close!ExistingOpen, TT!Me!ExistingOpen,
      Close!_period_employees, TT!Me!_period_employees, Close!Held, TT!Me!Held, Close!Net, TT!Me!Net, Close!Pending,
      TT!Me!Pending, Close!_auto_close_blockers, TT!Me!_auto_close_blockers, Close!Upserted, TT!Me!Upserted,
      Close!create_payroll_review, TT!Me!create_payroll_review, Close!calculate_payroll_review,
      TT!Me!calculate_payroll_review, Close!approve_review, TT!Me!approve_review, Close!cancel_payroll_review,
      TT!Me!cancel_payroll_review, Close!delete_payroll_review, TT!Me!delete_payroll_review, Close!Broken,
      TT!Me!Broken, Close!NextDay, TT!Me!NextDay, Close!Leaves, TT!Me!Leaves, Close!Turns, TT!Me!Turns, Close!Settles,
      TT!Me!Settles, Close!Raises, TT!Me!Raises, Close!Next, TT!Me!Next, Close!Spec, TT!Me!Spec, Close!TypeOK,
      TT!Me!TypeOK, Close!OnePeriod, TT!Me!OnePeriod, Close!TotalsAreOfLines, TT!Me!TotalsAreOfLines,
      Close!AdjustmentStays, TT!Me!AdjustmentStays, Close!Cardinality, TT!Me!Cardinality, Close!IsFiniteSet,
      TT!Me!IsFiniteSet, Close!Max, TT!Me!Max, Close!Min, TT!Me!Min
  <1>3. \A p, e, a : Close!Adjust(p, e, a) <=> TT!Me!Adjust(p, e, a)
    BY EndSums DEF
      Close!vars, TT!Me!vars, Close!Statuses, TT!Me!Statuses, Close!Period, TT!Me!Period, Close!NoPeriod,
      TT!Me!NoPeriod, Close!NoLine, TT!Me!NoLine, Close!Line, TT!Me!Line, Close!Blockers, TT!Me!Blockers, Close!Quiet,
      TT!Me!Quiet, Close!Init, TT!Me!Init, Close!Existing, TT!Me!Existing, Close!ExistingOpen, TT!Me!ExistingOpen,
      Close!_period_employees, TT!Me!_period_employees, Close!Held, TT!Me!Held, Close!Net, TT!Me!Net, Close!Pending,
      TT!Me!Pending, Close!_auto_close_blockers, TT!Me!_auto_close_blockers, Close!Upserted, TT!Me!Upserted,
      Close!create_payroll_review, TT!Me!create_payroll_review, Close!Adjust, TT!Me!Adjust, Close!approve_review,
      TT!Me!approve_review, Close!cancel_payroll_review, TT!Me!cancel_payroll_review, Close!delete_payroll_review,
      TT!Me!delete_payroll_review, Close!Broken, TT!Me!Broken, Close!NextDay, TT!Me!NextDay, Close!Leaves,
      TT!Me!Leaves, Close!Turns, TT!Me!Turns, Close!Settles, TT!Me!Settles, Close!Raises, TT!Me!Raises, Close!Next,
      TT!Me!Next, Close!Spec, TT!Me!Spec, Close!TypeOK, TT!Me!TypeOK, Close!OnePeriod, TT!Me!OnePeriod,
      Close!TotalsAreOfLines, TT!Me!TotalsAreOfLines, Close!AdjustmentStays, TT!Me!AdjustmentStays, Close!Cardinality,
      TT!Me!Cardinality, Close!IsFiniteSet, TT!Me!IsFiniteSet, Close!Max, TT!Me!Max, Close!Min, TT!Me!Min
  <1>4. \A p : Close!auto_close_payroll(p) <=> TT!Me!auto_close_payroll(p)
    BY EndSums DEF
      Close!vars, TT!Me!vars, Close!Statuses, TT!Me!Statuses, Close!Period, TT!Me!Period, Close!NoPeriod,
      TT!Me!NoPeriod, Close!NoLine, TT!Me!NoLine, Close!Line, TT!Me!Line, Close!Blockers, TT!Me!Blockers, Close!Quiet,
      TT!Me!Quiet, Close!Init, TT!Me!Init, Close!Existing, TT!Me!Existing, Close!ExistingOpen, TT!Me!ExistingOpen,
      Close!_period_employees, TT!Me!_period_employees, Close!Held, TT!Me!Held, Close!Net, TT!Me!Net, Close!Pending,
      TT!Me!Pending, Close!_auto_close_blockers, TT!Me!_auto_close_blockers, Close!Upserted, TT!Me!Upserted,
      Close!create_payroll_review, TT!Me!create_payroll_review, Close!approve_review, TT!Me!approve_review,
      Close!cancel_payroll_review, TT!Me!cancel_payroll_review, Close!delete_payroll_review,
      TT!Me!delete_payroll_review, Close!Broken, TT!Me!Broken, Close!auto_close_payroll, TT!Me!auto_close_payroll,
      Close!NextDay, TT!Me!NextDay, Close!Leaves, TT!Me!Leaves, Close!Turns, TT!Me!Turns, Close!Settles,
      TT!Me!Settles, Close!Raises, TT!Me!Raises, Close!Next, TT!Me!Next, Close!Spec, TT!Me!Spec, Close!TypeOK,
      TT!Me!TypeOK, Close!OnePeriod, TT!Me!OnePeriod, Close!TotalsAreOfLines, TT!Me!TotalsAreOfLines,
      Close!AdjustmentStays, TT!Me!AdjustmentStays, Close!Cardinality, TT!Me!Cardinality, Close!IsFiniteSet,
      TT!Me!IsFiniteSet, Close!Max, TT!Me!Max, Close!Min, TT!Me!Min
  <1>5. Close!Next <=> TT!Me!Next
    BY <1>2, <1>3, <1>4 DEF
      Close!vars, TT!Me!vars, Close!Statuses, TT!Me!Statuses, Close!Period, TT!Me!Period, Close!NoPeriod,
      TT!Me!NoPeriod, Close!NoLine, TT!Me!NoLine, Close!Line, TT!Me!Line, Close!Blockers, TT!Me!Blockers, Close!Quiet,
      TT!Me!Quiet, Close!Init, TT!Me!Init, Close!Existing, TT!Me!Existing, Close!ExistingOpen, TT!Me!ExistingOpen,
      Close!_period_employees, TT!Me!_period_employees, Close!Held, TT!Me!Held, Close!Net, TT!Me!Net, Close!Pending,
      TT!Me!Pending, Close!_auto_close_blockers, TT!Me!_auto_close_blockers, Close!Upserted, TT!Me!Upserted,
      Close!create_payroll_review, TT!Me!create_payroll_review, Close!approve_review, TT!Me!approve_review,
      Close!cancel_payroll_review, TT!Me!cancel_payroll_review, Close!delete_payroll_review,
      TT!Me!delete_payroll_review, Close!Broken, TT!Me!Broken, Close!NextDay, TT!Me!NextDay, Close!Leaves,
      TT!Me!Leaves, Close!Turns, TT!Me!Turns, Close!Settles, TT!Me!Settles, Close!Raises, TT!Me!Raises, Close!Next,
      TT!Me!Next, Close!Spec, TT!Me!Spec, Close!TypeOK, TT!Me!TypeOK, Close!OnePeriod, TT!Me!OnePeriod,
      Close!TotalsAreOfLines, TT!Me!TotalsAreOfLines, Close!AdjustmentStays, TT!Me!AdjustmentStays, Close!Cardinality,
      TT!Me!Cardinality, Close!IsFiniteSet, TT!Me!IsFiniteSet, Close!Max, TT!Me!Max, Close!Min, TT!Me!Min
  <1> QED BY <1>1, <1>5

\* The total is that of the lines, for both.
LEMMA EndTotals ==
  Close!TotalsAreOfLines <=> TT!Me!TotalsAreOfLines
  BY EndSums DEF
    Close!TotalsAreOfLines, TT!Me!TotalsAreOfLines, Close!Held, TT!Me!Held, Close!NoLine, TT!Me!NoLine

\* The instances of MonthEnd here and in TimeProofs are one: their definitions come to the same.
LEMMA EndSame ==
  /\ Close!Spec <=> TT!Me!Spec
  /\ []Close!TypeOK <=> []TT!Me!TypeOK
  /\ []Close!OnePeriod <=> []TT!Me!OnePeriod
  /\ []Close!TotalsAreOfLines <=> []TT!Me!TotalsAreOfLines
  /\ [][Close!AdjustmentStays]_Close!vars <=> [][TT!Me!AdjustmentStays]_TT!Me!vars
  <1>1. Close!Spec <=> TT!Me!Spec
    BY EndSteps, PTL DEF Close!Spec, TT!Me!Spec, Close!vars, TT!Me!vars
  <1>4. []Close!TotalsAreOfLines <=> []TT!Me!TotalsAreOfLines
    BY EndTotals, PTL
  <1> USE DEF
    Close!vars, TT!Me!vars, Close!Statuses, TT!Me!Statuses, Close!Period, TT!Me!Period, Close!NoPeriod,
    TT!Me!NoPeriod, Close!NoLine, TT!Me!NoLine, Close!Line, TT!Me!Line, Close!Blockers, TT!Me!Blockers, Close!Quiet,
    TT!Me!Quiet, Close!Existing, TT!Me!Existing, Close!ExistingOpen, TT!Me!ExistingOpen, Close!_period_employees,
    TT!Me!_period_employees, Close!Held, TT!Me!Held, Close!Net, TT!Me!Net, Close!Pending, TT!Me!Pending,
    Close!_auto_close_blockers, TT!Me!_auto_close_blockers, Close!Upserted, TT!Me!Upserted,
    Close!create_payroll_review, TT!Me!create_payroll_review, Close!approve_review, TT!Me!approve_review,
    Close!cancel_payroll_review, TT!Me!cancel_payroll_review, Close!delete_payroll_review,
    TT!Me!delete_payroll_review, Close!Broken, TT!Me!Broken, Close!NextDay, TT!Me!NextDay, Close!Leaves, TT!Me!Leaves,
    Close!Turns, TT!Me!Turns, Close!Settles, TT!Me!Settles, Close!Raises, TT!Me!Raises, Close!TypeOK, TT!Me!TypeOK,
    Close!OnePeriod, TT!Me!OnePeriod, Close!AdjustmentStays, TT!Me!AdjustmentStays, Close!Cardinality,
    TT!Me!Cardinality, Close!IsFiniteSet, TT!Me!IsFiniteSet, Close!Max, TT!Me!Max, Close!Min, TT!Me!Min
  <1>2. []Close!TypeOK <=> []TT!Me!TypeOK
    BY PTL
  <1>3. []Close!OnePeriod <=> []TT!Me!OnePeriod
    BY PTL
  <1>5. [][Close!AdjustmentStays]_Close!vars <=> [][TT!Me!AdjustmentStays]_TT!Me!vars
    BY PTL
  <1> QED BY <1>1, <1>2, <1>3, <1>4, <1>5

\* What the theorems assume of the constants (PayFigures) is so of this instance.
LEMMA EndFits ==
  ASSUME Named
  PROVE  TT!PayFigures
  BY Sizes, TimeSizes DEF TT!PayFigures

\* A behaviour of the end of a month is one of MonthEnd, and has what is proved of it.
LEMMA EndStory ==
  ASSUME Named
  PROVE  story = "End" /\ TimeSpec =>
            /\ [](story = "End")
            /\ []Close!TypeOK
            /\ []Close!OnePeriod
            /\ []Close!TotalsAreOfLines
            /\ [][Close!AdjustmentStays]_Close!vars
  <1>1. story = "End" /\ TimeInit => Close!Init
    BY DEF TimeInit
  <1>2. story = "End" /\ [TimeNext]_vars => [Close!Next]_Close!vars /\ (story = "End")'
    BY DEF TimeNext, vars, Close!vars
  <1>3. story = "End" /\ TimeSpec => [](story = "End") /\ Close!Spec
    BY <1>1, <1>2, PTL DEF TimeSpec, Close!Spec
  <1>4. TT!PayFigures
    BY EndFits
  <1>5. TT!Me!Spec => []TT!Me!TypeOK /\ []TT!Me!OnePeriod /\ []TT!Me!TotalsAreOfLines /\ [][TT!Me!AdjustmentStays]_TT!Me!vars
    BY <1>4, TT!EndTyped, TT!MonthReviewedOnce, TT!TotalsHold, TT!AdjustmentsStay
  <1> QED BY <1>3, <1>5, EndSame, PTL

\* A punch gives one check-in, what a device was answered is kept (device.py), and edited punches are of their shifts
\* (admin.py).
THEOREM DeviceKeptAlways ==
  ASSUME Named
  PROVE  TimeSpec => []DeviceKept
  <1> DEFINE Other == story \notin {"Device", "Hand"}
  <1>1. Other \/ story = "Device" \/ story = "Hand"
    OBVIOUS
  <1>2. Other /\ [TimeNext]_vars => Other'
    BY DEF TimeNext, vars
  <1>3. Other => DeviceKept
    BY DEF DeviceKept
  <1>4. story = "Device" /\ D!TypeOK /\ D!OneCheckinPerTime /\ D!AnsweredIsKept => DeviceKept
    BY DEF DeviceKept
  <1>5. story = "Hand" /\ U!TypeOK => DeviceKept
    BY DEF DeviceKept
  <1> HIDE DEF Other
  <1> QED
    BY <1>1, <1>2, <1>3, <1>4, <1>5, DeviceStory, HandStory, PTL DEF TimeSpec

\* The lines of a locked month agree (attendance_period.py), a month has one period of review, and its totals are those
\* of its lines (payroll.py).
THEOREM MonthKeptAlways ==
  ASSUME Named
  PROVE  TimeSpec => []MonthKept
  <1> DEFINE Other == story \notin {"Month", "End"}
  <1>1. Other \/ story = "Month" \/ story = "End"
    OBVIOUS
  <1>2. Other /\ [TimeNext]_vars => Other'
    BY DEF TimeNext, vars
  <1>3. Other => MonthKept
    BY DEF MonthKept
  <1>4. story = "Month" /\ M!TypeOK /\ M!LockedLinesAgree => MonthKept
    BY DEF MonthKept
  <1>5. story = "End" /\ Close!TypeOK /\ Close!OnePeriod /\ Close!TotalsAreOfLines => MonthKept
    BY DEF MonthKept
  <1> HIDE DEF Other
  <1> QED
    BY <1>1, <1>2, <1>3, <1>4, <1>5, MonthStory, EndStory, PTL DEF TimeSpec

\* No step changes a locked month (attendance_period.py) or takes away what was adjusted by hand (payroll.py), and an
\* edit of punches is of one shift, waives the ticket of that one and counts (admin.py).
THEOREM StepsAlwaysStand ==
  ASSUME Named
  PROVE  TimeSpec => StepsStand
  <1> DEFINE Other == story \notin {"Hand", "Month", "End"}
  <1>1. Other \/ story = "Hand" \/ story = "Month" \/ story = "End"
    OBVIOUS
  <1>2. Other /\ [TimeNext]_vars => Other'
    BY DEF TimeNext, vars
  <1> DEFINE Part == /\ story = "Hand" => U!EditsOwnShift /\ U!HandOutWaives /\ U!HandOutCounts
                     /\ story = "Month" => M!Stands
                     /\ story = "End" => Close!AdjustmentStays
  <1>3. Other /\ [TimeNext]_vars => [Part]_vars
    OBVIOUS
  <1>4. story = "Hand" /\ [TimeNext]_vars /\ [U!EditsOwnShift]_U!vars /\ [U!HandOutWaives]_U!vars
          /\ [U!HandOutCounts]_U!vars => [Part]_vars
    BY DEF TimeNext, vars, U!vars
  <1>5. story = "Month" /\ [TimeNext]_vars /\ [M!Stands]_M!vars => [Part]_vars
    BY DEF TimeNext, vars, M!vars
  <1>6. story = "End" /\ [TimeNext]_vars /\ [Close!AdjustmentStays]_Close!vars => [Part]_vars
    BY DEF TimeNext, vars, Close!vars
  <1> HIDE DEF Other
  <1>7. TimeSpec => [][Part]_vars
    <2> HIDE DEF Part
    <2> QED
      BY <1>1, <1>2, <1>3, <1>4, <1>5, <1>6, HandStory, MonthStory, EndStory, PTL DEF TimeSpec
  <1> QED BY <1>7, PTL DEF StepsStand

\* The components again, with the requests of R2.
TC == INSTANCE TimeProofs WITH
  Employees <- X, Requests <- Z, Overlaps <- BOOLEAN,
  Docs <- {w1, w2}, OT <- {w1}, Linked <- {w2}, Days <- {1}, Boss <- boss, Chief <- boss, HR <- {hr}, Deputies <- {deputy},
  Matrices <- {<<>>, <<"Line Manager", "HR Manager">>},
  Eager <- FALSE, Overlap <- FALSE, MaxEdits <- 1, MaxDelegations <- 1,
  Badges <- {w1}, Devices <- {w2}, LastDay <- 1, Times <- {<<1, "day">>}, Logs <- Y, PageSize <- 1,
  Shifts <- {1, 2}, Start <- <<20, 44>>, End <- <<32, 56>>, Cap <- 20,
  Taps <- {<<"IN", 21>>, <<"IN", 43>>, <<"OUT", 33>>}, EditTimes <- {31, 43}, LockedDays <- {0}, MaxPunches <- 3,
  Values <- {0, 1}, MaxWork <- 1,
  Periods <- {w1, w2}, Adjustments <- {0, 1}, Formulas <- {1, 2}, AlarmDay <- 1, LastDate <- 2,
  overlap <- c9, req <- c10, ticket <- c8, locked <- c5, due <- c4, period <- c3, line <- c6,
  doc <- c1, saving <- c2, matrix <- c3, deleg <- c4, counted <- c6, queue <- c7, signed <- c9, sent <- c10, edits <- c11,
  raw <- c1, checkin <- c2, portal <- c3, mapping <- c4, holder <- c5, punched <- c6, known <- c7, lockedTo <- c8,
  punch <- c1, flag <- c2, edit <- c3, paid <- c6, named <- c7,
  work <- c1, changes <- c2, review <- c5, day <- c1, staff <- c2, blockers <- c5, closing <- c7

\* The instances of Requests here and in TimeProofs are one: their definitions come to the same.
LEMMA CorrectionSame ==
  /\ R2!Spec <=> TC!Rq!Spec
  /\ []R2!TypeOK <=> []TC!Rq!TypeOK
  /\ []R2!StepsSigned <=> []TC!Rq!StepsSigned
  /\ []R2!OneOpenPerDay <=> []TC!Rq!OneOpenPerDay
  /\ []R2!OvertimeCounted <=> []TC!Rq!OvertimeCounted
  <1> USE DEF
    R2!Users, TC!Rq!Users, R2!Pending, TC!Rq!Pending, R2!States, TC!Rq!States, R2!_OT_ENGINE_STATES,
    TC!Rq!_OT_ENGINE_STATES, R2!Row, TC!Rq!Row, R2!NoRow, TC!Rq!NoRow, R2!vars, TC!Rq!vars, R2!outside, TC!Rq!outside,
    R2!Idle, TC!Rq!Idle, R2!Exists, TC!Rq!Exists, R2!state_step_index, TC!Rq!state_step_index, R2!step_pending_state,
    TC!Rq!step_pending_state, R2!ApproveAtOnce, TC!Rq!ApproveAtOnce, R2!next_state_after, TC!Rq!next_state_after,
    R2!step_holder_users, TC!Rq!step_holder_users, R2!approver_matches, TC!Rq!approver_matches, R2!_delegated_users,
    TC!Rq!_delegated_users, R2!_user_can_act, TC!Rq!_user_can_act, R2!SameKind, TC!Rq!SameKind, R2!DuplicateOfPending,
    TC!Rq!DuplicateOfPending, R2!_validate_no_duplicate, TC!Rq!_validate_no_duplicate, R2!_validate_lock_period,
    TC!Rq!_validate_lock_period, R2!Valid, TC!Rq!Valid, R2!Save, TC!Rq!Save, R2!CanStart, TC!Rq!CanStart, R2!Sent,
    TC!Rq!Sent, R2!submit_request, TC!Rq!submit_request, R2!update_request, TC!Rq!update_request, R2!cancel_request,
    TC!Rq!cancel_request, R2!submit_overtime_request, TC!Rq!submit_overtime_request, R2!submit_correction_request,
    TC!Rq!submit_correction_request, R2!update_overtime_request, TC!Rq!update_overtime_request,
    R2!update_correction_request, TC!Rq!update_correction_request, R2!cancel_overtime_request,
    TC!Rq!cancel_overtime_request, R2!cancel_correction_request, TC!Rq!cancel_correction_request, R2!MayDecide,
    TC!Rq!MayDecide, R2!NoJob, TC!Rq!NoJob, R2!_after_ot_state_change, TC!Rq!_after_ot_state_change,
    R2!approve_request, TC!Rq!approve_request, R2!reject_request, TC!Rq!reject_request, R2!return_request,
    TC!Rq!return_request, R2!delegate_request, TC!Rq!delegate_request, R2!_after_correction_state_change,
    TC!Rq!_after_correction_state_change, R2!Commit, TC!Rq!Commit, R2!Abort, TC!Rq!Abort, R2!get_approved_ot_requests,
    TC!Rq!get_approved_ot_requests, R2!RunJob, TC!Rq!RunJob, R2!Edit, TC!Rq!Edit, R2!save_approval_matrix,
    TC!Rq!save_approval_matrix, R2!save_delegation, TC!Rq!save_delegation, R2!delete_delegation,
    TC!Rq!delete_delegation, R2!Confirm, TC!Rq!Confirm, R2!LockDay, TC!Rq!LockDay, R2!DecideTicket,
    TC!Rq!DecideTicket, R2!Init, TC!Rq!Init, R2!Next, TC!Rq!Next, R2!Spec, TC!Rq!Spec, R2!TypeOK, TC!Rq!TypeOK,
    R2!StepsSigned, TC!Rq!StepsSigned, R2!OneOpenPerDay, TC!Rq!OneOpenPerDay, R2!OvertimeCounted,
    TC!Rq!OvertimeCounted, R2!ApproveAdvances, TC!Rq!ApproveAdvances, R2!HolderCanReject, TC!Rq!HolderCanReject,
    R2!CorrectionReplacesOut, TC!Rq!CorrectionReplacesOut, R2!Cardinality, TC!Rq!Cardinality, R2!IsFiniteSet,
    TC!Rq!IsFiniteSet
  <1>1. R2!Spec <=> TC!Rq!Spec
    BY PTL
  <1>2. []R2!TypeOK <=> []TC!Rq!TypeOK
    BY PTL
  <1>3. []R2!StepsSigned <=> []TC!Rq!StepsSigned
    BY PTL
  <1>4. []R2!OneOpenPerDay <=> []TC!Rq!OneOpenPerDay
    BY PTL
  <1>5. []R2!OvertimeCounted <=> []TC!Rq!OvertimeCounted
    BY PTL
  <1> QED BY <1>1, <1>2, <1>3, <1>4, <1>5

\* What the theorems assume of the constants (Lists) is so of this instance.
LEMMA CorrectionFits ==
  ASSUME Named
  PROVE  TC!Lists
  BY DEF TC!Lists

\* A behaviour of corrections is one of Requests, and has what is proved of it.
LEMMA CorrectionStory ==
  ASSUME Named
  PROVE  story = "Correction" /\ TimeSpec =>
            /\ [](story = "Correction")
            /\ []R2!TypeOK
            /\ []R2!StepsSigned
            /\ []R2!OneOpenPerDay
            /\ []R2!OvertimeCounted
  <1>1. story = "Correction" /\ TimeInit => R2!Init
    BY DEF TimeInit
  <1>2. story = "Correction" /\ [TimeNext]_vars => [R2!Next]_R2!vars /\ (story = "Correction")'
    BY DEF TimeNext, vars, R2!vars
  <1>3. story = "Correction" /\ TimeSpec => [](story = "Correction") /\ R2!Spec
    BY <1>1, <1>2, PTL DEF TimeSpec, R2!Spec
  <1>4. TC!Lists
    BY CorrectionFits
  <1>5. TC!Rq!Spec => []TC!Rq!TypeOK /\ []TC!Rq!StepsSigned /\ []TC!Rq!OneOpenPerDay /\ []TC!Rq!OvertimeCounted
    BY <1>4, TC!RequestsTyped, TC!EveryStepIsSigned, TC!OneRequestPerDay, TC!AllOvertimeCounted
  <1> QED BY <1>3, <1>5, CorrectionSame, PTL

\* Of requests: every step of the matrix is signed, an employee has one open request for a day, and the session counts
\* what was approved (approval.py, overtime.py, correction.py).
THEOREM RequestsKeptAlways ==
  ASSUME Named
  PROVE  TimeSpec => []RequestsKept
  <1> DEFINE Other == story \notin {"Overtime", "Correction"}
  <1>1. Other \/ story = "Overtime" \/ story = "Correction"
    OBVIOUS
  <1>2. Other /\ [TimeNext]_vars => Other'
    BY DEF TimeNext, vars
  <1>3. Other => RequestsKept
    BY DEF RequestsKept
  <1>4. story = "Overtime" /\ R!TypeOK /\ R!StepsSigned /\ R!OneOpenPerDay /\ R!OvertimeCounted => RequestsKept
    BY DEF RequestsKept
  <1>5. story = "Correction" /\ R2!TypeOK /\ R2!StepsSigned /\ R2!OneOpenPerDay /\ R2!OvertimeCounted => RequestsKept
    BY DEF RequestsKept
  <1> HIDE DEF Other
  <1> QED
    BY <1>1, <1>2, <1>3, <1>4, <1>5, OvertimeStory, CorrectionStory, PTL DEF TimeSpec

-----------------------------------------------------------------------------
(* The roster: of one employee, with HR's work in bulk and the screens, and of two who swap. *)
RA == INSTANCE RosterProofs WITH
  sa <- c1, inst <- c2, punch <- c3, sr <- c4, swap <- c5, today <- c6,
  Employees <- {w1}, Shifts <- Y, Clash <- Y \X Y, Assignments <- {1, 2, 3}, ShiftRequests <- {w2}, Swaps <- {},
  Bulks <- {}, LastDay <- 2, Horizon <- 1,
  Active <- {}, Nobody <- "-", Viewers <- {}, ReportsTo <- <<>>, OwnApprover <- <<>>, DeptApprover <- <<>>,
  LockedDays <- {}, OnLeave <- {}

\* The instances of Schedule here and in RosterProofs are one: their definitions come to the same.
LEMMA RosterSame ==
  /\ Roster!Spec <=> RA!Spec
  /\ []Roster!TypeOK <=> []RA!TypeOK
  /\ []Roster!NoDoubleBooking <=> []RA!NoDoubleBooking
  /\ []Roster!NoOrphanInstance <=> []RA!NoOrphanInstance
  <1>1. Roster!Spec <=> RA!Spec
    <2> USE DEF
      Roster!Days, RA!Days, Roster!vars, RA!vars, Roster!NoRow, RA!NoRow, Roster!NoInst, RA!NoInst, Roster!DB, RA!DB,
      Roster!Span, RA!Span, Roster!Applies, RA!Applies, Roster!Row, RA!Row, Roster!_shift_conflicts,
      RA!_shift_conflicts, Roster!Save, RA!Save, Roster!Insert, RA!Insert, Roster!Punched, RA!Punched,
      Roster!Instances, RA!Instances, Roster!Cancel, RA!Cancel, Roster!_check_overlap, RA!_check_overlap,
      Roster!_materialise_shift_instances, RA!_materialise_shift_instances, Roster!_create_shift_assignment_core,
      RA!_create_shift_assignment_core, Roster!Batch, RA!Batch, Roster!_override, RA!_override, Roster!Commit,
      RA!Commit, Roster!create_shift_assignment, RA!create_shift_assignment, Roster!bulk_create_shift_assignments,
      RA!bulk_create_shift_assignments, Roster!generate_recurring_shift_assignments,
      RA!generate_recurring_shift_assignments, Roster!copy_week_schedule, RA!copy_week_schedule,
      Roster!end_shift_assignment, RA!end_shift_assignment, Roster!update_shift_assignment,
      RA!update_shift_assignment, Roster!set_shift_assignment_status, RA!set_shift_assignment_status,
      Roster!bulk_end_shift_assignments, RA!bulk_end_shift_assignments, Roster!bulk_set_shift_assignment_status,
      RA!bulk_set_shift_assignment_status, Roster!amend_shift_assignment, RA!amend_shift_assignment,
      Roster!MayDelete, RA!MayDelete, Roster!delete_shift_assignment, RA!delete_shift_assignment,
      Roster!override_day_shift_assignment, RA!override_day_shift_assignment, Roster!SwapDays, RA!SwapDays,
      Roster!Exists, RA!Exists, Roster!swap_shift_days, RA!swap_shift_days, Roster!handle_employee_status_change,
      RA!handle_employee_status_change, Roster!set_shift_instance_status, RA!set_shift_instance_status,
      Roster!_assert_no_request_overlap, RA!_assert_no_request_overlap, Roster!NewRequest, RA!NewRequest,
      Roster!create_shift_request, RA!create_shift_request, Roster!create_my_shift_request,
      RA!create_my_shift_request, Roster!cancel_my_shift_request, RA!cancel_my_shift_request,
      Roster!approve_shift_request, RA!approve_shift_request, Roster!reject_shift_request, RA!reject_shift_request,
      Roster!create_swap_request, RA!create_swap_request, Roster!decide_swap_request, RA!decide_swap_request,
      Roster!generate_daily_shift_instances, RA!generate_daily_shift_instances, Roster!backfill_shift_instances,
      RA!backfill_shift_instances, Roster!CheckIn, RA!CheckIn, Roster!NextDay, RA!NextDay, Roster!Init, RA!Init,
      Roster!Assign, RA!Assign, Roster!Ask, RA!Ask, Roster!Next, RA!Next, Roster!Spec, RA!Spec, Roster!TypeOK,
      RA!TypeOK, Roster!NoDoubleBooking, RA!NoDoubleBooking, Roster!NoOrphanInstance, RA!NoOrphanInstance,
      Roster!Has, RA!Has, Roster!SwapIsWhole, RA!SwapIsWhole, Roster!ApprovedIsAssigned, RA!ApprovedIsAssigned,
      Roster!Cardinality, RA!Cardinality, Roster!IsFiniteSet, RA!IsFiniteSet, Roster!Min, RA!Min, Roster!Max, RA!Max,
      Roster!SetToSeqs, RA!SetToSeqs, Roster!FoldLeft, RA!FoldLeft, Roster!MapThenFoldSet, RA!MapThenFoldSet
    <2> QED BY PTL
  <1> USE DEF
    Roster!TypeOK, RA!TypeOK, Roster!NoDoubleBooking, RA!NoDoubleBooking, Roster!NoOrphanInstance,
    RA!NoOrphanInstance, Roster!Days, RA!Days, Roster!NoRow, RA!NoRow, Roster!NoInst, RA!NoInst, Roster!Span,
    RA!Span, Roster!Applies, RA!Applies, Roster!Exists, RA!Exists
  <1>2. []Roster!TypeOK <=> []RA!TypeOK
    BY PTL
  <1>3. []Roster!NoDoubleBooking <=> []RA!NoDoubleBooking
    BY PTL
  <1>4. []Roster!NoOrphanInstance <=> []RA!NoOrphanInstance
    BY PTL
  <1> QED BY <1>1, <1>2, <1>3, <1>4, PTL

\* What the theorems assume of the constants (RosterPlan) is so of this instance.
LEMMA RosterFits ==
  ASSUME Named
  PROVE  RA!RosterPlan
  <1>1. IsFiniteSet({1, 2, 3}) /\ IsFiniteSet({w1}) /\ {1, 2, 3} \subseteq Nat \ {0} /\ 2 \in Nat \ {0}
    <2>1. IsFiniteSet({1, 2} \cup {3})
      BY Sizes, FS_AddElement
    <2>2. {1, 2} \cup {3} = {1, 2, 3}
      OBVIOUS
    <2>3. IsFiniteSet({w1})
      BY FS_Singleton
    <2> QED BY <2>1, <2>2, <2>3
  <1>2. RA!IsFiniteSet({1, 2, 3}) /\ RA!IsFiniteSet({w1})
    BY <1>1 DEF RA!IsFiniteSet, IsFiniteSet
  <1>3. RA!RosterPlan
    BY <1>1, <1>2 DEF RA!RosterPlan
  <1> QED BY <1>3

\* A behaviour of the shifts of one employee is one of Schedule, and has what is proved of it.
LEMMA RosterStory ==
  ASSUME Named
  PROVE  story = "Roster" /\ TimeSpec =>
            /\ [](story = "Roster")
            /\ []Roster!TypeOK
            /\ []Roster!NoDoubleBooking
            /\ []Roster!NoOrphanInstance
  <1>1. story = "Roster" /\ TimeInit => Roster!Init
    BY DEF TimeInit
  <1>2. story = "Roster" /\ [TimeNext]_vars => [Roster!Next]_Roster!vars /\ (story = "Roster")'
    BY DEF TimeNext, vars, Roster!vars
  <1>3. story = "Roster" /\ TimeSpec => [](story = "Roster") /\ Roster!Spec
    BY <1>1, <1>2, PTL DEF TimeSpec, Roster!Spec
  <1>4. RA!RosterPlan
    BY RosterFits
  <1>5. RA!Spec => []RA!TypeOK /\ []RA!NoDoubleBooking /\ []RA!NoOrphanInstance
    BY <1>4, RA!RosterTyped, RA!NobodyBookedTwice, RA!NoInstanceOrphaned
  <1> QED BY <1>3, <1>5, RosterSame, PTL

RB == INSTANCE RosterProofs WITH
  sa <- c1, inst <- c2, punch <- c3, sr <- c4, swap <- c5, today <- c6,
  Employees <- {w1}, Shifts <- Y, Clash <- Y \X Y, Assignments <- {1, 2}, ShiftRequests <- {z1}, Swaps <- {},
  Bulks <- {{2}}, LastDay <- 2, Horizon <- 1, Active <- {w1}, Nobody <- "-",
  Viewers <- {Viewer(hr, "-", {"HR User"}), Viewer(boss, boss, {"Line Manager"}), Viewer(w1, w1, {"Employee"})},
  ReportsTo <- [e \in {w1} |-> boss], OwnApprover <- [e \in {w1, boss} |-> "-"],
  DeptApprover <- [e \in {w1, boss} |-> w2], LockedDays <- {}, OnLeave <- {<<w1, 2>>}

\* The instances of RosterScreen here and in RosterProofs are one: their definitions come to the same.
LEMMA BulkSame ==
  /\ Bulk!Spec <=> RB!Spec
  /\ []Bulk!TypeOK <=> []RB!TypeOK
  /\ []Bulk!NoDoubleBooking <=> []RB!NoDoubleBooking
  /\ []Bulk!NoOrphanInstance <=> []RB!NoOrphanInstance
  <1>1. Bulk!Spec <=> RB!Spec
    <2> USE DEF
      Bulk!Days, RB!Days, Bulk!vars, RB!vars, Bulk!NoRow, RB!NoRow, Bulk!NoInst, RB!NoInst, Bulk!DB, RB!DB,
      Bulk!Span, RB!Span, Bulk!Applies, RB!Applies, Bulk!Row, RB!Row, Bulk!_shift_conflicts, RB!_shift_conflicts,
      Bulk!Save, RB!Save, Bulk!Insert, RB!Insert, Bulk!Punched, RB!Punched, Bulk!Instances, RB!Instances,
      Bulk!Cancel, RB!Cancel, Bulk!_check_overlap, RB!_check_overlap, Bulk!_materialise_shift_instances,
      RB!_materialise_shift_instances, Bulk!_create_shift_assignment_core, RB!_create_shift_assignment_core,
      Bulk!Batch, RB!Batch, Bulk!_override, RB!_override, Bulk!Commit, RB!Commit, Bulk!create_shift_assignment,
      RB!create_shift_assignment, Bulk!bulk_create_shift_assignments, RB!bulk_create_shift_assignments,
      Bulk!generate_recurring_shift_assignments, RB!generate_recurring_shift_assignments, Bulk!copy_week_schedule,
      RB!copy_week_schedule, Bulk!end_shift_assignment, RB!end_shift_assignment, Bulk!update_shift_assignment,
      RB!update_shift_assignment, Bulk!set_shift_assignment_status, RB!set_shift_assignment_status,
      Bulk!bulk_end_shift_assignments, RB!bulk_end_shift_assignments, Bulk!bulk_set_shift_assignment_status,
      RB!bulk_set_shift_assignment_status, Bulk!amend_shift_assignment, RB!amend_shift_assignment, Bulk!MayDelete,
      RB!MayDelete, Bulk!delete_shift_assignment, RB!delete_shift_assignment, Bulk!override_day_shift_assignment,
      RB!override_day_shift_assignment, Bulk!SwapDays, RB!SwapDays, Bulk!Exists, RB!Exists, Bulk!swap_shift_days,
      RB!swap_shift_days, Bulk!handle_employee_status_change, RB!handle_employee_status_change,
      Bulk!set_shift_instance_status, RB!set_shift_instance_status, Bulk!_assert_no_request_overlap,
      RB!_assert_no_request_overlap, Bulk!NewRequest, RB!NewRequest, Bulk!create_shift_request,
      RB!create_shift_request, Bulk!create_my_shift_request, RB!create_my_shift_request,
      Bulk!cancel_my_shift_request, RB!cancel_my_shift_request, Bulk!approve_shift_request, RB!approve_shift_request,
      Bulk!reject_shift_request, RB!reject_shift_request, Bulk!create_swap_request, RB!create_swap_request,
      Bulk!decide_swap_request, RB!decide_swap_request, Bulk!generate_daily_shift_instances,
      RB!generate_daily_shift_instances, Bulk!backfill_shift_instances, RB!backfill_shift_instances, Bulk!CheckIn,
      RB!CheckIn, Bulk!NextDay, RB!NextDay, Bulk!Init, RB!Init, Bulk!Assign, RB!Assign, Bulk!Ask, RB!Ask, Bulk!Next,
      RB!Next, Bulk!Spec, RB!Spec, Bulk!TypeOK, RB!TypeOK, Bulk!NoDoubleBooking, RB!NoDoubleBooking,
      Bulk!NoOrphanInstance, RB!NoOrphanInstance, Bulk!Has, RB!Has, Bulk!SwapIsWhole, RB!SwapIsWhole,
      Bulk!ApprovedIsAssigned, RB!ApprovedIsAssigned, Bulk!Cardinality, RB!Cardinality, Bulk!IsFiniteSet,
      RB!IsFiniteSet, Bulk!Min, RB!Min, Bulk!Max, RB!Max, Bulk!SetToSeqs, RB!SetToSeqs, Bulk!FoldLeft, RB!FoldLeft,
      Bulk!MapThenFoldSet, RB!MapThenFoldSet
    <2> QED BY PTL
  <1> USE DEF
    Bulk!TypeOK, RB!TypeOK, Bulk!NoDoubleBooking, RB!NoDoubleBooking, Bulk!NoOrphanInstance, RB!NoOrphanInstance,
    Bulk!Days, RB!Days, Bulk!NoRow, RB!NoRow, Bulk!NoInst, RB!NoInst, Bulk!Span, RB!Span, Bulk!Applies, RB!Applies,
    Bulk!Exists, RB!Exists
  <1>2. []Bulk!TypeOK <=> []RB!TypeOK
    BY PTL
  <1>3. []Bulk!NoDoubleBooking <=> []RB!NoDoubleBooking
    BY PTL
  <1>4. []Bulk!NoOrphanInstance <=> []RB!NoOrphanInstance
    BY PTL
  <1> QED BY <1>1, <1>2, <1>3, <1>4, PTL

LEMMA ScreenSame ==
  []Bulk!ScreenKept <=> []RB!ScreenKept
  <1> USE DEF
    Bulk!Days, RB!Days, Bulk!vars, RB!vars, Bulk!NoRow, RB!NoRow, Bulk!NoInst, RB!NoInst, Bulk!DB, RB!DB,
    Bulk!Span, RB!Span, Bulk!Applies, RB!Applies, Bulk!Row, RB!Row, Bulk!_shift_conflicts, RB!_shift_conflicts,
    Bulk!Save, RB!Save, Bulk!Insert, RB!Insert, Bulk!Punched, RB!Punched, Bulk!Instances, RB!Instances,
    Bulk!Cancel, RB!Cancel, Bulk!_check_overlap, RB!_check_overlap, Bulk!_materialise_shift_instances,
    RB!_materialise_shift_instances, Bulk!_create_shift_assignment_core, RB!_create_shift_assignment_core,
    Bulk!Batch, RB!Batch, Bulk!_override, RB!_override, Bulk!Commit, RB!Commit, Bulk!create_shift_assignment,
    RB!create_shift_assignment, Bulk!bulk_create_shift_assignments, RB!bulk_create_shift_assignments,
    Bulk!generate_recurring_shift_assignments, RB!generate_recurring_shift_assignments, Bulk!copy_week_schedule,
    RB!copy_week_schedule, Bulk!end_shift_assignment, RB!end_shift_assignment, Bulk!update_shift_assignment,
    RB!update_shift_assignment, Bulk!set_shift_assignment_status, RB!set_shift_assignment_status,
    Bulk!bulk_end_shift_assignments, RB!bulk_end_shift_assignments, Bulk!bulk_set_shift_assignment_status,
    RB!bulk_set_shift_assignment_status, Bulk!amend_shift_assignment, RB!amend_shift_assignment, Bulk!MayDelete,
    RB!MayDelete, Bulk!delete_shift_assignment, RB!delete_shift_assignment, Bulk!override_day_shift_assignment,
    RB!override_day_shift_assignment, Bulk!SwapDays, RB!SwapDays, Bulk!Exists, RB!Exists, Bulk!swap_shift_days,
    RB!swap_shift_days, Bulk!handle_employee_status_change, RB!handle_employee_status_change,
    Bulk!set_shift_instance_status, RB!set_shift_instance_status, Bulk!_assert_no_request_overlap,
    RB!_assert_no_request_overlap, Bulk!NewRequest, RB!NewRequest, Bulk!create_shift_request,
    RB!create_shift_request, Bulk!create_my_shift_request, RB!create_my_shift_request,
    Bulk!cancel_my_shift_request, RB!cancel_my_shift_request, Bulk!approve_shift_request, RB!approve_shift_request,
    Bulk!reject_shift_request, RB!reject_shift_request, Bulk!create_swap_request, RB!create_swap_request,
    Bulk!decide_swap_request, RB!decide_swap_request, Bulk!generate_daily_shift_instances,
    RB!generate_daily_shift_instances, Bulk!backfill_shift_instances, RB!backfill_shift_instances, Bulk!CheckIn,
    RB!CheckIn, Bulk!NextDay, RB!NextDay, Bulk!Init, RB!Init, Bulk!Assign, RB!Assign, Bulk!Ask, RB!Ask, Bulk!Next,
    RB!Next, Bulk!Spec, RB!Spec, Bulk!TypeOK, RB!TypeOK, Bulk!NoDoubleBooking, RB!NoDoubleBooking,
    Bulk!NoOrphanInstance, RB!NoOrphanInstance, Bulk!Has, RB!Has, Bulk!SwapIsWhole, RB!SwapIsWhole,
    Bulk!ApprovedIsAssigned, RB!ApprovedIsAssigned, Bulk!HR_ADMIN_ROLES, RB!HR_ADMIN_ROLES,
    Bulk!SCHEDULE_EDITOR_ROLES, RB!SCHEDULE_EDITOR_ROLES, Bulk!SCHEDULE_MANAGER_ROLES, RB!SCHEDULE_MANAGER_ROLES,
    Bulk!Holds, RB!Holds, Bulk!_is_schedule_manager, RB!_is_schedule_manager, Bulk!_assert_can_view_employee,
    RB!_assert_can_view_employee, Bulk!is_hr, RB!is_hr, Bulk!_team_scope_members, RB!_team_scope_members,
    Bulk!LineManagerOf, RB!LineManagerOf, Bulk!_require_schedule_editor_for, RB!_require_schedule_editor_for,
    Bulk!_require_schedule_approver_for, RB!_require_schedule_approver_for, Bulk!_resolve_shift_approver,
    RB!_resolve_shift_approver, Bulk!my_schedule, RB!my_schedule, Bulk!team_schedule, RB!team_schedule,
    Bulk!team_schedule_ics, RB!team_schedule_ics, Bulk!Drafts, RB!Drafts, Bulk!NoDay, RB!NoDay,
    Bulk!_grid_cell_can, RB!_grid_cell_can, Bulk!Cells, RB!Cells, Bulk!Gaps, RB!Gaps, Bulk!Rows, RB!Rows,
    Bulk!team_schedule_grid, RB!team_schedule_grid, Bulk!team_schedule_export, RB!team_schedule_export,
    Bulk!team_schedule_context, RB!team_schedule_context, Bulk!schedule_context, RB!schedule_context,
    Bulk!my_shift_requests, RB!my_shift_requests, Bulk!list_shift_requests, RB!list_shift_requests,
    Bulk!_shift_display_status, RB!_shift_display_status, Bulk!Listed, RB!Listed, Bulk!Bucket, RB!Bucket,
    Bulk!_shift_assignment_summary, RB!_shift_assignment_summary, Bulk!list_shift_assignments,
    RB!list_shift_assignments, Bulk!assigned_employees, RB!assigned_employees, Bulk!get_shift_assignment_can,
    RB!get_shift_assignment_can, Bulk!check_schedule_conflicts, RB!check_schedule_conflicts, Bulk!Outcomes,
    RB!Outcomes, Bulk!OfferedAssignmentStays, RB!OfferedAssignmentStays, Bulk!Passes, RB!Passes,
    Bulk!OfferedIsAllowed, RB!OfferedIsAllowed, Bulk!NothingHidden, RB!NothingHidden, Bulk!ListsAgree,
    RB!ListsAgree, Bulk!ScreenKept, RB!ScreenKept, Bulk!PreviewIsWhole, RB!PreviewIsWhole, Bulk!GridIsCalendar,
    RB!GridIsCalendar, Bulk!EndHasAssignment, RB!EndHasAssignment, Bulk!CancelIsPossible, RB!CancelIsPossible,
    Bulk!BadgeAgrees, RB!BadgeAgrees, Bulk!Cardinality, RB!Cardinality, Bulk!IsFiniteSet, RB!IsFiniteSet, Bulk!Min,
    RB!Min, Bulk!Max, RB!Max, Bulk!SetToSeqs, RB!SetToSeqs, Bulk!FoldLeft, RB!FoldLeft, Bulk!MapThenFoldSet,
    RB!MapThenFoldSet
  <1> QED BY PTL

\* What the theorems assume of the constants (RosterPlan, RosterScreens) is so of this instance.
LEMMA BulkFits ==
  ASSUME Named
  PROVE  RB!RosterPlan /\ RB!RosterScreens
  <1>1. IsFiniteSet({1, 2}) /\ IsFiniteSet({w1}) /\ {1, 2} \subseteq Nat \ {0} /\ 2 \in Nat \ {0}
    <2>1. IsFiniteSet({1, 2})
      BY Sizes
    <2>2. IsFiniteSet({w1})
      BY FS_Singleton
    <2> QED BY <2>1, <2>2
  <1>2. RB!IsFiniteSet({1, 2}) /\ RB!IsFiniteSet({w1})
    BY <1>1 DEF RB!IsFiniteSet, IsFiniteSet
  <1>3. RB!RosterPlan
    BY <1>1, <1>2 DEF RB!RosterPlan
  <1>4. RB!RosterScreens
    BY DEF RB!RosterScreens, Named, Y
  <1> QED BY <1>3, <1>4

\* A behaviour of shifts HR works on in bulk is one of RosterScreen, and has what is proved of it.
LEMMA BulkStory ==
  ASSUME Named
  PROVE  story = "Bulk" /\ TimeSpec =>
            /\ [](story = "Bulk")
            /\ []Bulk!TypeOK
            /\ []Bulk!NoDoubleBooking
            /\ []Bulk!NoOrphanInstance
            /\ []Bulk!ScreenKept
  <1>1. story = "Bulk" /\ TimeInit => Bulk!Init
    BY DEF TimeInit
  <1>2. story = "Bulk" /\ [TimeNext]_vars => [Bulk!Next]_Bulk!vars /\ (story = "Bulk")'
    BY DEF TimeNext, vars, Bulk!vars
  <1>3. story = "Bulk" /\ TimeSpec => [](story = "Bulk") /\ Bulk!Spec
    BY <1>1, <1>2, PTL DEF TimeSpec, Bulk!Spec
  <1>4. RB!RosterPlan /\ RB!RosterScreens
    BY BulkFits
  <1>5. RB!Spec => []RB!TypeOK /\ []RB!NoDoubleBooking /\ []RB!NoOrphanInstance /\ []RB!ScreenKept
    BY <1>4, RB!RosterTyped, RB!NobodyBookedTwice, RB!NoInstanceOrphaned, RB!ScreensKeep
  <1> QED BY <1>3, <1>5, BulkSame, ScreenSame, PTL

RC == INSTANCE RosterProofs WITH
  sa <- c1, inst <- c2, punch <- c3, sr <- c4, swap <- c5, today <- c6,
  Employees <- X, Shifts <- Y, Clash <- Y \X Y, Assignments <- {1, 2}, ShiftRequests <- {}, Swaps <- {w1},
  Bulks <- {}, LastDay <- 2, Horizon <- 1,
  Active <- {}, Nobody <- "-", Viewers <- {}, ReportsTo <- <<>>, OwnApprover <- <<>>, DeptApprover <- <<>>,
  LockedDays <- {}, OnLeave <- {}

\* The instances of Schedule here and in RosterProofs are one: their definitions come to the same.
LEMMA SwapSame ==
  /\ Swap!Spec <=> RC!Spec
  /\ []Swap!TypeOK <=> []RC!TypeOK
  /\ []Swap!NoDoubleBooking <=> []RC!NoDoubleBooking
  /\ []Swap!NoOrphanInstance <=> []RC!NoOrphanInstance
  <1>1. Swap!Spec <=> RC!Spec
    <2> USE DEF
      Swap!Days, RC!Days, Swap!vars, RC!vars, Swap!NoRow, RC!NoRow, Swap!NoInst, RC!NoInst, Swap!DB, RC!DB,
      Swap!Span, RC!Span, Swap!Applies, RC!Applies, Swap!Row, RC!Row, Swap!_shift_conflicts, RC!_shift_conflicts,
      Swap!Save, RC!Save, Swap!Insert, RC!Insert, Swap!Punched, RC!Punched, Swap!Instances, RC!Instances,
      Swap!Cancel, RC!Cancel, Swap!_check_overlap, RC!_check_overlap, Swap!_materialise_shift_instances,
      RC!_materialise_shift_instances, Swap!_create_shift_assignment_core, RC!_create_shift_assignment_core,
      Swap!Batch, RC!Batch, Swap!_override, RC!_override, Swap!Commit, RC!Commit, Swap!create_shift_assignment,
      RC!create_shift_assignment, Swap!bulk_create_shift_assignments, RC!bulk_create_shift_assignments,
      Swap!generate_recurring_shift_assignments, RC!generate_recurring_shift_assignments, Swap!copy_week_schedule,
      RC!copy_week_schedule, Swap!end_shift_assignment, RC!end_shift_assignment, Swap!update_shift_assignment,
      RC!update_shift_assignment, Swap!set_shift_assignment_status, RC!set_shift_assignment_status,
      Swap!bulk_end_shift_assignments, RC!bulk_end_shift_assignments, Swap!bulk_set_shift_assignment_status,
      RC!bulk_set_shift_assignment_status, Swap!amend_shift_assignment, RC!amend_shift_assignment, Swap!MayDelete,
      RC!MayDelete, Swap!delete_shift_assignment, RC!delete_shift_assignment, Swap!override_day_shift_assignment,
      RC!override_day_shift_assignment, Swap!SwapDays, RC!SwapDays, Swap!Exists, RC!Exists, Swap!swap_shift_days,
      RC!swap_shift_days, Swap!handle_employee_status_change, RC!handle_employee_status_change,
      Swap!set_shift_instance_status, RC!set_shift_instance_status, Swap!_assert_no_request_overlap,
      RC!_assert_no_request_overlap, Swap!NewRequest, RC!NewRequest, Swap!create_shift_request,
      RC!create_shift_request, Swap!create_my_shift_request, RC!create_my_shift_request,
      Swap!cancel_my_shift_request, RC!cancel_my_shift_request, Swap!approve_shift_request, RC!approve_shift_request,
      Swap!reject_shift_request, RC!reject_shift_request, Swap!create_swap_request, RC!create_swap_request,
      Swap!decide_swap_request, RC!decide_swap_request, Swap!generate_daily_shift_instances,
      RC!generate_daily_shift_instances, Swap!backfill_shift_instances, RC!backfill_shift_instances, Swap!CheckIn,
      RC!CheckIn, Swap!NextDay, RC!NextDay, Swap!Init, RC!Init, Swap!Assign, RC!Assign, Swap!Ask, RC!Ask, Swap!Next,
      RC!Next, Swap!Spec, RC!Spec, Swap!TypeOK, RC!TypeOK, Swap!NoDoubleBooking, RC!NoDoubleBooking,
      Swap!NoOrphanInstance, RC!NoOrphanInstance, Swap!Has, RC!Has, Swap!SwapIsWhole, RC!SwapIsWhole,
      Swap!ApprovedIsAssigned, RC!ApprovedIsAssigned, Swap!Cardinality, RC!Cardinality, Swap!IsFiniteSet,
      RC!IsFiniteSet, Swap!Min, RC!Min, Swap!Max, RC!Max, Swap!SetToSeqs, RC!SetToSeqs, Swap!FoldLeft, RC!FoldLeft,
      Swap!MapThenFoldSet, RC!MapThenFoldSet
    <2> QED BY PTL
  <1> USE DEF
    Swap!TypeOK, RC!TypeOK, Swap!NoDoubleBooking, RC!NoDoubleBooking, Swap!NoOrphanInstance, RC!NoOrphanInstance,
    Swap!Days, RC!Days, Swap!NoRow, RC!NoRow, Swap!NoInst, RC!NoInst, Swap!Span, RC!Span, Swap!Applies, RC!Applies,
    Swap!Exists, RC!Exists
  <1>2. []Swap!TypeOK <=> []RC!TypeOK
    BY PTL
  <1>3. []Swap!NoDoubleBooking <=> []RC!NoDoubleBooking
    BY PTL
  <1>4. []Swap!NoOrphanInstance <=> []RC!NoOrphanInstance
    BY PTL
  <1> QED BY <1>1, <1>2, <1>3, <1>4, PTL

\* What the theorems assume of the constants (RosterPlan) is so of this instance.
LEMMA SwapFits ==
  ASSUME Named
  PROVE  RC!RosterPlan
  <1>1. IsFiniteSet({1, 2}) /\ IsFiniteSet(X) /\ {1, 2} \subseteq Nat \ {0} /\ 2 \in Nat \ {0}
    <2>1. IsFiniteSet({1, 2})
      BY Sizes
    <2>2. IsFiniteSet(X)
      BY Sizes
    <2> QED BY <2>1, <2>2
  <1>2. RC!IsFiniteSet({1, 2}) /\ RC!IsFiniteSet(X)
    BY <1>1 DEF RC!IsFiniteSet, IsFiniteSet
  <1>3. RC!RosterPlan
    BY <1>1, <1>2 DEF RC!RosterPlan
  <1> QED BY <1>3

\* A behaviour of swaps is one of Schedule, and has what is proved of it.
LEMMA SwapStory ==
  ASSUME Named
  PROVE  story = "Swap" /\ TimeSpec =>
            /\ [](story = "Swap")
            /\ []Swap!TypeOK
            /\ []Swap!NoDoubleBooking
            /\ []Swap!NoOrphanInstance
  <1>1. story = "Swap" /\ TimeInit => Swap!Init
    BY DEF TimeInit
  <1>2. story = "Swap" /\ [TimeNext]_vars => [Swap!Next]_Swap!vars /\ (story = "Swap")'
    BY DEF TimeNext, vars, Swap!vars
  <1>3. story = "Swap" /\ TimeSpec => [](story = "Swap") /\ Swap!Spec
    BY <1>1, <1>2, PTL DEF TimeSpec, Swap!Spec
  <1>4. RC!RosterPlan
    BY SwapFits
  <1>5. RC!Spec => []RC!TypeOK /\ []RC!NoDoubleBooking /\ []RC!NoOrphanInstance
    BY <1>4, RC!RosterTyped, RC!NobodyBookedTwice, RC!NoInstanceOrphaned
  <1> QED BY <1>3, <1>5, SwapSame, PTL

\* Nobody is booked twice, no instance is without its assignment, and what the screens offer can be done, at any
\* number of requests, swaps and days taken out (admin.py, shift.py).
THEOREM RosterKeptAlways ==
  ASSUME Named
  PROVE  TimeSpec => []RosterKept
  <1> DEFINE Other == story \notin {"Roster", "Bulk", "Swap"}
  <1>1. Other \/ story = "Roster" \/ story = "Bulk" \/ story = "Swap"
    OBVIOUS
  <1>2. Other /\ [TimeNext]_vars => Other'
    BY DEF TimeNext, vars
  <1>3. Other => RosterKept
    BY DEF RosterKept
  <1>4. story = "Roster" /\ Roster!TypeOK /\ Roster!NoDoubleBooking /\ Roster!NoOrphanInstance => RosterKept
    BY DEF RosterKept
  <1>5. story = "Bulk" /\ Bulk!TypeOK /\ Bulk!NoDoubleBooking /\ Bulk!NoOrphanInstance /\ Bulk!ScreenKept => RosterKept
    BY DEF RosterKept
  <1>6. story = "Swap" /\ Swap!TypeOK /\ Swap!NoDoubleBooking /\ Swap!NoOrphanInstance => RosterKept
    BY DEF RosterKept
  <1> HIDE DEF Other
  <1> QED
    BY <1>1, <1>2, <1>3, <1>4, <1>5, <1>6, RosterStory, BulkStory, SwapStory, PTL DEF TimeSpec
=============================================================================
