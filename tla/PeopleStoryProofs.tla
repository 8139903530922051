-------------------------- MODULE PeopleStoryProofs --------------------------
(* What the run of the people side checks, for every choice of its names: each behaviour of MCPeople is one of a
component, whose theorems, of PeopleProofs, are about any number of rows.  The run leaves out the states beyond its
bounds; here all of them count. *)
EXTENDS MCPeople, FiniteSetTheorems, TLAPS

PP == INSTANCE PeopleProofs WITH
  Employees <- X, Days <- {1, 2}, Requests <- Z, Overlaps <- BOOLEAN, Faults <- BOOLEAN,
  Leaves <- X, Cancels <- Y, Tasks <- {w1}, Allocated <- 1, Docs <- X, Kinds <- AllKinds, Amounts <- {1, 2},
  Structures <- {w1}, Slots <- Y, Periods <- Z, Bases <- {0, 1},
  Policies <- Z, LeavePeriods <- {w1}, LeaveTypes <- {w2},
  Rules <- X, Applied <- {w1}, Branches <- {"north", "south"}, RuleTypes <- {"annual", "unpaid"}, Forms <- AllForms,
  PageSize <- 3, Onboardings <- {w1}, Templates <- Y, People <- X, Rows <- {1, 2},
  Openings <- X, Applicants <- {w1}, Rounds <- Y, Staff <- X \cup {w1},
  Users <- X, Holders <- Y, PORTAL_ROLES <- {"Employee", "HR"}, ProfileRoles <- {"HR"},
  req <- c5, held <- c7, overlap <- c8, faulty <- c9, leave <- c1, ledger <- c2, cr <- c3, task <- c4,
  kind <- c1, doc <- c2, structure <- c1, ssa <- c2, mode <- c3, period <- c4, used <- c5, report <- c6,
  policy <- c1, assignment <- c2, granted <- c3, rule <- c2, waived <- c3, template <- c1, ob <- c2, todo <- c3,
  opening <- c1, applicant <- c2, interview <- c3, offer <- c4, onboarded <- c5,
  emp <- c1, shift <- c2, day <- c3, draft <- c4, user <- c1, link <- c2, asked <- c4

\* The names of rows and people are not words of the program.
Named == \A n \in {"None", "Nobody", "period"} : n \notin {x1, x2, y1, y2, w1}

\* The pairs are finite sets.
LEMMA Sizes ==
  /\ \A s : PP!IsFiniteSet(s) <=> IsFiniteSet(s)
  /\ \A s : PP!Cardinality(s) = Cardinality(s)
  /\ IsFiniteSet(X) /\ IsFiniteSet(Y) /\ IsFiniteSet(X \cup {w1}) /\ IsFiniteSet({1, 2}) /\ Cardinality(X) \in {1, 2}
  <1>1. \A s : PP!IsFiniteSet(s) <=> IsFiniteSet(s)
    BY DEF PP!IsFiniteSet, IsFiniteSet
  <1>2. \A s : PP!Cardinality(s) = Cardinality(s)
    BY DEF PP!Cardinality, Cardinality
  <1>3. \A a, b : IsFiniteSet({a, b}) /\ Cardinality({a, b}) \in {1, 2}
    <2> SUFFICES ASSUME NEW a, NEW b PROVE IsFiniteSet({a, b}) /\ Cardinality({a, b}) \in {1, 2}
      OBVIOUS
    <2>1. IsFiniteSet({a}) /\ Cardinality({a}) = 1
      BY FS_Singleton
    <2>2. IsFiniteSet({a} \cup {b}) /\ Cardinality({a} \cup {b}) \in {1, 2}
      BY <2>1, FS_AddElement
    <2>3. {a, b} = {a} \cup {b}
      OBVIOUS
    <2> QED BY <2>2, <2>3
  <1>4. IsFiniteSet(X) /\ IsFiniteSet(Y) /\ IsFiniteSet({1, 2}) /\ Cardinality(X) \in {1, 2}
    BY <1>3 DEF X, Y
  <1>5. IsFiniteSet(X \cup {w1})
    BY <1>4, FS_AddElement
  <1> QED BY <1>1, <1>2, <1>4, <1>5

-----------------------------------------------------------------------------
(* The people side. *)

\* The instances of Leave here and in PeopleProofs are one: their definitions come to the same.
LEMMA LeaveSame ==
  /\ L!Spec <=> PP!Lv!Spec
  /\ []L!TypeOK <=> []PP!Lv!TypeOK
  /\ []L!BalanceKept <=> []PP!Lv!BalanceKept
  /\ []L!OneOpenCancellation <=> []PP!Lv!OneOpenCancellation
  /\ [][L!Stands]_L!vars <=> PP!Lv!DecisionStands
  <1> USE DEF
    L!vars, PP!Lv!vars, L!NoLeave, PP!Lv!NoLeave, L!NoCancel, PP!Lv!NoCancel, L!NoTask, PP!Lv!NoTask, L!Idle,
    PP!Lv!Idle, L!Names, PP!Lv!Names, L!LeaveStates, PP!Lv!LeaveStates, L!OpenCancellation, PP!Lv!OpenCancellation,
    L!HANDOVER_STATUSES, PP!Lv!HANDOVER_STATUSES, L!Used, PP!Lv!Used, L!Live, PP!Lv!Live, L!NoSharedDay,
    PP!Lv!NoSharedDay, L!Unvalidated, PP!Lv!Unvalidated, L!Validate, PP!Lv!Validate, L!SavesAnyway, PP!Lv!SavesAnyway,
    L!Saves, PP!Lv!Saves, L!Linkable, PP!Lv!Linkable, L!Unlinked, PP!Lv!Unlinked, L!Begin, PP!Lv!Begin, L!Runs,
    PP!Lv!Runs, L!Commits, PP!Lv!Commits, L!Abort, PP!Lv!Abort, L!apply, PP!Lv!apply, L!update_draft,
    PP!Lv!update_draft, L!Deletes, PP!Lv!Deletes, L!cancel_draft_or_pending, PP!Lv!cancel_draft_or_pending,
    L!delete_draft, PP!Lv!delete_draft, L!PendingRequest, PP!Lv!PendingRequest, L!_open_cancellation_request,
    PP!Lv!_open_cancellation_request, L!request_cancellation, PP!Lv!request_cancellation, L!_maybe_mint_handover,
    PP!Lv!_maybe_mint_handover, L!_approve_one, PP!Lv!_approve_one, L!bulk_approve_leave_applications,
    PP!Lv!bulk_approve_leave_applications, L!_reject_one, PP!Lv!_reject_one, L!_cancel_linked_leave,
    PP!Lv!_cancel_linked_leave, L!Recalculated, PP!Lv!Recalculated, L!_approve_cancellation_one,
    PP!Lv!_approve_cancellation_one, L!SaveCancellation, PP!Lv!SaveCancellation, L!_reject_cancellation_one,
    PP!Lv!_reject_cancellation_one, L!return_request, PP!Lv!return_request, L!create_handover, PP!Lv!create_handover,
    L!update_handover, PP!Lv!update_handover, L!ALLOWED_TRANSITIONS, PP!Lv!ALLOWED_TRANSITIONS, L!can_transition,
    PP!Lv!can_transition, L!update_handover_status, PP!Lv!update_handover_status, L!delete_handover,
    PP!Lv!delete_handover, L!Init, PP!Lv!Init, L!Next, PP!Lv!Next, L!Spec, PP!Lv!Spec, L!TypeOK, PP!Lv!TypeOK,
    L!BalanceKept, PP!Lv!BalanceKept, L!AllocationKept, PP!Lv!AllocationKept, L!OneOpenCancellation,
    PP!Lv!OneOpenCancellation, L!Stands, PP!Lv!Stands, L!DecisionStands, PP!Lv!DecisionStands,
    L!ApprovedCancellationHolds, PP!Lv!ApprovedCancellationHolds, L!LedgerHasLeave, PP!Lv!LedgerHasLeave,
    L!Cardinality, PP!Lv!Cardinality, L!IsFiniteSet, PP!Lv!IsFiniteSet
  <1>1. L!Spec <=> PP!Lv!Spec
    BY PTL
  <1>2. []L!TypeOK <=> []PP!Lv!TypeOK
    BY PTL
  <1>3. []L!BalanceKept <=> []PP!Lv!BalanceKept
    BY PTL
  <1>4. []L!OneOpenCancellation <=> []PP!Lv!OneOpenCancellation
    BY PTL
  <1>5. [][L!Stands]_L!vars <=> PP!Lv!DecisionStands
    BY PTL
  <1> QED BY <1>1, <1>2, <1>3, <1>4, <1>5

\* What the theorems assume of the constants (LeaveAmounts) is so of this instance.
LEMMA LeaveFits ==
  ASSUME Named
  PROVE  PP!LeaveAmounts
  BY Sizes DEF Named, PP!LeaveAmounts, X, Y, AllKinds, AllForms, Form, PP!Bo!Every, PP!Li!Nobody, PP!Bo!BLACKOUT_ACTIONS

\* A behaviour of leaves is one of Leave, and has what is proved of it.
LEMMA LeaveStory ==
  ASSUME Named
  PROVE  story = "Leave" /\ PeopleSpec =>
            /\ [](story = "Leave")
            /\ []L!TypeOK
            /\ []L!BalanceKept
            /\ []L!OneOpenCancellation
            /\ [][L!Stands]_L!vars
  <1>1. story = "Leave" /\ PeopleInit => L!Init
    BY DEF PeopleInit
  <1>2. story = "Leave" /\ [PeopleNext]_vars => [L!Next]_L!vars /\ (story = "Leave")'
    BY DEF PeopleNext, vars, L!vars
  <1>3. story = "Leave" /\ PeopleSpec => [](story = "Leave") /\ L!Spec
    BY <1>1, <1>2, PTL DEF PeopleSpec, L!Spec
  <1>4. PP!LeaveAmounts
    BY LeaveFits
  <1>5. PP!Lv!Spec => []PP!Lv!TypeOK /\ []PP!Lv!BalanceKept /\ []PP!Lv!OneOpenCancellation /\ PP!Lv!DecisionStands
    BY <1>4, PP!LeavesTyped, PP!BalanceHolds, PP!OneCancellation, PP!DecisionsStand
  <1> QED BY <1>3, <1>5, LeaveSame, PTL

\* The instances of Claims here and in PeopleProofs are one: their definitions come to the same.
LEMMA ClaimsSame ==
  /\ C!Spec <=> PP!Cl!Spec
  /\ []C!TypeOK <=> []PP!Cl!TypeOK
  /\ []C!OfferedIsAccepted <=> []PP!Cl!OfferedIsAccepted
  /\ [][C!AsItStands]_C!vars <=> [][PP!Cl!AsItStands]_PP!Cl!vars
  <1> USE DEF
    C!vars, PP!Cl!vars, C!NoDoc, PP!Cl!NoDoc, C!Idle, PP!Cl!Idle, C!Draft, PP!Cl!Draft, C!LeaveExtra,
    PP!Cl!LeaveExtra, C!DocStatusOnly, PP!Cl!DocStatusOnly, C!MayEdit, PP!Cl!MayEdit, C!MayWithdraw,
    PP!Cl!MayWithdraw, C!MayDelete, PP!Cl!MayDelete, C!MayApprove, PP!Cl!MayApprove, C!MayRejectDraft,
    PP!Cl!MayRejectDraft, C!MayReject, PP!Cl!MayReject, C!MayCancel, PP!Cl!MayCancel, C!MayPay, PP!Cl!MayPay,
    C!MayAmend, PP!Cl!MayAmend, C!MayInvestigate, PP!Cl!MayInvestigate, C!MayReopen, PP!Cl!MayReopen, C!_can_flags,
    PP!Cl!_can_flags, C!LeaveExtraCan, PP!Cl!LeaveExtraCan, C!GrievanceCan, PP!Cl!GrievanceCan, C!TravelCan,
    PP!Cl!TravelCan, C!_doc_can, PP!Cl!_doc_can, C!Offered, PP!Cl!Offered, C!Accepted, PP!Cl!Accepted, C!Begin,
    PP!Cl!Begin, C!Reads, PP!Cl!Reads, C!NewStamps, PP!Cl!NewStamps, C!Commits, PP!Cl!Commits, C!Abort, PP!Cl!Abort,
    C!SavesAnyway, PP!Cl!SavesAnyway, C!Saves, PP!Cl!Saves, C!Writes, PP!Cl!Writes, C!Save, PP!Cl!Save, C!Submits,
    PP!Cl!Submits, C!submit_expense_claim, PP!Cl!submit_expense_claim, C!submit_leave_encashment,
    PP!Cl!submit_leave_encashment, C!submit_comp_off, PP!Cl!submit_comp_off, C!submit_travel_request,
    PP!Cl!submit_travel_request, C!submit_grievance, PP!Cl!submit_grievance, C!create_gratuity, PP!Cl!create_gratuity,
    C!save_benefit_claim, PP!Cl!save_benefit_claim, C!save_promotion, PP!Cl!save_promotion, C!Updates, PP!Cl!Updates,
    C!update_expense_claim, PP!Cl!update_expense_claim, C!update_leave_encashment, PP!Cl!update_leave_encashment,
    C!update_comp_off, PP!Cl!update_comp_off, C!update_travel_request, PP!Cl!update_travel_request,
    C!update_grievance, PP!Cl!update_grievance, C!save_benefit_application, PP!Cl!save_benefit_application,
    C!Withdraws, PP!Cl!Withdraws, C!_withdraw, PP!Cl!_withdraw, C!withdraw_travel_request,
    PP!Cl!withdraw_travel_request, C!withdraw_grievance, PP!Cl!withdraw_grievance, C!Deletes, PP!Cl!Deletes,
    C!delete_leave_extra_draft, PP!Cl!delete_leave_extra_draft, C!delete_service_draft, PP!Cl!delete_service_draft,
    C!Approved, PP!Cl!Approved, C!Approves, PP!Cl!Approves, C!Caught, PP!Cl!Caught, C!approve_expense_claim,
    PP!Cl!approve_expense_claim, C!approve_leave_encashment, PP!Cl!approve_leave_encashment, C!approve_comp_off,
    PP!Cl!approve_comp_off, C!approve_travel_request, PP!Cl!approve_travel_request, C!RejectsDraft,
    PP!Cl!RejectsDraft, C!RejectsSubmitted, PP!Cl!RejectsSubmitted, C!reject_expense_claim,
    PP!Cl!reject_expense_claim, C!reject_travel_request, PP!Cl!reject_travel_request, C!reject_leave_encashment,
    PP!Cl!reject_leave_encashment, C!reject_comp_off, PP!Cl!reject_comp_off, C!bulk_leave_extra_action,
    PP!Cl!bulk_leave_extra_action, C!bulk_travel_action, PP!Cl!bulk_travel_action, C!resolve_grievance,
    PP!Cl!resolve_grievance, C!invalidate_grievance, PP!Cl!invalidate_grievance, C!investigate_grievance,
    PP!Cl!investigate_grievance, C!reopen_grievance, PP!Cl!reopen_grievance, C!_delegate_expense,
    PP!Cl!_delegate_expense, C!_delegate_leave_extra, PP!Cl!_delegate_leave_extra, C!_delegate_services,
    PP!Cl!_delegate_services, C!Cancels, PP!Cl!Cancels, C!cancel_expense_claim, PP!Cl!cancel_expense_claim,
    C!cancel_travel_request, PP!Cl!cancel_travel_request, C!Amends, PP!Cl!Amends, C!amend_expense_claim,
    PP!Cl!amend_expense_claim, C!mark_expense_paid, PP!Cl!mark_expense_paid, C!_doc_action, PP!Cl!_doc_action, C!Init,
    PP!Cl!Init, C!Next, PP!Cl!Next, C!Spec, PP!Cl!Spec, C!TypeOK, PP!Cl!TypeOK, C!AsItStands, PP!Cl!AsItStands,
    C!ApprovedAsItStands, PP!Cl!ApprovedAsItStands, C!OfferedIsAccepted, PP!Cl!OfferedIsAccepted, C!AcceptedIsOffered,
    PP!Cl!AcceptedIsOffered, C!WithdrawnStaysOut, PP!Cl!WithdrawnStaysOut, C!EffectFollowsBook,
    PP!Cl!EffectFollowsBook, C!PaidOnce, PP!Cl!PaidOnce, C!Cardinality, PP!Cl!Cardinality, C!IsFiniteSet,
    PP!Cl!IsFiniteSet
  <1>1. C!Spec <=> PP!Cl!Spec
    BY PTL
  <1>2. []C!TypeOK <=> []PP!Cl!TypeOK
    BY PTL
  <1>3. []C!OfferedIsAccepted <=> []PP!Cl!OfferedIsAccepted
    BY PTL
  <1>4. [][C!AsItStands]_C!vars <=> [][PP!Cl!AsItStands]_PP!Cl!vars
    BY PTL
  <1> QED BY <1>1, <1>2, <1>3, <1>4

\* What the theorems assume of the constants (ClaimNames) is so of this instance.
LEMMA ClaimsFits ==
  ASSUME Named
  PROVE  PP!ClaimNames
  BY Sizes DEF Named, PP!ClaimNames, X, Y, AllKinds, AllForms, Form, PP!Bo!Every, PP!Li!Nobody, PP!Bo!BLACKOUT_ACTIONS

\* A behaviour of claims is one of Claims, and has what is proved of it.
LEMMA ClaimsStory ==
  ASSUME Named
  PROVE  story = "Claims" /\ PeopleSpec =>
            /\ [](story = "Claims")
            /\ []C!TypeOK
            /\ []C!OfferedIsAccepted
            /\ [][C!AsItStands]_C!vars
  <1>1. story = "Claims" /\ PeopleInit => C!Init
    BY DEF PeopleInit
  <1>2. story = "Claims" /\ [PeopleNext]_vars => [C!Next]_C!vars /\ (story = "Claims")'
    BY DEF PeopleNext, vars, C!vars
  <1>3. story = "Claims" /\ PeopleSpec => [](story = "Claims") /\ C!Spec
    BY <1>1, <1>2, PTL DEF PeopleSpec, C!Spec
  <1>4. PP!ClaimNames
    BY ClaimsFits
  <1>5. PP!Cl!Spec => []PP!Cl!TypeOK /\ []PP!Cl!OfferedIsAccepted /\ [][PP!Cl!AsItStands]_PP!Cl!vars
    BY <1>4, PP!ClaimsTyped, PP!WhatIsOfferedIsAccepted, PP!ClaimsApprovedAsTheyStand
  <1> QED BY <1>3, <1>5, ClaimsSame, PTL

\* The instances of SalarySetup here and in PeopleProofs are one: their definitions come to the same.
LEMMA SalarySame ==
  /\ S!Spec <=> PP!Ss!Spec
  /\ []S!TypeOK <=> []PP!Ss!TypeOK
  /\ []S!OneAssignment <=> []PP!Ss!OneAssignment
  /\ []S!PeriodsApart <=> []PP!Ss!PeriodsApart
  <1> USE DEF
    S!masters, PP!Ss!masters, S!vars, PP!Ss!vars, S!NoStructure, PP!Ss!NoStructure, S!NoRow, PP!Ss!NoRow, S!NoPeriod,
    PP!Ss!NoPeriod, S!NoDay, PP!Ss!NoDay, S!Silent, PP!Ss!Silent, S!Now, PP!Ss!Now, S!Views, PP!Ss!Views, S!Hold,
    PP!Ss!Hold, S!Ends, PP!Ss!Ends, S!Says, PP!Ss!Says, S!save_salary_structure, PP!Ss!save_salary_structure,
    S!SubmitStructure, PP!Ss!SubmitStructure, S!SubmittedOf, PP!Ss!SubmittedOf, S!Newest, PP!Ss!Newest, S!MonthlyBase,
    PP!Ss!MonthlyBase, S!OverlapsLater, PP!Ss!OverlapsLater, S!_ensure_no_overlapping_assignment,
    PP!Ss!_ensure_no_overlapping_assignment, S!Accepts, PP!Ss!Accepts, S!ssa_status, PP!Ss!ssa_status, S!NewRow,
    PP!Ss!NewRow, S!assign_salary_structure, PP!Ss!assign_salary_structure, S!bulk_assign_salary_structure,
    PP!Ss!bulk_assign_salary_structure, S!complete_payroll_profile, PP!Ss!complete_payroll_profile, S!Cancelled,
    PP!Ss!Cancelled, S!cancel_salary_structure_assignment, PP!Ss!cancel_salary_structure_assignment,
    S!bulk_cancel_assignments, PP!Ss!bulk_cancel_assignments, S!Modes, PP!Ss!Modes, S!MonthlyIsBacked,
    PP!Ss!MonthlyIsBacked, S!save_employee_salary_setting, PP!Ss!save_employee_salary_setting,
    S!bulk_set_hourly_rates, PP!Ss!bulk_set_hourly_rates, S!BeginsWithin, PP!Ss!BeginsWithin, S!_pp_overlapping,
    PP!Ss!_pp_overlapping, S!save_payroll_period, PP!Ss!save_payroll_period, S!_pp_usage, PP!Ss!_pp_usage,
    S!delete_payroll_period, PP!Ss!delete_payroll_period, S!UsePeriod, PP!Ss!UsePeriod, S!Init, PP!Ss!Init, S!Next,
    PP!Ss!Next, S!Spec, PP!Ss!Spec, S!Rows, PP!Ss!Rows, S!TypeOK, PP!Ss!TypeOK, S!OneAssignment, PP!Ss!OneAssignment,
    S!PeriodsApart, PP!Ss!PeriodsApart, S!ReportIsTrue, PP!Ss!ReportIsTrue, S!MonthlyHasBase, PP!Ss!MonthlyHasBase,
    S!Cardinality, PP!Ss!Cardinality, S!IsFiniteSet, PP!Ss!IsFiniteSet
  <1>1. S!Spec <=> PP!Ss!Spec
    BY PTL
  <1>2. []S!TypeOK <=> []PP!Ss!TypeOK
    BY PTL
  <1>3. []S!OneAssignment <=> []PP!Ss!OneAssignment
    BY PTL
  <1>4. []S!PeriodsApart <=> []PP!Ss!PeriodsApart
    BY PTL
  <1> QED BY <1>1, <1>2, <1>3, <1>4

\* What the theorems assume of the constants (PayCalendar) is so of this instance.
LEMMA SalaryFits ==
  ASSUME Named
  PROVE  PP!PayCalendar
  BY Sizes DEF Named, PP!PayCalendar, X, Y, AllKinds, AllForms, Form, PP!Bo!Every, PP!Li!Nobody, PP!Bo!BLACKOUT_ACTIONS

\* A behaviour of salary masters is one of SalarySetup, and has what is proved of it.
LEMMA SalaryStory ==
  ASSUME Named
  PROVE  story = "Salary" /\ PeopleSpec =>
            /\ [](story = "Salary")
            /\ []S!TypeOK
            /\ []S!OneAssignment
            /\ []S!PeriodsApart
  <1>1. story = "Salary" /\ PeopleInit => S!Init
    BY DEF PeopleInit
  <1>2. story = "Salary" /\ [PeopleNext]_vars => [S!Next]_S!vars /\ (story = "Salary")'
    BY DEF PeopleNext, vars, S!vars
  <1>3. story = "Salary" /\ PeopleSpec => [](story = "Salary") /\ S!Spec
    BY <1>1, <1>2, PTL DEF PeopleSpec, S!Spec
  <1>4. PP!PayCalendar
    BY SalaryFits
  <1>5. PP!Ss!Spec => []PP!Ss!TypeOK /\ []PP!Ss!OneAssignment /\ []PP!Ss!PeriodsApart
    BY <1>4, PP!PayMastersTyped, PP!OneAssignmentHolds, PP!PeriodsAreApart
  <1> QED BY <1>3, <1>5, SalarySame, PTL

\* The instances of LeavePolicy here and in PeopleProofs are one: their definitions come to the same.
LEMMA PolicySame ==
  /\ P!Spec <=> PP!Lp!Spec
  /\ []P!TypeOK <=> []PP!Lp!TypeOK
  /\ []P!GrantsFollow <=> []PP!Lp!GrantsFollow
  /\ []P!AssignmentsHold <=> []PP!Lp!AssignmentsHold
  <1> USE DEF
    P!rows, PP!Lp!rows, P!vars, PP!Lp!vars, P!NoPeriod, PP!Lp!NoPeriod, P!NoPolicy, PP!Lp!NoPolicy, P!NoRow,
    PP!Lp!NoRow, P!NoGrant, PP!Lp!NoGrant, P!Joining, PP!Lp!Joining, P!Now, PP!Lp!Now, P!Views, PP!Lp!Views, P!Hold,
    PP!Lp!Hold, P!Ends, PP!Lp!Ends, P!create_leave_period, PP!Lp!create_leave_period, P!InForce, PP!Lp!InForce,
    P!NotFrozen, PP!Lp!NotFrozen, P!Frozen, PP!Lp!Frozen, P!update_leave_period, PP!Lp!update_leave_period,
    P!delete_leave_period, PP!Lp!delete_leave_period, P!Draft, PP!Lp!Draft, P!PolicyBecomes, PP!Lp!PolicyBecomes,
    P!save_leave_policy, PP!Lp!save_leave_policy, P!submit_leave_policy, PP!Lp!submit_leave_policy, P!Linked,
    PP!Lp!Linked, P!CanCancelAnyPolicy, PP!Lp!CanCancelAnyPolicy, P!_assert_policy_cancel,
    PP!Lp!_assert_policy_cancel, P!cancel_leave_policy, PP!Lp!cancel_leave_policy, P!amend_leave_policy,
    PP!Lp!amend_leave_policy, P!delete_leave_policy, PP!Lp!delete_leave_policy, P!duplicate_leave_policy,
    PP!Lp!duplicate_leave_policy, P!_assignment_payload, PP!Lp!_assignment_payload, P!Meets, PP!Lp!Meets,
    P!Assignable, PP!Lp!Assignable, P!Grants, PP!Lp!Grants, P!assign_leave_policy, PP!Lp!assign_leave_policy,
    P!KeepsFailed, PP!Lp!KeepsFailed, P!KeptOf, PP!Lp!KeptOf, P!bulk_assign_leave_policy,
    PP!Lp!bulk_assign_leave_policy, P!KeepAllocations, PP!Lp!KeepAllocations, P!_cancel_live_allocations,
    PP!Lp!_cancel_live_allocations, P!cancel_leave_policy_assignment, PP!Lp!cancel_leave_policy_assignment,
    P!amend_leave_policy_assignment, PP!Lp!amend_leave_policy_assignment, P!Init, PP!Lp!Init, P!Next, PP!Lp!Next,
    P!Spec, PP!Lp!Spec, P!TypeOK, PP!Lp!TypeOK, P!GrantsFollow, PP!Lp!GrantsFollow, P!AssignmentsHold,
    PP!Lp!AssignmentsHold, P!Cardinality, PP!Lp!Cardinality, P!IsFiniteSet, PP!Lp!IsFiniteSet
  <1>1. P!Spec <=> PP!Lp!Spec
    BY PTL
  <1>2. []P!TypeOK <=> []PP!Lp!TypeOK
    BY PTL
  <1>3. []P!GrantsFollow <=> []PP!Lp!GrantsFollow
    BY PTL
  <1>4. []P!AssignmentsHold <=> []PP!Lp!AssignmentsHold
    BY PTL
  <1> QED BY <1>1, <1>2, <1>3, <1>4

\* What the theorems assume of the constants (GrantDays) is so of this instance.
LEMMA PolicyFits ==
  ASSUME Named
  PROVE  PP!GrantDays
  BY Sizes DEF Named, PP!GrantDays, X, Y, AllKinds, AllForms, Form, PP!Bo!Every, PP!Li!Nobody, PP!Bo!BLACKOUT_ACTIONS

\* A behaviour of leave policies is one of LeavePolicy, and has what is proved of it.
LEMMA PolicyStory ==
  ASSUME Named
  PROVE  story = "Policy" /\ PeopleSpec =>
            /\ [](story = "Policy")
            /\ []P!TypeOK
            /\ []P!GrantsFollow
            /\ []P!AssignmentsHold
  <1>1. story = "Policy" /\ PeopleInit => P!Init
    BY DEF PeopleInit
  <1>2. story = "Policy" /\ [PeopleNext]_vars => [P!Next]_P!vars /\ (story = "Policy")'
    BY DEF PeopleNext, vars, P!vars
  <1>3. story = "Policy" /\ PeopleSpec => [](story = "Policy") /\ P!Spec
    BY <1>1, <1>2, PTL DEF PeopleSpec, P!Spec
  <1>4. PP!GrantDays
    BY PolicyFits
  <1>5. PP!Lp!Spec => []PP!Lp!TypeOK /\ []PP!Lp!GrantsFollow /\ []PP!Lp!AssignmentsHold
    BY <1>4, PP!GrantsTyped, PP!GrantsAlwaysFollow, PP!AssignmentsAlwaysHold
  <1> QED BY <1>3, <1>5, PolicySame, PTL

\* The instances of Blackout here and in PeopleProofs are one: their definitions come to the same.
LEMMA BlackoutSame ==
  /\ B!Spec <=> PP!Bo!Spec
  /\ []B!TypeOK <=> []PP!Bo!TypeOK
  /\ []B!RulesApart <=> []PP!Bo!RulesApart
  /\ []B!ReadersAgree <=> []PP!Bo!ReadersAgree
  <1> USE DEF
    B!vars, PP!Bo!vars, B!Every, PP!Bo!Every, B!BLACKOUT_ACTIONS, PP!Bo!BLACKOUT_ACTIONS, B!_ACTION_RANK,
    PP!Bo!_ACTION_RANK, B!NoRule, PP!Bo!NoRule, B!NoLeave, PP!Bo!NoLeave, B!RuleRows, PP!Bo!RuleRows, B!Applications,
    PP!Bo!Applications, B!Now, PP!Bo!Now, B!Views, PP!Bo!Views, B!Hold, PP!Bo!Hold, B!Ends, PP!Bo!Ends,
    B!date_overlaps, PP!Bo!date_overlaps, B!window_days, PP!Bo!window_days, B!MatchesBeforeEnd,
    PP!Bo!MatchesBeforeEnd, B!_rule_matches, PP!Bo!_rule_matches, B!_list_blackouts, PP!Bo!_list_blackouts,
    B!evaluate_blackout, PP!Bo!evaluate_blackout, B!strongest_action, PP!Bo!strongest_action,
    B!blackout_decision_fields, PP!Bo!blackout_decision_fields, B!_stamp_blackout_decision,
    PP!Bo!_stamp_blackout_decision, B!apply_leave, PP!Bo!apply_leave, B!update_draft, PP!Bo!update_draft,
    B!delete_draft, PP!Bo!delete_draft, B!blackout_impact, PP!Bo!blackout_impact, B!Compatible, PP!Bo!Compatible,
    B!OtherTypes, PP!Bo!OtherTypes, B!overlapping_rules, PP!Bo!overlapping_rules, B!_guard_overlap,
    PP!Bo!_guard_overlap, B!Waives, PP!Bo!Waives, B!create_blackout, PP!Bo!create_blackout, B!update_blackout,
    PP!Bo!update_blackout, B!Deletes, PP!Bo!Deletes, B!delete_blackout, PP!Bo!delete_blackout,
    B!bulk_delete_blackouts, PP!Bo!bulk_delete_blackouts, B!bulk_update_blackouts, PP!Bo!bulk_update_blackouts,
    B!Init, PP!Bo!Init, B!Next, PP!Bo!Next, B!Spec, PP!Bo!Spec, B!TypeOK, PP!Bo!TypeOK, B!RulesApart,
    PP!Bo!RulesApart, B!ReadersAgree, PP!Bo!ReadersAgree, B!MarkIsCurrent, PP!Bo!MarkIsCurrent, B!RuleIsForItsBranch,
    PP!Bo!RuleIsForItsBranch, B!Cardinality, PP!Bo!Cardinality, B!IsFiniteSet, PP!Bo!IsFiniteSet
  <1>1. B!Spec <=> PP!Bo!Spec
    BY PTL
  <1>2. []B!TypeOK <=> []PP!Bo!TypeOK
    BY PTL
  <1>3. []B!RulesApart <=> []PP!Bo!RulesApart
    BY PTL
  <1>4. []B!ReadersAgree <=> []PP!Bo!ReadersAgree
    BY PTL
  <1> QED BY <1>1, <1>2, <1>3, <1>4

\* What the theorems assume of the constants (BlackoutPage) is so of this instance.
LEMMA BlackoutFits ==
  ASSUME Named
  PROVE  PP!BlackoutPage
  BY Sizes DEF Named, PP!BlackoutPage, X, Y, AllKinds, AllForms, Form, PP!Bo!Every, PP!Li!Nobody, PP!Bo!BLACKOUT_ACTIONS

\* A behaviour of blackouts is one of Blackout, and has what is proved of it.
LEMMA BlackoutStory ==
  ASSUME Named
  PROVE  story = "Blackout" /\ PeopleSpec =>
            /\ [](story = "Blackout")
            /\ []B!TypeOK
            /\ []B!RulesApart
            /\ []B!ReadersAgree
  <1>1. story = "Blackout" /\ PeopleInit => B!Init
    BY DEF PeopleInit
  <1>2. story = "Blackout" /\ [PeopleNext]_vars => [B!Next]_B!vars /\ (story = "Blackout")'
    BY DEF PeopleNext, vars, B!vars
  <1>3. story = "Blackout" /\ PeopleSpec => [](story = "Blackout") /\ B!Spec
    BY <1>1, <1>2, PTL DEF PeopleSpec, B!Spec
  <1>4. PP!BlackoutPage
    BY BlackoutFits
  <1>5. PP!Bo!Spec => []PP!Bo!TypeOK /\ []PP!Bo!RulesApart /\ []PP!Bo!ReadersAgree
    BY <1>4, PP!BlackoutTyped, PP!RulesStayApart, PP!ReadersAlwaysAgree
  <1> QED BY <1>3, <1>5, BlackoutSame, PTL

\* The instances of Onboarding here and in PeopleProofs are one: their definitions come to the same.
LEMMA OnboardSame ==
  /\ O!Spec <=> PP!On!Spec
  /\ []O!TypeOK <=> []PP!On!TypeOK
  /\ []O!CancelledLeavesNoTodo <=> []PP!On!CancelledLeavesNoTodo
  <1> USE DEF
    O!vars, PP!On!vars, O!Nobody, PP!On!Nobody, O!Empty, PP!On!Empty, O!NoTemplate, PP!On!NoTemplate, O!NoTask,
    PP!On!NoTask, O!Task, PP!On!Task, O!NoOb, PP!On!NoOb, O!Now, PP!On!Now, O!Views, PP!On!Views, O!Hold, PP!On!Hold,
    O!Ends, PP!On!Ends, O!save_template, PP!On!save_template, O!duplicate_template, PP!On!duplicate_template,
    O!delete_template, PP!On!delete_template, O!RowsOf, PP!On!RowsOf, O!Done, PP!On!Done, O!derive_status,
    PP!On!derive_status, O!With, PP!On!With, O!Assignees, PP!On!Assignees, O!_sync_todo_add, PP!On!_sync_todo_add,
    O!_sync_todo_remove, PP!On!_sync_todo_remove, O!AddsOnly, PP!On!AddsOnly, O!Reassigned, PP!On!Reassigned,
    O!start_onboarding, PP!On!start_onboarding, O!Reads, PP!On!Reads, O!Running, PP!On!Running, O!Saved, PP!On!Saved,
    O!complete_task, PP!On!complete_task, O!reopen_task, PP!On!reopen_task, O!add_task, PP!On!add_task, O!update_task,
    PP!On!update_task, O!cancel_onboarding, PP!On!cancel_onboarding, O!delete_onboarding, PP!On!delete_onboarding,
    O!Lists, PP!On!Lists, O!Init, PP!On!Init, O!Next, PP!On!Next, O!Spec, PP!On!Spec, O!TypeOK, PP!On!TypeOK,
    O!CancelledLeavesNoTodo, PP!On!CancelledLeavesNoTodo, O!OpenTaskHasTodo, PP!On!OpenTaskHasTodo, O!BegunIsKept,
    PP!On!BegunIsKept, O!Cardinality, PP!On!Cardinality, O!IsFiniteSet, PP!On!IsFiniteSet
  <1>1. O!Spec <=> PP!On!Spec
    BY PTL
  <1>2. []O!TypeOK <=> []PP!On!TypeOK
    BY PTL
  <1>3. []O!CancelledLeavesNoTodo <=> []PP!On!CancelledLeavesNoTodo
    BY PTL
  <1> QED BY <1>1, <1>2, <1>3

\* A behaviour of onboarding is one of Onboarding, and has what is proved of it.
LEMMA OnboardStory ==
  ASSUME Named
  PROVE  story = "Onboard" /\ PeopleSpec =>
            /\ [](story = "Onboard")
            /\ []O!TypeOK
            /\ []O!CancelledLeavesNoTodo
  <1>1. story = "Onboard" /\ PeopleInit => O!Init
    BY DEF PeopleInit
  <1>2. story = "Onboard" /\ [PeopleNext]_vars => [O!Next]_O!vars /\ (story = "Onboard")'
    BY DEF PeopleNext, vars, O!vars
  <1>3. story = "Onboard" /\ PeopleSpec => [](story = "Onboard") /\ O!Spec
    BY <1>1, <1>2, PTL DEF PeopleSpec, O!Spec
  <1>4. PP!On!Spec => []PP!On!TypeOK /\ []PP!On!CancelledLeavesNoTodo
    BY PP!OnboardingTyped, PP!CancelledHasNoTodo
  <1> QED BY <1>3, <1>4, OnboardSame, PTL

\* The instances of Hiring here and in PeopleProofs are one: their definitions come to the same.
LEMMA HiringSame ==
  /\ H!Spec <=> PP!Hi!Spec
  /\ []H!TypeOK <=> []PP!Hi!TypeOK
  /\ []H!OpeningIsThere <=> []PP!Hi!OpeningIsThere
  /\ [][H!AcceptedStays]_H!vars <=> [][PP!Hi!AcceptedStays]_PP!Hi!vars
  <1> USE DEF
    H!vars, PP!Hi!vars, H!NoOpening, PP!Hi!NoOpening, H!NoApplicant, PP!Hi!NoApplicant, H!Now, PP!Hi!Now, H!Views,
    PP!Hi!Views, H!Hold, PP!Hi!Hold, H!Ends, PP!Hi!Ends, H!OPENING_STATUSES, PP!Hi!OPENING_STATUSES,
    H!APPLICANT_STATUSES, PP!Hi!APPLICANT_STATUSES, H!INTERVIEW_STATUSES, PP!Hi!INTERVIEW_STATUSES, H!OFFER_STATUSES,
    PP!Hi!OFFER_STATUSES, H!_FEEDBACK_STATUSES, PP!Hi!_FEEDBACK_STATUSES, H!_ACTIVE_APPLICANT_STATUSES,
    PP!Hi!_ACTIVE_APPLICANT_STATUSES, H!_APPLICANT_TRANSITIONS, PP!Hi!_APPLICANT_TRANSITIONS, H!ApplicantsOf,
    PP!Hi!ApplicantsOf, H!ActiveOf, PP!Hi!ActiveOf, H!Held, PP!Hi!Held, H!_all_rounds_cleared,
    PP!Hi!_all_rounds_cleared, H!Known, PP!Hi!Known, H!save_job_opening, PP!Hi!save_job_opening,
    H!set_job_opening_status, PP!Hi!set_job_opening_status, H!UnlinkedActive, PP!Hi!UnlinkedActive, H!Unlinked,
    PP!Hi!Unlinked, H!delete_job_opening, PP!Hi!delete_job_opening, H!submit_job_application,
    PP!Hi!submit_job_application, H!set_applicant_status, PP!Hi!set_applicant_status, H!schedule_interview,
    PP!Hi!schedule_interview, H!submit_interview_feedback, PP!Hi!submit_interview_feedback, H!save_job_offer,
    PP!Hi!save_job_offer, H!FollowsAlways, PP!Hi!FollowsAlways, H!Follows, PP!Hi!Follows, H!set_job_offer_status,
    PP!Hi!set_job_offer_status, H!Init, PP!Hi!Init, H!Next, PP!Hi!Next, H!Spec, PP!Hi!Spec, H!TypeOK, PP!Hi!TypeOK,
    H!OpeningIsThere, PP!Hi!OpeningIsThere, H!AcceptedStays, PP!Hi!AcceptedStays, H!OnboardedIsAccepted,
    PP!Hi!OnboardedIsAccepted, H!ClosedIsQuiet, PP!Hi!ClosedIsQuiet, H!OfferIsFollowed, PP!Hi!OfferIsFollowed,
    H!Cardinality, PP!Hi!Cardinality, H!IsFiniteSet, PP!Hi!IsFiniteSet
  <1>1. H!Spec <=> PP!Hi!Spec
    BY PTL
  <1>2. []H!TypeOK <=> []PP!Hi!TypeOK
    BY PTL
  <1>3. []H!OpeningIsThere <=> []PP!Hi!OpeningIsThere
    BY PTL
  <1>4. [][H!AcceptedStays]_H!vars <=> [][PP!Hi!AcceptedStays]_PP!Hi!vars
    BY PTL
  <1> QED BY <1>1, <1>2, <1>3, <1>4

\* What the theorems assume of the constants (HiringNames) is so of this instance.
LEMMA HiringFits ==
  ASSUME Named
  PROVE  PP!HiringNames
  BY Sizes DEF Named, PP!HiringNames, X, Y, AllKinds, AllForms, Form, PP!Bo!Every, PP!Li!Nobody, PP!Bo!BLACKOUT_ACTIONS

\* A behaviour of recruitment is one of Hiring, and has what is proved of it.
LEMMA HiringStory ==
  ASSUME Named
  PROVE  story = "Hiring" /\ PeopleSpec =>
            /\ [](story = "Hiring")
            /\ []H!TypeOK
            /\ []H!OpeningIsThere
            /\ [][H!AcceptedStays]_H!vars
  <1>1. story = "Hiring" /\ PeopleInit => H!Init
    BY DEF PeopleInit
  <1>2. story = "Hiring" /\ [PeopleNext]_vars => [H!Next]_H!vars /\ (story = "Hiring")'
    BY DEF PeopleNext, vars, H!vars
  <1>3. story = "Hiring" /\ PeopleSpec => [](story = "Hiring") /\ H!Spec
    BY <1>1, <1>2, PTL DEF PeopleSpec, H!Spec
  <1>4. PP!HiringNames
    BY HiringFits
  <1>5. PP!Hi!Spec => []PP!Hi!TypeOK /\ []PP!Hi!OpeningIsThere /\ [][PP!Hi!AcceptedStays]_PP!Hi!vars
    BY <1>4, PP!HiringTyped, PP!OpeningsAreThere, PP!AcceptedAlwaysStays
  <1> QED BY <1>3, <1>5, HiringSame, PTL

\* The instances of Lifecycle here and in PeopleProofs are one: their definitions come to the same.
LEMMA StaffSame ==
  /\ E!Spec <=> PP!Li!Spec
  /\ []E!TypeOK <=> []PP!Li!TypeOK
  /\ []E!LeftHasNoShift <=> []PP!Li!LeftHasNoShift
  /\ [][E!DayStays]_E!vars <=> PP!Li!PunchedDayStays
  <1> USE DEF
    E!vars, PP!Li!vars, E!Nobody, PP!Li!Nobody, E!NoDay, PP!Li!NoDay, E!NoEmp, PP!Li!NoEmp, E!Now, PP!Li!Now, E!Views,
    PP!Li!Views, E!Hold, PP!Li!Hold, E!Ends, PP!Li!Ends, E!detect_cycle, PP!Li!detect_cycle, E!OneLevel,
    PP!Li!OneLevel, E!guard_reports_to_cycle, PP!Li!guard_reports_to_cycle, E!Dropped, PP!Li!Dropped, E!Kept,
    PP!Li!Kept, E!_drop_shift_data_after, PP!Li!_drop_shift_data_after, E!FromLastDay, PP!Li!FromLastDay,
    E!handle_employee_status_change, PP!Li!handle_employee_status_change, E!Unmoved, PP!Li!Unmoved, E!Saves,
    PP!Li!Saves, E!save_employee, PP!Li!save_employee, E!offboard_employee, PP!Li!offboard_employee,
    E!reactivate_employee, PP!Li!reactivate_employee, E!create_transfer, PP!Li!create_transfer, E!CountsPunches,
    PP!Li!CountsPunches, E!guard_employee_delete, PP!Li!guard_employee_delete, E!delete_employee,
    PP!Li!delete_employee, E!Joins, PP!Li!Joins, E!create_shift_assignment, PP!Li!create_shift_assignment,
    E!_materialise_shift_instances, PP!Li!_materialise_shift_instances, E!create_checkin, PP!Li!create_checkin,
    E!sync_attendance, PP!Li!sync_attendance, E!EmpRows, PP!Li!EmpRows, E!Init, PP!Li!Init, E!Next, PP!Li!Next,
    E!Spec, PP!Li!Spec, E!TypeOK, PP!Li!TypeOK, E!Serial, PP!Li!Serial, E!LeftHasNoShift, PP!Li!LeftHasNoShift,
    E!DayStays, PP!Li!DayStays, E!PunchedDayStays, PP!Li!PunchedDayStays, E!LeftHasNoEmptyDay,
    PP!Li!LeftHasNoEmptyDay, E!PunchedDayStaysAnyhow, PP!Li!PunchedDayStaysAnyhow, E!Cardinality, PP!Li!Cardinality,
    E!IsFiniteSet, PP!Li!IsFiniteSet
  <1>1. E!Spec <=> PP!Li!Spec
    BY PTL
  <1>2. []E!TypeOK <=> []PP!Li!TypeOK
    BY PTL
  <1>3. []E!LeftHasNoShift <=> []PP!Li!LeftHasNoShift
    BY PTL
  <1>4. [][E!DayStays]_E!vars <=> PP!Li!PunchedDayStays
    BY PTL
  <1> QED BY <1>1, <1>2, <1>3, <1>4

\* What the theorems assume of the constants (StaffNames) is so of this instance.
LEMMA StaffFits ==
  ASSUME Named
  PROVE  PP!StaffNames
  BY Sizes DEF Named, PP!StaffNames, X, Y, AllKinds, AllForms, Form, PP!Bo!Every, PP!Li!Nobody, PP!Bo!BLACKOUT_ACTIONS

\* A behaviour of leaving is one of Lifecycle, and has what is proved of it.
LEMMA StaffStory ==
  ASSUME Named
  PROVE  story = "Staff" /\ PeopleSpec =>
            /\ [](story = "Staff")
            /\ []E!TypeOK
            /\ []E!LeftHasNoShift
            /\ [][E!DayStays]_E!vars
  <1>1. story = "Staff" /\ PeopleInit => E!Init
    BY DEF PeopleInit
  <1>2. story = "Staff" /\ [PeopleNext]_vars => [E!Next]_E!vars /\ (story = "Staff")'
    BY DEF PeopleNext, vars, E!vars
  <1>3. story = "Staff" /\ PeopleSpec => [](story = "Staff") /\ E!Spec
    BY <1>1, <1>2, PTL DEF PeopleSpec, E!Spec
  <1>4. PP!StaffNames
    BY StaffFits
  <1>5. PP!Li!Spec => []PP!Li!TypeOK /\ []PP!Li!LeftHasNoShift /\ PP!Li!PunchedDayStays
    BY <1>4, PP!StaffTyped, PP!LeftHaveNoShift, PP!PunchedDaysStay
  <1> QED BY <1>3, <1>5, StaffSame, PTL

\* The instances of Accounts here and in PeopleProofs are one: their definitions come to the same.
LEMMA AccountsSame ==
  /\ A!Spec <=> PP!Ac!Spec
  /\ []A!TypeOK <=> []PP!Ac!TypeOK
  /\ []A!LinkedHasRole <=> []PP!Ac!LinkedHasRole
  <1> USE DEF
    A!vars, PP!Ac!vars, A!Nobody, PP!Ac!Nobody, A!NoUser, PP!Ac!NoUser, A!Now, PP!Ac!Now, A!Views, PP!Ac!Views,
    A!Hold, PP!Ac!Hold, A!Ends, PP!Ac!Ends, A!has_employee, PP!Ac!has_employee, A!Settled, PP!Ac!Settled, A!Exists,
    PP!Ac!Exists, A!Save, PP!Ac!Save, A!Rest, PP!Ac!Rest, A!AlwaysDeferred, PP!Ac!AlwaysDeferred, A!assigned,
    PP!Ac!assigned, A!create_user, PP!Ac!create_user, A!assign_roles, PP!Ac!assign_roles, A!remove_roles,
    PP!Ac!remove_roles, A!set_user_role_profile, PP!Ac!set_user_role_profile, A!set_user_enabled,
    PP!Ac!set_user_enabled, A!reset_user_password, PP!Ac!reset_user_password, A!delete_user, PP!Ac!delete_user,
    A!DeactivateLeaver, PP!Ac!DeactivateLeaver, A!LinkLast, PP!Ac!LinkLast, A!WithRole, PP!Ac!WithRole,
    A!link_user_to_employee, PP!Ac!link_user_to_employee, A!_hr_manager_users, PP!Ac!_hr_manager_users,
    A!request_profile_change, PP!Ac!request_profile_change, A!cancel_profile_request, PP!Ac!cancel_profile_request,
    A!Init, PP!Ac!Init, A!Next, PP!Ac!Next, A!Spec, PP!Ac!Spec, A!TypeOK, PP!Ac!TypeOK, A!LinkedHasRole,
    PP!Ac!LinkedHasRole, A!AssignedIsThere, PP!Ac!AssignedIsThere, A!CancelledIsGone, PP!Ac!CancelledIsGone,
    A!Cardinality, PP!Ac!Cardinality, A!IsFiniteSet, PP!Ac!IsFiniteSet
  <1>1. A!Spec <=> PP!Ac!Spec
    BY PTL
  <1>2. []A!TypeOK <=> []PP!Ac!TypeOK
    BY PTL
  <1>3. []A!LinkedHasRole <=> []PP!Ac!LinkedHasRole
    BY PTL
  <1> QED BY <1>1, <1>2, <1>3

\* What the theorems assume of the constants (AccountRoles) is so of this instance.
LEMMA AccountsFits ==
  ASSUME Named
  PROVE  PP!AccountRoles
  BY Sizes DEF Named, PP!AccountRoles, X, Y, AllKinds, AllForms, Form, PP!Bo!Every, PP!Li!Nobody, PP!Bo!BLACKOUT_ACTIONS

\* A behaviour of accounts is one of Accounts, and has what is proved of it.
LEMMA AccountsStory ==
  ASSUME Named
  PROVE  story = "Accounts" /\ PeopleSpec =>
            /\ [](story = "Accounts")
            /\ []A!TypeOK
            /\ []A!LinkedHasRole
  <1>1. story = "Accounts" /\ PeopleInit => A!Init
    BY DEF PeopleInit
  <1>2. story = "Accounts" /\ [PeopleNext]_vars => [A!Next]_A!vars /\ (story = "Accounts")'
    BY DEF PeopleNext, vars, A!vars
  <1>3. story = "Accounts" /\ PeopleSpec => [](story = "Accounts") /\ A!Spec
    BY <1>1, <1>2, PTL DEF PeopleSpec, A!Spec
  <1>4. PP!AccountRoles
    BY AccountsFits
  <1>5. PP!Ac!Spec => []PP!Ac!TypeOK /\ []PP!Ac!LinkedHasRole
    BY <1>4, PP!AccountsTyped, PP!LinkedAlwaysHasRole
  <1> QED BY <1>3, <1>5, AccountsSame, PTL

\* Of leave: the balance of a type is kept and a leave has one open cancellation (leave.py), what is granted is what
\* the assignments in force say (payroll_master.py), and the readers of the blackout rules agree (leave_blackout.py).
THEOREM LeaveKeptAlways ==
  ASSUME Named
  PROVE  PeopleSpec => []LeaveKept
  <1> DEFINE Other == story \notin {"Leave", "Policy", "Blackout"}
  <1>1. Other \/ story = "Leave" \/ story = "Policy" \/ story = "Blackout"
    OBVIOUS
  <1>2. Other /\ [PeopleNext]_vars => Other'
    BY DEF PeopleNext, vars
  <1>3. Other => LeaveKept
    BY DEF LeaveKept
  <1>4. story = "Leave" /\ L!TypeOK /\ L!BalanceKept /\ L!OneOpenCancellation => LeaveKept
    BY DEF LeaveKept
  <1>5. story = "Policy" /\ P!TypeOK /\ P!GrantsFollow /\ P!AssignmentsHold => LeaveKept
    BY DEF LeaveKept
  <1>6. story = "Blackout" /\ B!TypeOK /\ B!RulesApart /\ B!ReadersAgree => LeaveKept
    BY DEF LeaveKept
  <1> HIDE DEF Other
  <1> QED
    BY <1>1, <1>2, <1>3, <1>4, <1>5, <1>6, LeaveStory, PolicyStory, BlackoutStory, PTL DEF PeopleSpec

\* What the screens offer of a claim is accepted (expense.py, employee_services.py, leave_extra.py).
THEOREM ClaimsKeptAlways ==
  ASSUME Named
  PROVE  PeopleSpec => []ClaimsKept
  <1> DEFINE Other == story \notin {"Claims"}
  <1>1. Other \/ story = "Claims"
    OBVIOUS
  <1>2. Other /\ [PeopleNext]_vars => Other'
    BY DEF PeopleNext, vars
  <1>3. Other => ClaimsKept
    BY DEF ClaimsKept
  <1>4. story = "Claims" /\ C!TypeOK /\ C!OfferedIsAccepted => ClaimsKept
    BY DEF ClaimsKept
  <1> HIDE DEF Other
  <1> QED
    BY <1>1, <1>2, <1>3, <1>4, ClaimsStory, PTL DEF PeopleSpec

\* An employee has one salary assignment at a time, and payroll periods are apart (payroll_master.py).
THEOREM PayMastersAgreeAlways ==
  ASSUME Named
  PROVE  PeopleSpec => []PayMastersAgree
  <1> DEFINE Other == story \notin {"Salary"}
  <1>1. Other \/ story = "Salary"
    OBVIOUS
  <1>2. Other /\ [PeopleNext]_vars => Other'
    BY DEF PeopleNext, vars
  <1>3. Other => PayMastersAgree
    BY DEF PayMastersAgree
  <1>4. story = "Salary" /\ S!TypeOK /\ S!OneAssignment /\ S!PeriodsApart => PayMastersAgree
    BY DEF PayMastersAgree
  <1> HIDE DEF Other
  <1> QED
    BY <1>1, <1>2, <1>3, <1>4, SalaryStory, PTL DEF PeopleSpec

\* Of staff: an onboarding that ended leaves no ToDo (onboarding.py), an opening that was applied for is there
\* (recruitment.py), who has left has no shift (employee_lifecycle.py), and the account of an employee has his role
\* (admin.py, user_profile.py).
THEOREM StaffKeptAlways ==
  ASSUME Named
  PROVE  PeopleSpec => []StaffKept
  <1> DEFINE Other == story \notin {"Onboard", "Hiring", "Staff", "Accounts"}
  <1>1. Other \/ story = "Onboard" \/ story = "Hiring" \/ story = "Staff" \/ story = "Accounts"
    OBVIOUS
  <1>2. Other /\ [PeopleNext]_vars => Other'
    BY DEF PeopleNext, vars
  <1>3. Other => StaffKept
    BY DEF StaffKept
  <1>4. story = "Onboard" /\ O!TypeOK /\ O!CancelledLeavesNoTodo => StaffKept
    BY DEF StaffKept
  <1>5. story = "Hiring" /\ H!TypeOK /\ H!OpeningIsThere => StaffKept
    BY DEF StaffKept
  <1>6. story = "Staff" /\ E!TypeOK /\ E!LeftHasNoShift => StaffKept
    BY DEF StaffKept
  <1>7. story = "Accounts" /\ A!TypeOK /\ A!LinkedHasRole => StaffKept
    BY DEF StaffKept
  <1> HIDE DEF Other
  <1> QED
    BY <1>1, <1>2, <1>3, <1>4, <1>5, <1>6, <1>7, OnboardStory, HiringStory, StaffStory, AccountsStory, PTL DEF
    PeopleSpec

\* No step takes back a decision about a leave, approves a claim as it does not stand, drops an applicant who was
\* accepted, or a day with punches of who leaves (leave.py, expense.py, recruitment.py, employee_lifecycle.py).
THEOREM NothingTakenBackAlways ==
  ASSUME Named
  PROVE  PeopleSpec => NothingTakenBack
  <1> DEFINE Other == story \notin {"Leave", "Claims", "Hiring", "Staff"}
  <1>1. Other \/ story = "Leave" \/ story = "Claims" \/ story = "Hiring" \/ story = "Staff"
    OBVIOUS
  <1>2. Other /\ [PeopleNext]_vars => Other'
    BY DEF PeopleNext, vars
  <1> DEFINE Part == /\ story = "Leave" => L!Stands
                     /\ story = "Claims" => C!AsItStands
                     /\ story = "Hiring" => H!AcceptedStays
                     /\ story = "Staff" => E!DayStays
  <1>3. Other /\ [PeopleNext]_vars => [Part]_vars
    OBVIOUS
  <1>4. story = "Leave" /\ [PeopleNext]_vars /\ [L!Stands]_L!vars => [Part]_vars
    BY DEF PeopleNext, vars, L!vars
  <1>5. story = "Claims" /\ [PeopleNext]_vars /\ [C!AsItStands]_C!vars => [Part]_vars
    BY DEF PeopleNext, vars, C!vars
  <1>6. story = "Hiring" /\ [PeopleNext]_vars /\ [H!AcceptedStays]_H!vars => [Part]_vars
    BY DEF PeopleNext, vars, H!vars
  <1>7. story = "Staff" /\ [PeopleNext]_vars /\ [E!DayStays]_E!vars => [Part]_vars
    BY DEF PeopleNext, vars, E!vars
  <1> HIDE DEF Other
  <1>8. PeopleSpec => [][Part]_vars
    <2> HIDE DEF Part
    <2> QED
      BY <1>1, <1>2, <1>3, <1>4, <1>5, <1>6, <1>7, LeaveStory, ClaimsStory, HiringStory, StaffStory, PTL DEF
      PeopleSpec
  <1> QED BY <1>8, PTL DEF NothingTakenBack
=============================================================================
