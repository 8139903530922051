------------------------------ MODULE MCPeople ------------------------------
(* The components of the people side for TLC, in one run: leave, leave policies and blackouts, expense claims
and services, salary masters, recruitment, onboarding, leaving and accounts.  A behaviour is of one of them, told by `story';
its variables are cells, so that the components that rest cost nothing.  x, y, z are rows and people that can
be renamed at will, w those that cannot. *)
EXTENDS MCStories

AllKinds ==
  {"Expense", "Encashment", "CompOff", "Travel", "Grievance", "Application", "BenefitClaim", "Promotion", "Gratuity"}
Form(b, t, f, l, a) == [branch |-> b, type |-> t, from |-> f, to |-> l, action |-> a]
AllForms ==
  {Form("every", "every", 1, 1, "Block"), Form("every", "annual", 1, 2, "Require HR Approval"),
   Form("north", "every", 2, 2, "Warning"), Form("every", "every", 1, 2, "Warning")}

L == INSTANCE Leave WITH
  leave <- c1, ledger <- c2, cr <- c3, task <- c4, req <- c5, overlap <- c8,
  Leaves <- X, Cancels <- Y, Requests <- Z, Tasks <- {w1}, Days <- {1, 2}, Allocated <- 1, Overlaps <- BOOLEAN
C == INSTANCE Claims WITH
  kind <- c1, doc <- c2, req <- c5, faulty <- c9,
  Docs <- X, Requests <- Z, Kinds <- AllKinds, Amounts <- {1, 2}, Faults <- BOOLEAN
S == INSTANCE SalarySetup WITH
  structure <- c1, ssa <- c2, mode <- c3, period <- c4, used <- c5, report <- c6, held <- c7, overlap <- c8, faulty <- c9,
  Employees <- X, Slots <- Y, Periods <- Z, Structures <- {w1}, Days <- {1, 2}, Bases <- {0, 1},
  Overlaps <- BOOLEAN, Faults <- BOOLEAN
P == INSTANCE LeavePolicy WITH
  policy <- c1, assignment <- c2, granted <- c3, period <- c4, held <- c7, overlap <- c8, faulty <- c9,
  Employees <- X, Slots <- Y, Policies <- Z, Periods <- {w1}, LeaveTypes <- {w2}, Days <- {1, 2},
  Overlaps <- BOOLEAN, Faults <- BOOLEAN
B == INSTANCE Blackout WITH
  leave <- c1, rule <- c2, waived <- c3, held <- c7, overlap <- c8,
  Rules <- X, Leaves <- {w1}, Branches <- {"north", "south"}, LeaveTypes <- {"annual", "unpaid"},
  Forms <- AllForms,
  Days <- {1, 2}, PageSize <- 3, Overlaps <- BOOLEAN
O == INSTANCE Onboarding WITH
  template <- c1, ob <- c2, todo <- c3, held <- c7, overlap <- c8,
  People <- X, Templates <- Y, Onboardings <- {w1}, Rows <- {1, 2}, Overlaps <- BOOLEAN
H == INSTANCE Hiring WITH
  opening <- c1, applicant <- c2, interview <- c3, offer <- c4, onboarded <- c5, held <- c7, overlap <- c8,
  Openings <- X, Applicants <- {w1}, Rounds <- Y, Overlaps <- BOOLEAN
E == INSTANCE Lifecycle WITH
  emp <- c1, shift <- c2, day <- c3, draft <- c4, held <- c7, overlap <- c8, faulty <- c9,
  Employees <- X \cup {w1}, Days <- {1, 2}, Overlaps <- BOOLEAN, Faults <- BOOLEAN
A == INSTANCE Accounts WITH
  user <- c1, link <- c2, waived <- c3, asked <- c4, held <- c7, overlap <- c8, faulty <- c9,
  Users <- X, Employees <- Y, PORTAL_ROLES <- {"Employee", "HR"}, ProfileRoles <- {"HR"},
  Overlaps <- BOOLEAN, Faults <- BOOLEAN

\* The cells of no component.
Unused == c10 = 0 /\ c11 = 0
PeopleInit ==
  /\ Unused
  /\ \/ story = "Leave"    /\ L!Init /\ c6 = 0 /\ c7 = 0 /\ c9 = 0
     \/ story = "Claims"   /\ C!Init /\ c3 = 0 /\ c4 = 0 /\ c6 = 0 /\ c7 = 0 /\ c8 = 0
     \/ story = "Salary"   /\ S!Init
     \/ story = "Policy"   /\ P!Init /\ c5 = 0 /\ c6 = 0
     \/ story = "Blackout" /\ B!Init /\ c4 = 0 /\ c5 = 0 /\ c6 = 0 /\ c9 = 0
     \/ story = "Onboard"  /\ O!Init /\ c4 = 0 /\ c5 = 0 /\ c6 = 0 /\ c9 = 0
     \/ story = "Hiring"   /\ H!Init /\ c6 = 0 /\ c9 = 0
     \/ story = "Staff"    /\ E!Init /\ c5 = 0 /\ c6 = 0
     \/ story = "Accounts" /\ A!Init /\ c5 = 0 /\ c6 = 0
PeopleNext ==
  /\ UNCHANGED <<story, c10, c11>>
  /\ \/ story = "Leave"    /\ L!Next /\ UNCHANGED <<c6, c7, c9>>
     \/ story = "Claims"   /\ C!Next /\ UNCHANGED <<c3, c4, c6, c7, c8>>
     \/ story = "Salary"   /\ S!Next
     \/ story = "Policy"   /\ P!Next /\ UNCHANGED <<c5, c6>>
     \/ story = "Blackout" /\ B!Next /\ UNCHANGED <<c4, c5, c6, c9>>
     \/ story = "Onboard"  /\ O!Next /\ UNCHANGED <<c4, c5, c6, c9>>
     \/ story = "Hiring"   /\ H!Next /\ UNCHANGED <<c6, c9>>
     \/ story = "Staff"    /\ E!Next /\ UNCHANGED <<c5, c6>>
     \/ story = "Accounts" /\ A!Next /\ UNCHANGED <<c5, c6>>
PeopleSpec == PeopleInit /\ [][PeopleNext]_vars

-----------------------------------------------------------------------------
(* Bounds. *)

\* With hooks that fail, one claim.
ClaimsSmall == c9 => Cardinality({d \in X : c2[d] # C!NoDoc}) <= 1
\* Overlapping requests about leave: without handovers, and with one cancellation request.
LeaveSmall == c8 => c4[w1] = L!NoTask /\ Cardinality({c \in Y : c3[c] # L!NoCancel}) <= 1
\* Payroll periods and assignments do not meet; one thing out of the ordinary at a time.
SalarySmall ==
  /\ (\E p \in Z : c4[p] # S!NoPeriod) => c1[w1] = S!NoStructure
  /\ ~(c8 /\ c9) /\ (c9 => \A p \in Z : c4[p] = S!NoPeriod)
  /\ c8 => c3[x1] = c3[x2] /\ (\A p \in Z : c4[p] = S!NoPeriod) /\ Cardinality({a \in Y : c2[a] # S!NoRow}) <= 1
\* While a request is held, one row changes.
PolicyChanged(v) ==
  Cardinality({p \in {w1} : v.period[p] # c4[p]} \cup {k \in Z : v.policy[k] # c1[k]} \cup {l \in Y : v.assignment[l] # c2[l]})
PolicySmall ==
  /\ \A v \in c7 : PolicyChanged(v) <= 1
  /\ ~(c8 /\ c9) /\ (c8 => Cardinality({l \in Y : c2[l] # P!NoRow}) <= 1)
\* When requests overlap, there is one row.
BlackoutSmall == c8 => Cardinality({r \in X : c2[r] # B!NoRule} \cup {l \in {w1} : c1[l] # B!NoLeave}) <= 1
\* When requests overlap, there is no template.
OnboardSmall == c8 => \A t \in Y : ~c1[t].is
\* When requests overlap, there is one opening, no interview, and one row changes while one is held; with an
\* interview there is one opening.
HiringChanged(v) == Cardinality({o \in X : v.opening[o] # c1[o]}) + (IF v.applicant # c2 THEN 1 ELSE 0) + (IF v.offer # c4 THEN 1 ELSE 0)
HiringSmall ==
  /\ c8 => Cardinality({o \in X : c1[o] # "None"}) <= 1 /\ (\A r \in Y : c3[w1][r] = "None")
  /\ \A v \in c7 : HiringChanged(v) <= 1
  /\ (\E r \in Y : c3[w1][r] # "None") => Cardinality({o \in X : c1[o] # "None"}) <= 1
\* Days and leavings are looked at of one employee, alone and reporting to nobody, and of one without a
\* draft when requests overlap.
StaffChanged(v) == Cardinality({e \in X : v.emp[e] # c1[e]}) + Cardinality({e \in X : v.day[e] # c3[e]})
                     + Cardinality({e \in X : v.shift[e] # c2[e]})
Busy == {e \in X \cup {w1} : c2[e] # "None"}
Alone == Cardinality({e \in X \cup {w1} : c1[e] # E!NoEmp}) <= 1
StaffSmall ==
  /\ \A v \in c7 : StaffChanged(v) <= 1
  /\ ~(c8 /\ c9)
  /\ IF Busy = {} THEN \A e \in X \cup {w1} : c1[e].last = 0 ELSE Alone /\ (\A e \in X \cup {w1} : c1[e].boss = E!Nobody)
  /\ c8 => Alone /\ c4 = {}
  /\ c1[w1] # E!NoEmp => \A e \in X : c1[e] # E!NoEmp
\* Corrections are not asked for when requests overlap, and there is one account.
AccountsSmall == ~(c8 /\ c9) /\ (c8 => (\A e \in Y : c4[e] = {}) /\ \E u \in X : c1[u] = A!NoUser)
PeopleSmall ==
  CASE story = "Leave"    -> LeaveSmall
    [] story = "Claims"   -> ClaimsSmall
    [] story = "Salary"   -> SalarySmall
    [] story = "Policy"   -> PolicySmall
    [] story = "Blackout" -> BlackoutSmall
    [] story = "Onboard"  -> OnboardSmall
    [] story = "Hiring"   -> HiringSmall
    [] story = "Staff"    -> StaffSmall
    [] story = "Accounts" -> AccountsSmall

-----------------------------------------------------------------------------
(* Properties: of each area the type invariants and the safety of its components. *)

\* The balance of a leave type is kept, a leave has one open cancellation (leave.py), what is granted is what the
\* assignments in force say (payroll_master.py), and the readers of the blackout rules agree (leave_blackout.py).
LeaveKept ==
  /\ story = "Leave"    => L!TypeOK /\ L!BalanceKept /\ L!OneOpenCancellation
  /\ story = "Policy"   => P!TypeOK /\ P!GrantsFollow /\ P!AssignmentsHold
  /\ story = "Blackout" => B!TypeOK /\ B!RulesApart /\ B!ReadersAgree
\* What the screens offer of a claim is accepted (expense.py, employee_services.py, leave_extra.py).
ClaimsKept == story = "Claims" => C!TypeOK /\ C!OfferedIsAccepted
\* One assignment of an employee at a time, and payroll periods apart (payroll_master.py).
PayMastersAgree == story = "Salary" => S!TypeOK /\ S!OneAssignment /\ S!PeriodsApart
\* Nobody is left with the ToDo of an onboarding that ended (onboarding.py), nobody applies for an opening that is
\* gone (recruitment.py), who has left has no shift
\* (employee_lifecycle.py), and the account of an employee has his role (admin.py, user_profile.py).
StaffKept ==
  /\ story = "Onboard"  => O!TypeOK /\ O!CancelledLeavesNoTodo
  /\ story = "Hiring"   => H!TypeOK /\ H!OpeningIsThere
  /\ story = "Staff"    => E!TypeOK /\ E!LeftHasNoShift
  /\ story = "Accounts" => A!TypeOK /\ A!LinkedHasRole
\* A decision about a leave stands, whoever decides at the same time (leave.py, approval.py), a claim is approved
\* as it stands (expense.py, employee_services.py, leave_extra.py), who was accepted stays accepted
\* (recruitment.py), and days with punches stay, whoever leaves (employee_lifecycle.py).
NothingTakenBack ==
  [][/\ story = "Leave"  => L!Stands
     /\ story = "Claims" => C!AsItStands
     /\ story = "Hiring" => H!AcceptedStays
     /\ story = "Staff"  => E!DayStays]_vars
=============================================================================
