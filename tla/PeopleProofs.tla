---------------------------- MODULE PeopleProofs ----------------------------
(* Theorems about the components of the people side, for any number of rows, people and requests: leave, leave
policies and blackouts, expense claims and services, salary masters, recruitment, onboarding, leaving and accounts.
Every component is an instance of its module; its variables and constants have the names they have there, and what
two of them name alike is one, but for the constants renamed below. *)
EXTENDS Integers, FiniteSets, FiniteSetTheorems, WellFoundedInduction, TLAPS
CONSTANTS
  Employees, Days, Requests, Overlaps, Faults,
  Leaves, Cancels, Tasks, Allocated,
  Docs, Kinds, Amounts,
  Structures, Slots, Periods, Bases,
  Policies, LeavePeriods, LeaveTypes,
  Rules, Applied, Branches, RuleTypes, Forms, PageSize,
  Onboardings, Templates, People, Rows,
  Openings, Applicants, Rounds,
  Staff,
  Users, Holders, PORTAL_ROLES, ProfileRoles
VARIABLES
  req, held, overlap, faulty,
  leave, ledger, cr, task,
  kind, doc,
  structure, ssa, mode, period, used, report,
  policy, assignment, granted,
  rule, waived,
  template, ob, todo,
  opening, applicant, interview, offer, onboarded,
  emp, shift, day, draft,
  user, link, asked

Lv == INSTANCE Leave
Cl == INSTANCE Claims
Ss == INSTANCE SalarySetup
Lp == INSTANCE LeavePolicy WITH Periods <- LeavePeriods
Bo == INSTANCE Blackout WITH Leaves <- Applied, LeaveTypes <- RuleTypes
On == INSTANCE Onboarding
Hi == INSTANCE Hiring
Li == INSTANCE Lifecycle WITH Employees <- Staff
Ac == INSTANCE Accounts WITH Employees <- Holders

-----------------------------------------------------------------------------
(* Numbers and finite sets. *)

\* Some naturals have a least one.
LEMMA LeastExists ==
  ASSUME NEW S \in SUBSET Nat, S # {}
  PROVE  \E x \in S : \A y \in S : x <= y
  <1> DEFINE Less == {p \in Nat \X Nat : p[1] < p[2]}
  <1>1. OpToRel(<, Nat) = Less
    BY Zenon DEF OpToRel
  <1>2. IsWellFoundedOn(Less, Nat)
    BY <1>1, NatLessThanWellFounded, Zenon
  <1>3. PICK x \in S : \A y \in S : <<y, x>> \notin Less
    BY <1>2, WFMin
  <1> SUFFICES ASSUME NEW y \in S PROVE x <= y
    OBVIOUS
  <1>4. x \in Nat /\ y \in Nat /\ <<y, x>> \in Nat \X Nat
    OBVIOUS
  <1>5. ~(y < x)
    BY <1>3, <1>4
  <1> QED BY <1>4, <1>5

\* Finitely many naturals have a greatest one: the one that fewest of them reach.
LEMMA GreatestExists ==
  ASSUME NEW S \in SUBSET Nat, S # {}, IsFiniteSet(S)
  PROVE  \E x \in S : \A y \in S : x >= y
  <1> DEFINE From(x) == {y \in S : y >= x}
             Counts == {Cardinality(From(x)) : x \in S}
  <1>1. \A x \in S : IsFiniteSet(From(x)) /\ Cardinality(From(x)) \in Nat
    BY FS_Subset, FS_CardinalityType
  <1>2. Counts \in SUBSET Nat /\ Counts # {}
    BY <1>1
  <1>3. PICK x \in S : \A y \in S : Cardinality(From(x)) <= Cardinality(From(y))
    <2>1. PICK c \in Counts : \A d \in Counts : c <= d
      BY <1>2, LeastExists
    <2> QED BY <2>1
  <1>4. ASSUME NEW y \in S, y > x PROVE FALSE
    <2>0. x \in Nat /\ y \in Nat
      OBVIOUS
    <2>1. From(y) \subseteq From(x) /\ x \in From(x) /\ x \notin From(y)
      <3>1. ASSUME NEW z \in S, z >= y PROVE z >= x
        <4>1. z \in Nat
          OBVIOUS
        <4> QED BY <1>4, <2>0, <3>1, <4>1
      <3>2. x >= x /\ ~(x >= y)
        BY <1>4, <2>0
      <3> QED BY <3>1, <3>2
    <2>2. From(y) # From(x)
      BY <2>1
    <2>3. Cardinality(From(y)) < Cardinality(From(x))
      BY <1>1, <2>1, <2>2, FS_Subset
    <2> QED BY <1>1, <1>3, <2>3
  <1> QED BY <1>4

\* The values of a function on a finite set are finitely many.
LEMMA ImageFinite ==
  ASSUME NEW S, IsFiniteSet(S), NEW f, DOMAIN f = S, f = [x \in S |-> f[x]]
  PROVE  IsFiniteSet({f[x] : x \in S})
  <1> DEFINE T == {f[x] : x \in S}
  <1>1. f \in Surjection(S, T)
    BY DEF Surjection
  <1> HIDE DEF T
  <1>2. IsFiniteSet(T)
    BY <1>1, FS_Surjection
  <1> QED BY <1>2 DEF T

\* One snapshot is held at most.
LEMMA HeldCount ==
  ASSUME NEW S, S = {} \/ \E v : S = {v}
  PROVE  Cardinality(S) <= 1
  <1>1. Cardinality(S) = 0 \/ Cardinality(S) = 1
    BY FS_EmptySet, FS_Singleton
  <1> QED BY <1>1


\* The counts of the components are those of the library.
LEMMA LvCounts == \A S : (Lv!IsFiniteSet(S) <=> IsFiniteSet(S)) /\ Lv!Cardinality(S) = Cardinality(S)
  BY DEF Lv!IsFiniteSet, IsFiniteSet, Lv!Cardinality, Cardinality
LEMMA SsCounts == \A S : (Ss!IsFiniteSet(S) <=> IsFiniteSet(S)) /\ Ss!Cardinality(S) = Cardinality(S)
  BY DEF Ss!IsFiniteSet, IsFiniteSet, Ss!Cardinality, Cardinality
LEMMA BoCounts == \A S : (Bo!IsFiniteSet(S) <=> IsFiniteSet(S)) /\ Bo!Cardinality(S) = Cardinality(S)
  BY DEF Bo!IsFiniteSet, IsFiniteSet, Bo!Cardinality, Cardinality
LEMMA HiCounts == \A S : (Hi!IsFiniteSet(S) <=> IsFiniteSet(S)) /\ Hi!Cardinality(S) = Cardinality(S)
  BY DEF Hi!IsFiniteSet, IsFiniteSet, Hi!Cardinality, Cardinality
LEMMA LiCounts == \A S : (Li!IsFiniteSet(S) <=> IsFiniteSet(S)) /\ Li!Cardinality(S) = Cardinality(S)
  BY DEF Li!IsFiniteSet, IsFiniteSet, Li!Cardinality, Cardinality

-----------------------------------------------------------------------------
(* Leave. *)

\* Finitely many leaves and days, and an allocation of a number of days.
LeaveAmounts == /\ IsFiniteSet(Leaves) /\ IsFiniteSet(Days) /\ Allocated \in Nat
                /\ Overlaps \subseteq BOOLEAN

LeaveDoc  == [status : Lv!LeaveStates, ds : 0..2, days : SUBSET Days]
CancelDoc == [state : Lv!OpenCancellation \cup {"Approved", "Rejected"}, of : Leaves,
              recalculated : BOOLEAN]
TaskDoc   == [status : Lv!HANDOVER_STATUSES, ds : 0..2, of : Leaves]
LeaveRows  == [Leaves -> LeaveDoc \cup {Lv!NoLeave}]
CancelRows == [Cancels -> CancelDoc \cup {Lv!NoCancel}]
TaskRows   == [Tasks -> TaskDoc \cup {Lv!NoTask}]
LeaveBooks      == [Leaves -> SUBSET Days]
LeaveSnapshots  == [leave : LeaveRows, ledger : LeaveBooks, cr : CancelRows, task : TaskRows,
               fresh : SUBSET Lv!Names]
LeaveTyped ==
  /\ leave \in LeaveRows /\ ledger \in LeaveBooks /\ cr \in CancelRows /\ task \in TaskRows
  /\ req \in [Requests -> LeaveSnapshots \cup {Lv!Idle}] /\ overlap \in BOOLEAN

\* An open leave is a draft.
OpenIsDraft == \A k \in Leaves : leave[k].status = "Open" => leave[k].ds = 0

\* What the snapshot s shows of a row whose stamp is still current is the row.  (A handover
\* minted since has no row in s.)
LeaveShows(s) ==
  /\ \A k \in Leaves : k \in s.fresh => s.leave[k] = leave[k]
  /\ \A c \in Cancels : c \in s.fresh => s.cr[c] = cr[c]
  /\ \A t \in Tasks : t \in s.fresh /\ s.task[t] # Lv!NoTask => s.task[t] = task[t]
LeaveCurrent == \A r \in Requests : Lv!Runs(r) => LeaveShows(req[r])

\* Without overlaps one request runs, and all it read is still so.
LeaveAlone == ~overlap => \A r, q \in Requests : Lv!Runs(r) /\ Lv!Runs(q) => r = q
LeaveWhole(s) == s.leave = leave /\ s.ledger = ledger /\ s.cr = cr /\ s.task = task
LeaveExact == ~overlap => \A r \in Requests : Lv!Runs(r) => LeaveWhole(req[r])

CancelsOpened(k) == {c \in Cancels : cr[c].of = k /\ cr[c].state \in Lv!OpenCancellation}
OneOpened == ~overlap => \A k \in Leaves : \A c, d \in CancelsOpened(k) : c = d

LeaveBase == LeaveTyped /\ OpenIsDraft /\ LeaveCurrent /\ LeaveAlone /\ LeaveExact

-----------------------------------------------------------------------------
(* Rows and requests. *)

LEMMA LeaveDocs ==
  /\ \A x \in LeaveDoc \cup {Lv!NoLeave} : x.status # "None" => x \in LeaveDoc
  /\ \A x \in LeaveDoc \cup {Lv!NoLeave} : x.ds # 0 => x \in LeaveDoc
  /\ \A x \in CancelDoc \cup {Lv!NoCancel} : x.state # "None" => x \in CancelDoc
  /\ \A x \in TaskDoc \cup {Lv!NoTask} : x # Lv!NoTask => x \in TaskDoc
  BY DEF Lv!NoLeave, Lv!NoCancel

LEMMA LeaveDecided ==
  ASSUME NEW w \in LeaveDoc, NEW st \in Lv!LeaveStates, NEW n \in 0..2
  PROVE  /\ [w EXCEPT !.status = st, !.ds = n] \in LeaveDoc
         /\ [w EXCEPT !.status = st, !.ds = n].status = st
         /\ [w EXCEPT !.status = st, !.ds = n].days = w.days
  <1> DEFINE N == 0..2
  <1>1. w \in [status : Lv!LeaveStates, ds : N, days : SUBSET Days] /\ n \in N
    BY DEF LeaveDoc
  <1> HIDE DEF N
  <1>2. /\ [w EXCEPT !.status = st, !.ds = n] \in [status : Lv!LeaveStates, ds : N, days : SUBSET Days]
        /\ [w EXCEPT !.status = st, !.ds = n].status = st
        /\ [w EXCEPT !.status = st, !.ds = n].days = w.days
    BY <1>1
  <1> QED BY <1>2 DEF LeaveDoc, N

LEMMA LeaveNumbers == 1 \in 0..2 /\ 2 \in 0..2
  OBVIOUS

LEMMA LeaveSnapshot ==
  ASSUME LeaveTyped, NEW r \in Requests, Lv!Runs(r)
  PROVE  req[r] \in LeaveSnapshots
  BY DEF LeaveTyped, Lv!Runs

\* The requests that are left when one commits.
LEMMA LeaveOthersLeft ==
  ASSUME LeaveTyped, NEW r \in Requests, NEW names, Lv!Commits(r, names)
  PROVE  /\ overlap' = overlap /\ req' \in [Requests -> LeaveSnapshots \cup {Lv!Idle}]
         /\ \A q \in Requests : Lv!Runs(q)' =>
              /\ q # r /\ Lv!Runs(q) /\ req'[q].fresh = req[q].fresh \ names
              /\ req'[q].leave = req[q].leave /\ req'[q].ledger = req[q].ledger
              /\ req'[q].cr = req[q].cr /\ req'[q].task = req[q].task
  <1>1. ASSUME NEW q \in Requests
        PROVE  /\ req'[q] \in LeaveSnapshots \cup {Lv!Idle}
               /\ Lv!Runs(q)' =>
                    /\ q # r /\ Lv!Runs(q) /\ req'[q].fresh = req[q].fresh \ names
                    /\ req'[q].leave = req[q].leave /\ req'[q].ledger = req[q].ledger
                    /\ req'[q].cr = req[q].cr /\ req'[q].task = req[q].task
    <2>1. CASE q = r \/ req[q] = Lv!Idle
      BY <2>1 DEF Lv!Commits, Lv!Runs
    <2>2. CASE q # r /\ req[q] # Lv!Idle
      <3>1. req[q] \in LeaveSnapshots
        BY <2>2 DEF LeaveTyped
      <3>2. req'[q] = [req[q] EXCEPT !.fresh = @ \ names]
        BY <2>2 DEF Lv!Commits
      <3>3. PICK s : s = req[q]
        OBVIOUS
      <3>4. /\ [s EXCEPT !.fresh = @ \ names] \in LeaveSnapshots
            /\ [s EXCEPT !.fresh = @ \ names].fresh = s.fresh \ names
            /\ [s EXCEPT !.fresh = @ \ names].leave = s.leave
            /\ [s EXCEPT !.fresh = @ \ names].ledger = s.ledger
            /\ [s EXCEPT !.fresh = @ \ names].cr = s.cr
            /\ [s EXCEPT !.fresh = @ \ names].task = s.task
        BY <3>1, <3>3 DEF LeaveSnapshots
      <3> QED BY <2>2, <3>2, <3>3, <3>4 DEF Lv!Runs
    <2> QED BY <2>1, <2>2
  <1>2. overlap' = overlap /\ DOMAIN req' = Requests /\ req' = [q \in Requests |-> req'[q]]
    BY DEF Lv!Commits
  <1> QED BY <1>1, <1>2

\* A step that gives every row it changes a new stamp.
LeaveStamped(names) ==
  /\ \A k \in Leaves : leave'[k] # leave[k] => k \in names
  /\ \A c \in Cancels : cr'[c] # cr[c] => c \in names
  /\ \A t \in Tasks : task[t] # Lv!NoTask /\ task'[t] # task[t] => t \in names

LEMMA LeaveCommitKeeps ==
  ASSUME LeaveBase, NEW r \in Requests, NEW names, Lv!Commits(r, names), Lv!Runs(r), LeaveStamped(names)
  PROVE  LeaveCurrent' /\ LeaveAlone' /\ LeaveExact'
  <1>1. /\ overlap' = overlap
        /\ \A q \in Requests : Lv!Runs(q)' =>
              /\ q # r /\ Lv!Runs(q) /\ req'[q].fresh = req[q].fresh \ names
              /\ req'[q].leave = req[q].leave /\ req'[q].ledger = req[q].ledger
              /\ req'[q].cr = req[q].cr /\ req'[q].task = req[q].task
    BY LeaveOthersLeft DEF LeaveBase
  <1>2. ASSUME NEW q \in Requests, Lv!Runs(q)' PROVE LeaveShows(req[q])'
    <2>1. LeaveShows(req[q]) /\ req'[q].fresh = req[q].fresh \ names /\ req'[q].leave = req[q].leave
          /\ req'[q].cr = req[q].cr /\ req'[q].task = req[q].task
      BY <1>1, <1>2 DEF LeaveBase, LeaveCurrent
    <2> QED BY <2>1 DEF LeaveShows, LeaveStamped
  <1>3. ~overlap => \A q \in Requests : ~Lv!Runs(q)'
    BY <1>1 DEF LeaveBase, LeaveAlone
  <1> QED BY <1>1, <1>2, <1>3 DEF LeaveCurrent, LeaveAlone, LeaveExact

-----------------------------------------------------------------------------
(* One action at a time: the tables keep their types and every row changed has a new stamp. *)

LeaveTables == leave \in LeaveRows /\ ledger \in LeaveBooks /\ cr \in CancelRows /\ task \in TaskRows

LEMMA PutLeave ==
  ASSUME LeaveTyped, NEW k \in Leaves, NEW x \in LeaveDoc \cup {Lv!NoLeave},
         leave' = [leave EXCEPT ![k] = x]
  PROVE  leave' \in LeaveRows /\ leave'[k] = x /\ \A j \in Leaves \ {k} : leave'[j] = leave[j]
  BY DEF LeaveTyped, LeaveRows

LeaveStep(names) == LeaveTables' /\ OpenIsDraft' /\ LeaveStamped(names)

LEMMA PutLeaveStep ==
  ASSUME LeaveBase, NEW k \in Leaves, NEW x \in LeaveDoc \cup {Lv!NoLeave},
         x.status = "Open" => x.ds = 0, leave' = [leave EXCEPT ![k] = x],
         ledger' \in LeaveBooks, UNCHANGED cr, UNCHANGED task
  PROVE  LeaveStep({k})
  <1>1. leave' \in LeaveRows /\ leave'[k] = x /\ \A j \in Leaves \ {k} : leave'[j] = leave[j]
    BY PutLeave DEF LeaveBase
  <1>2. LeaveTables'
    BY <1>1 DEF LeaveTables, LeaveBase, LeaveTyped
  <1>3. OpenIsDraft'
    BY <1>1 DEF OpenIsDraft, LeaveBase
  <1> QED BY <1>1, <1>2, <1>3 DEF LeaveStep, LeaveStamped

LEMMA LeaveApplySteps ==
  ASSUME LeaveBase, NEW r \in Requests, NEW k \in Leaves, NEW days \in SUBSET Days,
         Lv!apply(r, k, days) \/ Lv!update_draft(r, k, days)
  PROVE  LeaveStep({k})
  <1>1. PICK x : x = [status |-> "Open", ds |-> 0, days |-> days]
    OBVIOUS
  <1>2. x \in LeaveDoc /\ x.ds = 0
    BY <1>1 DEF LeaveDoc, Lv!LeaveStates
  <1>3. leave' = [leave EXCEPT ![k] = x] /\ UNCHANGED <<ledger, cr, task>>
    BY <1>1 DEF Lv!apply, Lv!update_draft
  <1> QED BY <1>2, <1>3, PutLeaveStep DEF LeaveBase, LeaveTyped

LEMMA LeaveDeleteSteps ==
  ASSUME LeaveBase, NEW r \in Requests, NEW k \in Leaves, Lv!Deletes(r, k)
  PROVE  LeaveStep({k})
  <1>1. leave' = [leave EXCEPT ![k] = Lv!NoLeave] /\ UNCHANGED <<ledger, cr, task>>
    BY DEF Lv!Deletes
  <1>2. Lv!NoLeave.ds = 0
    BY DEF Lv!NoLeave
  <1> QED BY <1>1, <1>2, PutLeaveStep DEF LeaveBase, LeaveTyped

\* The leave a decision reads is the leave there is, a draft.
LEMMA OpenRead ==
  ASSUME LeaveBase, NEW r \in Requests, NEW k \in Leaves, Lv!Runs(r),
         req[r].leave[k].status = "Open", Lv!Saves(req[r], {k})
  PROVE  req[r].leave[k] = leave[k] /\ leave[k] \in LeaveDoc /\ leave[k].ds = 0
  <1>1. req[r].leave[k] = leave[k]
    BY DEF LeaveBase, LeaveCurrent, LeaveShows, Lv!Saves
  <1>2. leave[k] \in LeaveDoc \cup {Lv!NoLeave}
    BY DEF LeaveBase, LeaveTyped, LeaveRows
  <1> QED BY <1>1, <1>2, LeaveDocs DEF LeaveBase, OpenIsDraft

LEMMA LeaveRejectSteps ==
  ASSUME LeaveBase, NEW r \in Requests, NEW k \in Leaves, Lv!_reject_one(r, k)
  PROVE  LeaveStep({k}) /\ leave[k].ds = 0
  <1>1. PICK w : w = req[r].leave[k]
    OBVIOUS
  <1>2. w \in LeaveDoc /\ leave[k].ds = 0
    BY <1>1, OpenRead DEF Lv!_reject_one
  <1>3. PICK x : x = [w EXCEPT !.status = "Rejected", !.ds = 1]
    OBVIOUS
  <1>4. x \in LeaveDoc /\ x.status = "Rejected"
    BY <1>2, <1>3, LeaveDecided, LeaveNumbers DEF Lv!LeaveStates
  <1>5. leave' = [leave EXCEPT ![k] = x] /\ UNCHANGED <<ledger, cr, task>>
    BY <1>1, <1>3 DEF Lv!_reject_one
  <1> QED BY <1>2, <1>4, <1>5, PutLeaveStep DEF LeaveBase, LeaveTyped

LEMMA LeaveBulkSteps ==
  ASSUME LeaveBase, NEW r \in Requests, NEW k \in Leaves, Lv!bulk_approve_leave_applications(r, k)
  PROVE  LeaveStep({k}) /\ leave[k].ds = 0
  <1>1. PICK w : w = req[r].leave[k]
    OBVIOUS
  <1>2. w \in LeaveDoc /\ leave[k].ds = 0
    BY <1>1, OpenRead DEF Lv!bulk_approve_leave_applications
  <1>3. PICK x : x = [w EXCEPT !.status = "Approved", !.ds = 1]
    OBVIOUS
  <1>4. x \in LeaveDoc /\ x.status = "Approved"
    BY <1>2, <1>3, LeaveDecided, LeaveNumbers DEF Lv!LeaveStates
  <1>5. leave' = [leave EXCEPT ![k] = x] /\ UNCHANGED <<ledger, cr, task>>
    BY <1>1, <1>3 DEF Lv!bulk_approve_leave_applications
  <1> QED BY <1>2, <1>4, <1>5, PutLeaveStep DEF LeaveBase, LeaveTyped

LEMMA ApproveSteps ==
  ASSUME LeaveBase, NEW r \in Requests, NEW k \in Leaves, Lv!_approve_one(r, k)
  PROVE  LeaveStep({k}) /\ leave[k].ds = 0 /\ UNCHANGED cr /\ Lv!Commits(r, {k})
  <1>1. PICK w : w = req[r].leave[k]
    OBVIOUS
  <1>2. w \in LeaveDoc /\ leave[k].ds = 0
    BY <1>1, OpenRead DEF Lv!_approve_one
  <1>3. PICK x : x = [w EXCEPT !.status = "Approved", !.ds = 1]
    OBVIOUS
  <1>4. x \in LeaveDoc /\ x.status = "Approved"
    BY <1>2, <1>3, LeaveDecided, LeaveNumbers DEF Lv!LeaveStates
  <1>5. /\ leave' = [leave EXCEPT ![k] = x] /\ ledger' = [ledger EXCEPT ![k] = w.days]
        /\ UNCHANGED cr /\ Lv!_maybe_mint_handover(r, k) /\ Lv!Commits(r, {k})
    BY <1>1, <1>3 DEF Lv!_approve_one
  <1>6. leave' \in LeaveRows /\ leave'[k] = x /\ \A j \in Leaves \ {k} : leave'[j] = leave[j]
    BY <1>4, <1>5, PutLeave DEF LeaveBase
  <1>7. w.days \in SUBSET Days
    BY <1>2 DEF LeaveDoc
  <1>8. ledger' \in LeaveBooks
    BY <1>5, <1>7 DEF LeaveBase, LeaveTyped, LeaveBooks
  <1>9. task' \in TaskRows /\ \A t \in Tasks : task[t] # Lv!NoTask => task'[t] = task[t]
    <2>1. CASE UNCHANGED task
      BY <2>1 DEF LeaveBase, LeaveTyped
    <2>2. ASSUME NEW t \in Tasks, task[t] = Lv!NoTask,
                 task' = [task EXCEPT ![t] = [status |-> "Pending", ds |-> 0, of |-> k]]
          PROVE  task' \in TaskRows /\ \A u \in Tasks : task[u] # Lv!NoTask => task'[u] = task[u]
      <3>1. [status |-> "Pending", ds |-> 0, of |-> k] \in TaskDoc
        BY DEF TaskDoc, Lv!HANDOVER_STATUSES
      <3> QED BY <2>2, <3>1 DEF LeaveBase, LeaveTyped, TaskRows
    <2> QED BY <1>5, <2>1, <2>2 DEF Lv!_maybe_mint_handover
  <1>10. LeaveTables'
    BY <1>5, <1>6, <1>8, <1>9 DEF LeaveTables, LeaveBase, LeaveTyped
  <1>11. OpenIsDraft'
    BY <1>4, <1>6 DEF OpenIsDraft, LeaveBase
  <1> QED BY <1>2, <1>5, <1>6, <1>9, <1>10, <1>11 DEF LeaveStep, LeaveStamped

LEMMA AskSteps ==
  ASSUME LeaveBase, NEW r \in Requests, NEW k \in Leaves, NEW c \in Cancels,
         Lv!request_cancellation(r, k, c)
  PROVE  LeaveStep({k, c}) /\ UNCHANGED <<leave, ledger>>
  <1>1. PICK x : x = [state |-> "Pending Manager", of |-> k, recalculated |-> FALSE]
    OBVIOUS
  <1>2. x \in CancelDoc
    BY <1>1 DEF CancelDoc, Lv!OpenCancellation
  <1>3. cr' = [cr EXCEPT ![c] = x] /\ UNCHANGED <<leave, ledger, task>>
    BY <1>1 DEF Lv!request_cancellation
  <1>4. cr' \in CancelRows /\ \A d \in Cancels \ {c} : cr'[d] = cr[d]
    BY <1>2, <1>3 DEF LeaveBase, LeaveTyped, CancelRows
  <1> QED BY <1>3, <1>4 DEF LeaveStep, LeaveStamped, LeaveTables, LeaveBase, LeaveTyped, OpenIsDraft

\* A cancellation request that is read as open and saved is the one there is.
LEMMA AskedRead ==
  ASSUME LeaveBase, NEW r \in Requests, NEW c \in Cancels, Lv!Runs(r),
         req[r].cr[c].state \in Lv!OpenCancellation, Lv!Saves(req[r], {c})
  PROVE  req[r].cr[c] = cr[c] /\ cr[c] \in CancelDoc /\ cr[c].of \in Leaves
  <1>1. req[r].cr[c] = cr[c]
    BY DEF LeaveBase, LeaveCurrent, LeaveShows, Lv!Saves
  <1>2. cr[c] \in CancelDoc \cup {Lv!NoCancel} /\ cr[c].state # "None"
    BY <1>1 DEF LeaveBase, LeaveTyped, CancelRows, Lv!OpenCancellation
  <1>3. cr[c] \in CancelDoc
    BY <1>2, LeaveDocs
  <1> QED BY <1>1, <1>3 DEF CancelDoc

LEMMA SaveSteps ==
  ASSUME LeaveBase, NEW r \in Requests, NEW c \in Cancels, NEW st \in {"Rejected", "Draft"}, Lv!Runs(r),
         req[r].cr[c].state \in Lv!OpenCancellation, Lv!SaveCancellation(r, c, st)
  PROVE  /\ LeaveStep({c}) /\ Lv!Commits(r, {c}) /\ UNCHANGED <<leave, ledger>>
         /\ cr[c].state \in Lv!OpenCancellation /\ cr'[c].of = cr[c].of
         /\ \A d \in Cancels \ {c} : cr'[d] = cr[d]
  <1>1. PICK w : w = cr[c]
    OBVIOUS
  <1>2. w \in CancelDoc /\ w = req[r].cr[c]
    BY <1>1, AskedRead DEF Lv!SaveCancellation
  <1>3. PICK x : x = [w EXCEPT !.state = st]
    OBVIOUS
  <1>4. x \in CancelDoc /\ x.of = w.of
    BY <1>2, <1>3 DEF CancelDoc, Lv!OpenCancellation
  <1>5. /\ cr' = [cr EXCEPT ![c] = x] /\ Lv!Commits(r, {c}) /\ UNCHANGED <<leave, ledger, task>>
    BY <1>1, <1>3 DEF Lv!SaveCancellation
  <1>6. cr' \in CancelRows /\ cr'[c] = x /\ \A d \in Cancels \ {c} : cr'[d] = cr[d]
    BY <1>4, <1>5 DEF LeaveBase, LeaveTyped, CancelRows
  <1> QED BY <1>1, <1>2, <1>4, <1>5, <1>6 DEF LeaveStep, LeaveStamped, LeaveTables, LeaveBase, LeaveTyped, OpenIsDraft

\* The approval of a cancellation changes its leave at most, from submitted to cancelled.
LEMMA LeaveCancelSteps ==
  ASSUME LeaveBase, NEW r \in Requests, NEW c \in Cancels, Lv!_approve_cancellation_one(r, c)
  PROVE  /\ LeaveStep({c, cr[c].of}) /\ Lv!Commits(r, {c, cr[c].of})
         /\ cr[c].of \in Leaves /\ cr[c].state \in Lv!OpenCancellation
         /\ cr'[c].state = "Approved" /\ cr'[c].of = cr[c].of
         /\ \A d \in Cancels \ {c} : cr'[d] = cr[d]
         /\ \A j \in Leaves : leave'[j] # leave[j] =>
               j = cr[c].of /\ leave'[j].status = "Cancelled" /\ leave'[j].days = leave[j].days
         /\ \A j \in Leaves : leave'[j] # leave[j] => leave'[j].ds = 2
         /\ \A j \in Leaves : ledger'[j] \subseteq ledger[j]
  <1>1. PICK w : w = cr[c]
    OBVIOUS
  <1>2. PICK k : k = w.of
    OBVIOUS
  <1>3. w \in CancelDoc /\ w = req[r].cr[c] /\ k \in Leaves /\ w.state \in Lv!OpenCancellation
    BY <1>1, <1>2, AskedRead DEF Lv!_approve_cancellation_one
  <1>4. PICK b \in BOOLEAN : b = Lv!Recalculated(r, k)
    BY DEF Lv!Recalculated
  <1>5. PICK x : x = [w EXCEPT !.state = "Approved", !.recalculated = b]
    OBVIOUS
  <1>6. x \in CancelDoc /\ x.of = w.of /\ x.state = "Approved"
    BY <1>3, <1>5 DEF CancelDoc, Lv!OpenCancellation
  <1>7. cr' = [cr EXCEPT ![c] = x] /\ Lv!_cancel_linked_leave(r, k) /\ Lv!Commits(r, {c, k})
        /\ UNCHANGED task
    BY <1>1, <1>2, <1>3, <1>4, <1>5 DEF Lv!_approve_cancellation_one
  <1>8. cr' \in CancelRows /\ cr'[c] = x /\ \A d \in Cancels \ {c} : cr'[d] = cr[d]
    BY <1>6, <1>7 DEF LeaveBase, LeaveTyped, CancelRows
  <1>9. CASE req[r].leave[k].ds = 1 /\ Lv!Saves(req[r], {k})
    <2>1. PICK l : l = leave[k]
      OBVIOUS
    <2>2. l = req[r].leave[k] /\ l \in LeaveDoc
      <3>1. Lv!Runs(r)
        BY DEF Lv!_approve_cancellation_one
      <3>2. l = req[r].leave[k]
        BY <1>3, <1>9, <2>1, <3>1 DEF LeaveBase, LeaveCurrent, LeaveShows, Lv!Saves
      <3>3. l \in LeaveDoc \cup {Lv!NoLeave} /\ l.ds = 1
        BY <1>3, <1>9, <2>1, <3>2 DEF LeaveBase, LeaveTyped, LeaveRows
      <3> QED BY <3>2, <3>3, LeaveDocs
    <2>3. PICK y : y = [l EXCEPT !.status = "Cancelled", !.ds = 2]
      OBVIOUS
    <2>4. y \in LeaveDoc /\ y.status = "Cancelled" /\ y.days = l.days
      <3>1. l \in LeaveDoc /\ "Cancelled" \in Lv!LeaveStates /\ 2 \in 0..2
        BY <2>2, LeaveNumbers DEF Lv!LeaveStates
      <3> DEFINE N == 0..2
      <3>2. l \in [status : Lv!LeaveStates, ds : N, days : SUBSET Days] /\ 2 \in N
        BY <3>1 DEF LeaveDoc
      <3> HIDE DEF N
      <3>3. /\ y \in [status : Lv!LeaveStates, ds : N, days : SUBSET Days]
            /\ y.status = "Cancelled" /\ y.days = l.days
        BY <2>3, <3>1, <3>2
      <3> QED BY <3>3 DEF LeaveDoc, N
    <2>5. y.ds = 2
      BY <2>2, <2>3 DEF LeaveDoc
    <2>6. leave' = [leave EXCEPT ![k] = y] /\ ledger' = [ledger EXCEPT ![k] = {}]
      BY <1>7, <1>9, <2>1, <2>3 DEF Lv!_cancel_linked_leave
    <2>7. leave' \in LeaveRows /\ leave'[k] = y /\ \A j \in Leaves \ {k} : leave'[j] = leave[j]
      BY <1>3, <2>4, <2>6, PutLeave DEF LeaveBase
    <2>8. ledger' \in LeaveBooks /\ \A j \in Leaves : ledger'[j] \subseteq ledger[j]
      BY <1>3, <2>6 DEF LeaveBase, LeaveTyped, LeaveBooks
    <2>9. LeaveTables'
      BY <1>7, <1>8, <2>7, <2>8 DEF LeaveTables, LeaveBase, LeaveTyped
    <2>10. OpenIsDraft'
      BY <2>4, <2>7 DEF OpenIsDraft, LeaveBase
    <2>11. LeaveStep({c, k})
      BY <1>7, <1>8, <2>7, <2>9, <2>10 DEF LeaveStep, LeaveStamped
    <2> QED BY <1>1, <1>2, <1>3, <1>6, <1>7, <1>8, <2>1, <2>4, <2>5, <2>7, <2>8, <2>11
  <1>10. CASE ~(req[r].leave[k].ds = 1 /\ Lv!Saves(req[r], {k}))
    <2>1. UNCHANGED <<leave, ledger>>
      BY <1>7, <1>10 DEF Lv!_cancel_linked_leave
    <2>2. LeaveStep({c, k})
      BY <1>7, <1>8, <2>1 DEF LeaveStep, LeaveStamped, LeaveTables, LeaveBase, LeaveTyped, OpenIsDraft
    <2> QED BY <1>1, <1>2, <1>3, <1>6, <1>7, <1>8, <2>1, <2>2
  <1> QED BY <1>9, <1>10

-----------------------------------------------------------------------------
(* Handover tasks. *)

LEMMA TaskSteps ==
  ASSUME LeaveBase, NEW r \in Requests, NEW t \in Tasks,
         \/ \E k \in Leaves, status \in Lv!HANDOVER_STATUSES : Lv!create_handover(r, t, k, status)
         \/ \E k \in Leaves : Lv!update_handover(r, t, k)
         \/ \E new \in Lv!HANDOVER_STATUSES : Lv!update_handover_status(r, t, new)
         \/ Lv!delete_handover(r, t)
  PROVE  LeaveStep({t}) /\ Lv!Commits(r, {t}) /\ Lv!Runs(r) /\ UNCHANGED <<leave, ledger, cr>>
  <1>1. ASSUME NEW x \in TaskDoc \cup {Lv!NoTask}, task' = [task EXCEPT ![t] = x],
               Lv!Commits(r, {t}), Lv!Runs(r), UNCHANGED <<leave, ledger, cr>>
        PROVE  LeaveStep({t}) /\ Lv!Commits(r, {t}) /\ Lv!Runs(r) /\ UNCHANGED <<leave, ledger, cr>>
    <2>1. task' \in TaskRows /\ \A u \in Tasks \ {t} : task'[u] = task[u]
      BY <1>1 DEF LeaveBase, LeaveTyped, TaskRows
    <2> QED BY <1>1, <2>1 DEF LeaveStep, LeaveStamped, LeaveTables, LeaveBase, LeaveTyped, OpenIsDraft
  <1>2. ASSUME NEW k \in Leaves, NEW status \in Lv!HANDOVER_STATUSES, Lv!create_handover(r, t, k, status)
        PROVE  LeaveStep({t}) /\ Lv!Commits(r, {t}) /\ Lv!Runs(r) /\ UNCHANGED <<leave, ledger, cr>>
    <2>1. [status |-> status, ds |-> 0, of |-> k] \in TaskDoc
      BY DEF TaskDoc
    <2> QED BY <1>1, <1>2, <2>1 DEF Lv!create_handover
  <1>3. Lv!delete_handover(r, t) =>
          LeaveStep({t}) /\ Lv!Commits(r, {t}) /\ Lv!Runs(r) /\ UNCHANGED <<leave, ledger, cr>>
    BY <1>1 DEF Lv!delete_handover
  <1>4. ASSUME Lv!Runs(r), Lv!Saves(req[r], {t}), req[r].task[t] # Lv!NoTask
        PROVE  task[t] \in TaskDoc
    <2>1. req[r].task[t] = task[t]
      BY <1>4 DEF LeaveBase, LeaveCurrent, LeaveShows, Lv!Saves
    <2>2. task[t] \in TaskDoc \cup {Lv!NoTask}
      BY DEF LeaveBase, LeaveTyped, TaskRows
    <2> QED BY <1>4, <2>1, <2>2
  <1>5. ASSUME NEW k \in Leaves, Lv!update_handover(r, t, k)
        PROVE  LeaveStep({t}) /\ Lv!Commits(r, {t}) /\ Lv!Runs(r) /\ UNCHANGED <<leave, ledger, cr>>
    <2>1. task[t] \in TaskDoc
      <3>1. req[r].task[t].status # "None" /\ Lv!Runs(r) /\ Lv!Saves(req[r], {t})
        BY <1>5 DEF Lv!update_handover
      <3>2. req[r].task[t] # Lv!NoTask
        BY <3>1 DEF Lv!NoTask
      <3> QED BY <1>4, <3>1, <3>2
    <2>2. PICK x : x = [task[t] EXCEPT !.of = k]
      OBVIOUS
    <2>3. x \in TaskDoc
      BY <2>1, <2>2 DEF TaskDoc
    <2>4. task' = [task EXCEPT ![t] = x]
      BY <1>5, <2>2 DEF Lv!update_handover
    <2> QED BY <1>1, <1>5, <2>3, <2>4 DEF Lv!update_handover
  <1>6. ASSUME NEW new \in Lv!HANDOVER_STATUSES, Lv!update_handover_status(r, t, new)
        PROVE  LeaveStep({t}) /\ Lv!Commits(r, {t}) /\ Lv!Runs(r) /\ UNCHANGED <<leave, ledger, cr>>
    <2>1. task[t] \in TaskDoc
      BY <1>4, <1>6 DEF Lv!update_handover_status
    <2>2. PICK n \in 0..2 :
            n = IF req[r].task[t].ds = 1 THEN 2 ELSE IF new = "Completed" THEN 1 ELSE 0
      OBVIOUS
    <2>3. PICK x : x = [task[t] EXCEPT !.status = new, !.ds = n]
      OBVIOUS
    <2>4. x \in TaskDoc
      <3> DEFINE N == 0..2
      <3>1. task[t] \in [status : Lv!HANDOVER_STATUSES, ds : N, of : Leaves] /\ n \in N
        BY <2>1, <2>2 DEF TaskDoc
      <3> HIDE DEF N
      <3>2. x \in [status : Lv!HANDOVER_STATUSES, ds : N, of : Leaves]
        BY <2>3, <3>1
      <3> QED BY <3>2 DEF TaskDoc, N
    <2>5. task' = [task EXCEPT ![t] = x]
      BY <1>6, <2>2, <2>3 DEF Lv!update_handover_status
    <2> QED BY <1>1, <1>6, <2>4, <2>5 DEF Lv!update_handover_status
  <1> QED BY <1>2, <1>3, <1>5, <1>6

-----------------------------------------------------------------------------
(* The base: types, drafts, and what a request knows. *)

LEMMA LeaveBeginKeeps ==
  ASSUME LeaveBase, NEW r \in Requests, Lv!Begin(r)
  PROVE  LeaveBase'
  <1>1. PICK s : s = [leave |-> leave, ledger |-> ledger, cr |-> cr, task |-> task, fresh |-> Lv!Names]
    OBVIOUS
  <1>2. s \in LeaveSnapshots
    BY <1>1 DEF LeaveBase, LeaveTyped, LeaveSnapshots
  <1>3. s.leave = leave /\ s.ledger = ledger /\ s.cr = cr /\ s.task = task
    BY <1>1
  <1>4. /\ req' = [req EXCEPT ![r] = s] /\ UNCHANGED <<leave, ledger, cr, task, overlap>>
        /\ overlap \/ \A q \in Requests : req[q] = Lv!Idle
    BY <1>1 DEF Lv!Begin
  <1>5. \A q \in Requests : q # r => req'[q] = req[q] /\ (Lv!Runs(q)' <=> Lv!Runs(q))
    BY <1>4 DEF LeaveBase, LeaveTyped, Lv!Runs
  <1>6. req'[r] = s
    BY <1>4 DEF LeaveBase, LeaveTyped
  <1>7. LeaveTyped'
    BY <1>2, <1>4 DEF LeaveBase, LeaveTyped
  <1>8. LeaveCurrent'
    BY <1>3, <1>4, <1>5, <1>6 DEF LeaveBase, LeaveCurrent, LeaveShows
  <1>9. LeaveAlone' /\ LeaveExact'
    BY <1>3, <1>4, <1>5, <1>6 DEF LeaveBase, LeaveAlone, LeaveExact, LeaveWhole, Lv!Runs
  <1> QED BY <1>4, <1>7, <1>8, <1>9 DEF LeaveBase, OpenIsDraft

LEMMA LeaveStepKeeps ==
  ASSUME LeaveBase, NEW r \in Requests, NEW names, Lv!Runs(r), Lv!Commits(r, names), LeaveStep(names)
  PROVE  LeaveBase'
  <1>1. LeaveTyped'
    BY LeaveOthersLeft DEF LeaveBase, LeaveTyped, LeaveStep, LeaveTables
  <1> QED BY <1>1, LeaveCommitKeeps DEF LeaveBase, LeaveStep

\* What changes the tables, by name.
LeaveActs(r) ==
  \/ \E k \in Leaves :
       \/ \E days \in SUBSET Days : Lv!apply(r, k, days) \/ Lv!update_draft(r, k, days)
       \/ Lv!Deletes(r, k) /\ Lv!Runs(r)
       \/ Lv!_reject_one(r, k) \/ Lv!bulk_approve_leave_applications(r, k) \/ Lv!_approve_one(r, k)
       \/ \E c \in Cancels : Lv!request_cancellation(r, k, c)
  \/ \E c \in Cancels :
       \/ Lv!_approve_cancellation_one(r, c)
       \/ \E st \in {"Rejected", "Draft"} : /\ Lv!Runs(r) /\ req[r].cr[c].state \in Lv!OpenCancellation
                                            /\ Lv!SaveCancellation(r, c, st)
  \/ \E t \in Tasks :
       \/ \E k \in Leaves, status \in Lv!HANDOVER_STATUSES : Lv!create_handover(r, t, k, status)
       \/ \E k \in Leaves : Lv!update_handover(r, t, k)
       \/ \E new \in Lv!HANDOVER_STATUSES : Lv!update_handover_status(r, t, new)
       \/ Lv!delete_handover(r, t)

LEMMA LeaveSteps ==
  ASSUME Lv!Next
  PROVE  \E r \in Requests : Lv!Begin(r) \/ Lv!Abort(r) \/ LeaveActs(r)
  <1>1. PICK r \in Requests :
          \/ Lv!Begin(r) \/ Lv!Abort(r)
          \/ \E k \in Leaves :
               \/ \E days \in SUBSET Days \ {{}} : Lv!apply(r, k, days) \/ Lv!update_draft(r, k, days)
               \/ Lv!cancel_draft_or_pending(r, k) \/ Lv!delete_draft(r, k)
               \/ Lv!_approve_one(r, k) \/ Lv!_reject_one(r, k) \/ Lv!bulk_approve_leave_applications(r, k)
               \/ \E c \in Cancels : Lv!request_cancellation(r, k, c)
               \/ \E t \in Tasks : \/ \E status \in Lv!HANDOVER_STATUSES : Lv!create_handover(r, t, k, status)
                                   \/ Lv!update_handover(r, t, k)
          \/ \E c \in Cancels :
               Lv!_approve_cancellation_one(r, c) \/ Lv!_reject_cancellation_one(r, c) \/ Lv!return_request(r, c)
          \/ \E t \in Tasks :
               \/ \E new \in Lv!HANDOVER_STATUSES : Lv!update_handover_status(r, t, new)
               \/ Lv!delete_handover(r, t)
    BY DEF Lv!Next
  <1>2. ASSUME NEW k \in Leaves, Lv!cancel_draft_or_pending(r, k) \/ Lv!delete_draft(r, k)
        PROVE  Lv!Deletes(r, k) /\ Lv!Runs(r)
    BY <1>2 DEF Lv!cancel_draft_or_pending, Lv!delete_draft
  <1>3. ASSUME NEW c \in Cancels, Lv!_reject_cancellation_one(r, c) \/ Lv!return_request(r, c)
        PROVE  \E st \in {"Rejected", "Draft"} : /\ Lv!Runs(r) /\ req[r].cr[c].state \in Lv!OpenCancellation
                                                /\ Lv!SaveCancellation(r, c, st)
    BY <1>3 DEF Lv!_reject_cancellation_one, Lv!return_request
  <1> QED BY <1>1, <1>2, <1>3 DEF LeaveActs

LEMMA LeaveActKeeps ==
  ASSUME LeaveBase, NEW r \in Requests, LeaveActs(r)
  PROVE  LeaveBase'
  <1>1. ASSUME NEW k \in Leaves, NEW days \in SUBSET Days, Lv!apply(r, k, days) \/ Lv!update_draft(r, k, days)
        PROVE  LeaveBase'
    BY <1>1, LeaveApplySteps, LeaveStepKeeps DEF Lv!apply, Lv!update_draft
  <1>2. ASSUME NEW k \in Leaves, Lv!Deletes(r, k), Lv!Runs(r) PROVE LeaveBase'
    BY <1>2, LeaveDeleteSteps, LeaveStepKeeps DEF Lv!Deletes
  <1>3. ASSUME NEW k \in Leaves, Lv!_reject_one(r, k) PROVE LeaveBase'
    BY <1>3, LeaveRejectSteps, LeaveStepKeeps DEF Lv!_reject_one
  <1>4. ASSUME NEW k \in Leaves, Lv!bulk_approve_leave_applications(r, k) PROVE LeaveBase'
    BY <1>4, LeaveBulkSteps, LeaveStepKeeps DEF Lv!bulk_approve_leave_applications
  <1>5. ASSUME NEW k \in Leaves, Lv!_approve_one(r, k) PROVE LeaveBase'
    BY <1>5, ApproveSteps, LeaveStepKeeps DEF Lv!_approve_one
  <1>6. ASSUME NEW k \in Leaves, NEW c \in Cancels, Lv!request_cancellation(r, k, c) PROVE LeaveBase'
    BY <1>6, AskSteps, LeaveStepKeeps DEF Lv!request_cancellation
  <1>7. ASSUME NEW c \in Cancels, Lv!_approve_cancellation_one(r, c) PROVE LeaveBase'
    BY <1>7, LeaveCancelSteps, LeaveStepKeeps DEF Lv!_approve_cancellation_one
  <1>8. ASSUME NEW c \in Cancels, NEW st \in {"Rejected", "Draft"}, Lv!Runs(r),
               req[r].cr[c].state \in Lv!OpenCancellation, Lv!SaveCancellation(r, c, st)
        PROVE  LeaveBase'
    BY <1>8, SaveSteps, LeaveStepKeeps
  <1>9. ASSUME NEW t \in Tasks,
               \/ \E k \in Leaves, status \in Lv!HANDOVER_STATUSES : Lv!create_handover(r, t, k, status)
               \/ \E k \in Leaves : Lv!update_handover(r, t, k)
               \/ \E new \in Lv!HANDOVER_STATUSES : Lv!update_handover_status(r, t, new)
               \/ Lv!delete_handover(r, t)
        PROVE  LeaveBase'
    BY <1>9, TaskSteps, LeaveStepKeeps
  <1> QED BY <1>1, <1>2, <1>3, <1>4, <1>5, <1>6, <1>7, <1>8, <1>9 DEF LeaveActs

LEMMA LeaveAbortKeeps ==
  ASSUME LeaveBase, NEW r \in Requests, Lv!Abort(r)
  PROVE  LeaveBase' /\ UNCHANGED <<leave, ledger, cr, task, overlap>>
  <1>1. Lv!Commits(r, {}) /\ Lv!Runs(r) /\ UNCHANGED <<leave, ledger, cr, task>>
    BY DEF Lv!Abort
  <1>2. LeaveStep({})
    BY <1>1 DEF LeaveStep, LeaveStamped, LeaveTables, LeaveBase, LeaveTyped, OpenIsDraft
  <1> QED BY <1>1, <1>2, LeaveStepKeeps DEF Lv!Commits

LEMMA BaseHolds ==
  ASSUME LeaveAmounts
  PROVE  Lv!Spec => []LeaveBase
  <1>1. Lv!Init => LeaveBase
    <2> SUFFICES ASSUME Lv!Init PROVE LeaveBase
      OBVIOUS
    <2>1. LeaveTyped
      BY DEF Lv!Init, LeaveAmounts, LeaveTyped, LeaveRows, CancelRows, TaskRows, LeaveBooks
    <2> QED BY <2>1 DEF Lv!Init, LeaveBase, OpenIsDraft, Lv!NoLeave, LeaveCurrent, LeaveAlone, LeaveExact, Lv!Runs
  <1>2. LeaveBase /\ [Lv!Next]_Lv!vars => LeaveBase'
    <2> SUFFICES ASSUME LeaveBase, [Lv!Next]_Lv!vars PROVE LeaveBase'
      OBVIOUS
    <2>1. CASE Lv!Next
      BY <2>1, LeaveSteps, LeaveBeginKeeps, LeaveAbortKeeps, LeaveActKeeps
    <2>2. CASE UNCHANGED Lv!vars
      <3>1. UNCHANGED <<leave, ledger, cr, task, req, overlap>>
        BY <2>2 DEF Lv!vars
      <3> QED BY <3>1 DEF LeaveBase, LeaveTyped, OpenIsDraft, LeaveCurrent, LeaveShows, Lv!Runs, LeaveAlone, LeaveExact, LeaveWhole
    <2> QED BY <2>1, <2>2
  <1> QED BY <1>1, <1>2, PTL DEF Lv!Spec

-----------------------------------------------------------------------------
(* A decision stands. *)

LEMMA DecisionStep ==
  ASSUME LeaveBase, [Lv!Next]_Lv!vars
  PROVE  Lv!Stands
  <1> DEFINE Kept(k) == leave[k].ds = 1 /\ leave'[k] # leave[k] /\ (overlap => leave'[k] # Lv!NoLeave) =>
                /\ leave'[k].status = "Cancelled" /\ leave'[k].days = leave[k].days
                /\ \E c \in Cancels : cr[c].of = k /\ cr[c].state # "Approved" /\ cr'[c].state = "Approved"
  <1>1. ASSUME NEW k \in Leaves, leave[k].ds # 1, \A j \in Leaves \ {k} : leave'[j] = leave[j]
        PROVE  Lv!Stands
    BY <1>1 DEF Lv!Stands
  <1>2. ASSUME NEW r \in Requests, LeaveActs(r)
        PROVE  Lv!Stands
    <2>1. ASSUME NEW k \in Leaves, NEW days \in SUBSET Days, Lv!apply(r, k, days)
          PROVE  Lv!Stands
      <3>1. leave[k].ds # 1 /\ leave' = [leave EXCEPT ![k] = [status |-> "Open", ds |-> 0, days |-> days]]
        BY <2>1 DEF Lv!apply, Lv!NoLeave
      <3> QED BY <1>1, <3>1 DEF LeaveBase, LeaveTyped, LeaveRows
    <2>2. ASSUME NEW k \in Leaves, NEW days \in SUBSET Days, Lv!update_draft(r, k, days)
          PROVE  Lv!Stands
      <3>1. /\ Lv!Runs(r) /\ k \in req[r].fresh /\ req[r].leave[k].ds = 0
            /\ leave' = [leave EXCEPT ![k] = [status |-> "Open", ds |-> 0, days |-> days]]
        BY <2>2 DEF Lv!update_draft, Lv!Saves
      <3>2. leave[k].ds # 1
        BY <3>1 DEF LeaveBase, LeaveCurrent, LeaveShows
      <3> QED BY <1>1, <3>1, <3>2 DEF LeaveBase, LeaveTyped, LeaveRows
    <2>3. ASSUME NEW k \in Leaves, Lv!Deletes(r, k), Lv!Runs(r)
          PROVE  Lv!Stands
      <3>1. leave' = [leave EXCEPT ![k] = Lv!NoLeave] /\ req[r].leave[k].ds = 0
        BY <2>3 DEF Lv!Deletes
      <3>2. leave'[k] = Lv!NoLeave /\ \A j \in Leaves \ {k} : leave'[j] = leave[j]
        BY <3>1 DEF LeaveBase, LeaveTyped, LeaveRows
      <3>3. ~overlap => leave[k].ds = 0
        BY <2>3, <3>1 DEF LeaveBase, LeaveExact, LeaveWhole
      <3>4. CASE overlap
        BY <3>2, <3>4 DEF Lv!Stands
      <3>5. CASE ~overlap
        BY <1>1, <3>2, <3>3, <3>5
      <3> QED BY <3>4, <3>5
    <2>4. ASSUME NEW k \in Leaves,
                 Lv!_reject_one(r, k) \/ Lv!bulk_approve_leave_applications(r, k) \/ Lv!_approve_one(r, k)
          PROVE  Lv!Stands
      <3>1. leave[k].ds = 0 /\ LeaveStep({k})
        BY <2>4, LeaveRejectSteps, LeaveBulkSteps, ApproveSteps
      <3> QED BY <1>1, <3>1 DEF LeaveStep, LeaveStamped
    <2>5. ASSUME UNCHANGED leave PROVE Lv!Stands
      BY <2>5 DEF Lv!Stands
    <2>6. ASSUME NEW k \in Leaves, NEW c \in Cancels, Lv!request_cancellation(r, k, c) PROVE Lv!Stands
      BY <2>5, <2>6 DEF Lv!request_cancellation
    <2>7. ASSUME NEW c \in Cancels, Lv!_approve_cancellation_one(r, c) PROVE Lv!Stands
      <3>1. \A j \in Leaves : leave'[j] # leave[j] =>
              j = cr[c].of /\ leave'[j].status = "Cancelled" /\ leave'[j].days = leave[j].days
        BY <2>7, LeaveCancelSteps
      <3>2. cr[c].state # "Approved" /\ cr'[c].state = "Approved"
        BY <2>7, LeaveCancelSteps DEF Lv!OpenCancellation
      <3> QED BY <3>1, <3>2 DEF Lv!Stands
    <2>8. ASSUME NEW c \in Cancels, NEW st \in {"Rejected", "Draft"}, Lv!SaveCancellation(r, c, st)
          PROVE  Lv!Stands
      BY <2>5, <2>8 DEF Lv!SaveCancellation
    <2>9. ASSUME NEW t \in Tasks,
               \/ \E k \in Leaves, status \in Lv!HANDOVER_STATUSES : Lv!create_handover(r, t, k, status)
               \/ \E k \in Leaves : Lv!update_handover(r, t, k)
               \/ \E new \in Lv!HANDOVER_STATUSES : Lv!update_handover_status(r, t, new)
               \/ Lv!delete_handover(r, t)
          PROVE  Lv!Stands
      <3>1. UNCHANGED leave
        BY <2>9, TaskSteps
      <3> QED BY <2>5, <3>1
    <2> QED BY <1>2, <2>1, <2>2, <2>3, <2>4, <2>6, <2>7, <2>8, <2>9 DEF LeaveActs
  <1>3. ASSUME UNCHANGED leave PROVE Lv!Stands
    BY <1>3 DEF Lv!Stands
  <1>4. UNCHANGED Lv!vars => UNCHANGED leave
    BY DEF Lv!vars
  <1>5. \A r \in Requests : Lv!Begin(r) \/ Lv!Abort(r) => UNCHANGED leave
    BY DEF Lv!Begin, Lv!Abort
  <1> QED BY <1>2, <1>3, <1>4, <1>5, LeaveSteps

\* Approved and rejected leaves change only by the approval of a cancellation, and keep their
\* days; only a delete that overlapped the decision takes one away.
THEOREM DecisionsStand ==
  ASSUME LeaveAmounts
  PROVE  Lv!Spec => Lv!DecisionStands
  <1>1. LeaveBase /\ [Lv!Next]_Lv!vars => Lv!Stands
    BY DecisionStep
  <1>2. Lv!Spec => []LeaveBase
    BY BaseHolds
  <1> QED BY <1>1, <1>2, PTL DEF Lv!Spec, Lv!DecisionStands

-----------------------------------------------------------------------------
(* One open cancellation of a leave. *)

LEMMA OneOpenStep ==
  ASSUME LeaveBase, OneOpened, [Lv!Next]_Lv!vars
  PROVE  OneOpened'
  <1>1. ASSUME UNCHANGED cr, UNCHANGED overlap PROVE OneOpened'
    BY <1>1 DEF OneOpened, CancelsOpened
  <1>2. ASSUME NEW r \in Requests, NEW names, Lv!Commits(r, names), UNCHANGED cr PROVE OneOpened'
    BY <1>1, <1>2 DEF Lv!Commits
  <1>3. ASSUME UNCHANGED overlap, NEW c \in Cancels, \A d \in Cancels \ {c} : cr'[d] = cr[d],
               cr[c].state \in Lv!OpenCancellation, cr'[c].of = cr[c].of
        PROVE  OneOpened'
    <2>1. \A k \in Leaves : CancelsOpened(k)' \subseteq CancelsOpened(k)
      BY <1>3 DEF CancelsOpened
    <2> QED BY <1>3, <2>1 DEF OneOpened
  <1>4. ASSUME NEW r \in Requests, NEW k \in Leaves, NEW c \in Cancels, Lv!request_cancellation(r, k, c)
        PROVE  OneOpened'
    <2>1. /\ cr' = [cr EXCEPT ![c] = [state |-> "Pending Manager", of |-> k, recalculated |-> FALSE]]
          /\ overlap' = overlap /\ Lv!Runs(r)
      BY <1>4 DEF Lv!request_cancellation, Lv!Commits
    <2>2. /\ \A d \in Cancels \ {c} : cr'[d] = cr[d]
          /\ cr'[c].of = k
      BY <2>1 DEF LeaveBase, LeaveTyped, CancelRows
    <2>3. ~overlap => CancelsOpened(k) = {}
      <3>1. ~overlap => req[r].cr = cr
        BY <2>1 DEF LeaveBase, LeaveExact, LeaveWhole
      <3>2. Lv!_open_cancellation_request(req[r], k) = {}
        BY <1>4 DEF Lv!request_cancellation
      <3> QED BY <3>1, <3>2 DEF Lv!_open_cancellation_request, CancelsOpened
    <2>4. \A j \in Leaves \ {k} : CancelsOpened(j)' \subseteq CancelsOpened(j)
      BY <2>2 DEF CancelsOpened
    <2>5. CancelsOpened(k)' \subseteq CancelsOpened(k) \cup {c}
      BY <2>2 DEF CancelsOpened
    <2> SUFFICES ASSUME ~overlap, NEW j \in Leaves, NEW a \in CancelsOpened(j)', NEW d \in CancelsOpened(j)'
                 PROVE  a = d
      BY <2>1 DEF OneOpened
    <2>6. CASE j = k
      BY <2>3, <2>5, <2>6
    <2>7. CASE j # k
      BY <2>4, <2>7 DEF OneOpened
    <2> QED BY <2>6, <2>7
  <1>5. ASSUME NEW r \in Requests, LeaveActs(r) PROVE OneOpened'
    <2>1. ASSUME NEW k \in Leaves, NEW days \in SUBSET Days, Lv!apply(r, k, days) \/ Lv!update_draft(r, k, days)
          PROVE  OneOpened'
      BY <1>2, <2>1 DEF Lv!apply, Lv!update_draft
    <2>2. ASSUME NEW k \in Leaves, Lv!Deletes(r, k) PROVE OneOpened'
      BY <1>2, <2>2 DEF Lv!Deletes
    <2>3. ASSUME NEW k \in Leaves,
                 Lv!_reject_one(r, k) \/ Lv!bulk_approve_leave_applications(r, k) \/ Lv!_approve_one(r, k)
          PROVE  OneOpened'
      BY <1>2, <2>3 DEF Lv!_reject_one, Lv!bulk_approve_leave_applications, Lv!_approve_one
    <2>4. ASSUME NEW c \in Cancels, Lv!_approve_cancellation_one(r, c) PROVE OneOpened'
      <3>1. UNCHANGED overlap
        BY <2>4, LeaveCancelSteps DEF Lv!Commits
      <3> QED BY <1>3, <2>4, <3>1, LeaveCancelSteps
    <2>5. ASSUME NEW c \in Cancels, NEW st \in {"Rejected", "Draft"}, Lv!Runs(r),
                 req[r].cr[c].state \in Lv!OpenCancellation, Lv!SaveCancellation(r, c, st)
          PROVE  OneOpened'
      <3>1. UNCHANGED overlap
        BY <2>5 DEF Lv!SaveCancellation, Lv!Commits
      <3> QED BY <1>3, <2>5, <3>1, SaveSteps
    <2>6. ASSUME NEW t \in Tasks,
               \/ \E k \in Leaves, status \in Lv!HANDOVER_STATUSES : Lv!create_handover(r, t, k, status)
               \/ \E k \in Leaves : Lv!update_handover(r, t, k)
               \/ \E new \in Lv!HANDOVER_STATUSES : Lv!update_handover_status(r, t, new)
               \/ Lv!delete_handover(r, t)
          PROVE  OneOpened'
      BY <1>2, <2>6, TaskSteps
    <2> QED BY <1>4, <1>5, <2>1, <2>2, <2>3, <2>4, <2>5, <2>6 DEF LeaveActs
  <1>6. ASSUME NEW r \in Requests, Lv!Begin(r) \/ Lv!Abort(r) PROVE OneOpened'
    BY <1>1, <1>6 DEF Lv!Begin, Lv!Abort, Lv!Commits
  <1>7. UNCHANGED Lv!vars => UNCHANGED cr /\ UNCHANGED overlap
    BY DEF Lv!vars
  <1> QED BY <1>1, <1>5, <1>6, <1>7, LeaveSteps

\* A leave has one open cancellation request, those sent back included, if no two requests
\* overlap.
THEOREM OneCancellation ==
  ASSUME LeaveAmounts
  PROVE  Lv!Spec => []Lv!OneOpenCancellation
  <1>1. Lv!Init => OneOpened
    BY DEF Lv!Init, OneOpened, CancelsOpened, Lv!NoCancel, Lv!OpenCancellation
  <1>2. LeaveBase /\ OneOpened /\ [Lv!Next]_Lv!vars => OneOpened'
    BY OneOpenStep
  <1>3. OneOpened => Lv!OneOpenCancellation
    <2> SUFFICES ASSUME OneOpened, ~overlap, NEW k \in Leaves PROVE Cardinality(CancelsOpened(k)) <= 1
      BY LvCounts DEF Lv!OneOpenCancellation, CancelsOpened
    <2>1. CASE CancelsOpened(k) = {}
      BY <2>1, FS_EmptySet
    <2>2. ASSUME NEW c \in CancelsOpened(k) PROVE Cardinality(CancelsOpened(k)) <= 1
      <3>1. CancelsOpened(k) = {c}
        BY <2>2 DEF OneOpened
      <3> QED BY <3>1, FS_Singleton
    <2> QED BY <2>1, <2>2
  <1>4. Lv!Spec => []LeaveBase
    BY BaseHolds
  <1> QED BY <1>1, <1>2, <1>3, <1>4, PTL DEF Lv!Spec

-----------------------------------------------------------------------------
(* The ledger. *)

DaysTaken(l) == {e \in Leaves \X Days : e[2] \in l[e[1]]}

LEMMA DaysTakenFinite ==
  ASSUME LeaveAmounts, NEW l
  PROVE  IsFiniteSet(DaysTaken(l)) /\ Lv!Used(l) = Cardinality(DaysTaken(l)) /\ Lv!Used(l) \in Nat
  <1>1. IsFiniteSet(Leaves \X Days)
    BY FS_Product DEF LeaveAmounts
  <1>2. IsFiniteSet(DaysTaken(l))
    BY <1>1, FS_Subset DEF DaysTaken
  <1> QED BY LvCounts, <1>2, FS_CardinalityType DEF Lv!Used, DaysTaken

LEMMA LedgerShrinks ==
  ASSUME LeaveAmounts, NEW l, NEW m, \A k \in Leaves : m[k] \subseteq l[k]
  PROVE  Lv!Used(m) <= Lv!Used(l)
  <1>1. DaysTaken(m) \subseteq DaysTaken(l)
    BY DEF DaysTaken
  <1> QED BY <1>1, DaysTakenFinite, FS_Subset

\* An entry takes its days at most.
LEMMA LedgerGrows ==
  ASSUME LeaveAmounts, NEW l \in LeaveBooks, NEW k \in Leaves, NEW days \in SUBSET Days
  PROVE  Lv!Used([l EXCEPT ![k] = days]) <= Lv!Used(l) + Cardinality(days)
  <1>1. PICK m : m = [l EXCEPT ![k] = days]
    OBVIOUS
  <1>2. m[k] = days /\ \A j \in Leaves \ {k} : m[j] = l[j]
    BY <1>1 DEF LeaveBooks
  <1> DEFINE D == {k} \X days
  <1>3. IsFiniteSet(days) /\ Cardinality(days) \in Nat
    BY FS_Subset, FS_CardinalityType DEF LeaveAmounts
  <1>4. IsFiniteSet({k}) /\ Cardinality({k}) = 1
    BY FS_Singleton
  <1>5. IsFiniteSet(D) /\ Cardinality(D) = Cardinality(days)
    BY <1>3, <1>4, FS_Product
  <1>6. DaysTaken(m) \subseteq DaysTaken(l) \cup D
    BY <1>2 DEF DaysTaken
  <1> HIDE DEF D
  <1>7. IsFiniteSet(DaysTaken(l)) /\ IsFiniteSet(DaysTaken(m))
    BY DaysTakenFinite
  <1>8. /\ IsFiniteSet(DaysTaken(l) \cup D)
        /\ Cardinality(DaysTaken(l) \cup D) <= Cardinality(DaysTaken(l)) + Cardinality(D)
    <2>1. PICK T : T = DaysTaken(l)
      OBVIOUS
    <2>2. IsFiniteSet(T) /\ IsFiniteSet(T \cap D)
      BY <1>5, <1>7, <2>1, FS_Subset
    <2>3. Cardinality(T \cap D) \in Nat /\ Cardinality(T) \in Nat /\ Cardinality(D) \in Nat
      BY <1>5, <2>2, FS_CardinalityType
    <2>4. /\ IsFiniteSet(T \cup D)
          /\ Cardinality(T \cup D) = Cardinality(T) + Cardinality(D) - Cardinality(T \cap D)
      BY <1>5, <2>2, FS_Union
    <2> QED BY <2>1, <2>3, <2>4
  <1>9. Cardinality(DaysTaken(m)) <= Cardinality(DaysTaken(l) \cup D)
    BY <1>6, <1>8, FS_Subset
  <1> QED BY <1>1, <1>3, <1>5, <1>7, <1>8, <1>9, DaysTakenFinite, FS_CardinalityType

LEMMA BalanceStep ==
  ASSUME LeaveAmounts, LeaveBase, Lv!BalanceKept, [Lv!Next]_Lv!vars
  PROVE  Lv!BalanceKept'
  <1>1. ASSUME UNCHANGED <<ledger, overlap>> PROVE Lv!BalanceKept'
    BY <1>1 DEF Lv!BalanceKept
  <1>2. ASSUME NEW r \in Requests, NEW names, Lv!Commits(r, names), UNCHANGED ledger PROVE Lv!BalanceKept'
    BY <1>1, <1>2 DEF Lv!Commits
  <1>3. ASSUME NEW r \in Requests, LeaveActs(r) PROVE Lv!BalanceKept'
    <2>1. ASSUME NEW k \in Leaves, NEW days \in SUBSET Days, Lv!apply(r, k, days) \/ Lv!update_draft(r, k, days)
          PROVE  Lv!BalanceKept'
      BY <1>2, <2>1 DEF Lv!apply, Lv!update_draft
    <2>2. ASSUME NEW k \in Leaves, Lv!Deletes(r, k) PROVE Lv!BalanceKept'
      BY <1>2, <2>2 DEF Lv!Deletes
    <2>3. ASSUME NEW k \in Leaves, Lv!_reject_one(r, k) \/ Lv!bulk_approve_leave_applications(r, k)
          PROVE  Lv!BalanceKept'
      BY <1>2, <2>3 DEF Lv!_reject_one, Lv!bulk_approve_leave_applications
    <2>4. ASSUME NEW k \in Leaves, Lv!_approve_one(r, k) PROVE Lv!BalanceKept'
      <3>1. PICK days : days = req[r].leave[k].days
        OBVIOUS
      <3>2. /\ Lv!Runs(r) /\ ledger' = [ledger EXCEPT ![k] = days] /\ overlap' = overlap
            /\ req[r].leave[k].status = "Open" /\ Lv!Saves(req[r], {k})
            /\ Cardinality(days) <= Allocated - Lv!Used(req[r].ledger)
        BY LvCounts, <2>4, <3>1 DEF Lv!_approve_one, Lv!Validate, Lv!Commits
      <3>3. days \in SUBSET Days
        <4>1. req[r].leave[k] \in LeaveDoc
          BY <3>2, OpenRead
        <4> QED BY <3>1, <4>1 DEF LeaveDoc
      <3>4. Lv!Used(ledger') <= Lv!Used(ledger) + Cardinality(days)
        BY <3>2, <3>3, LedgerGrows DEF LeaveBase, LeaveTyped
      <3>5. ~overlap => req[r].ledger = ledger
        BY <3>2 DEF LeaveBase, LeaveExact, LeaveWhole
      <3>6. Lv!Used(ledger) \in Nat /\ Lv!Used(ledger') \in Nat
        BY DaysTakenFinite
      <3>7. Cardinality(days) \in Nat
        BY <3>3, FS_Subset, FS_CardinalityType DEF LeaveAmounts
      <3>8. ~overlap => Lv!Used(ledger') <= Allocated
        BY <3>2, <3>4, <3>5, <3>6, <3>7 DEF LeaveAmounts
      <3> QED BY <3>2, <3>8 DEF Lv!BalanceKept, Lv!Used
    <2>5. ASSUME NEW k \in Leaves, NEW c \in Cancels, Lv!request_cancellation(r, k, c) PROVE Lv!BalanceKept'
      BY <1>2, <2>5 DEF Lv!request_cancellation
    <2>6. ASSUME NEW c \in Cancels, Lv!_approve_cancellation_one(r, c) PROVE Lv!BalanceKept'
      <3>1. UNCHANGED overlap /\ \A j \in Leaves : ledger'[j] \subseteq ledger[j]
        BY <2>6, LeaveCancelSteps DEF Lv!Commits
      <3>2. Lv!Used(ledger') <= Lv!Used(ledger) /\ Lv!Used(ledger) \in Nat /\ Lv!Used(ledger') \in Nat
        BY <3>1, LedgerShrinks, DaysTakenFinite
      <3>3. ~overlap => Lv!Used(ledger') <= Allocated
        BY <3>2 DEF Lv!BalanceKept, LeaveAmounts
      <3> QED BY <3>1, <3>3 DEF Lv!BalanceKept, Lv!Used
    <2>7. ASSUME NEW c \in Cancels, NEW st \in {"Rejected", "Draft"}, Lv!SaveCancellation(r, c, st)
          PROVE  Lv!BalanceKept'
      BY <1>2, <2>7 DEF Lv!SaveCancellation
    <2>8. ASSUME NEW t \in Tasks,
               \/ \E k \in Leaves, status \in Lv!HANDOVER_STATUSES : Lv!create_handover(r, t, k, status)
               \/ \E k \in Leaves : Lv!update_handover(r, t, k)
               \/ \E new \in Lv!HANDOVER_STATUSES : Lv!update_handover_status(r, t, new)
               \/ Lv!delete_handover(r, t)
          PROVE  Lv!BalanceKept'
      BY <1>2, <2>8, TaskSteps
    <2> QED BY <1>3, <2>1, <2>2, <2>3, <2>4, <2>5, <2>6, <2>7, <2>8 DEF LeaveActs
  <1>4. ASSUME NEW r \in Requests, Lv!Begin(r) \/ Lv!Abort(r) PROVE Lv!BalanceKept'
    BY <1>1, <1>4 DEF Lv!Begin, Lv!Abort, Lv!Commits
  <1>5. UNCHANGED Lv!vars => UNCHANGED <<ledger, overlap>>
    BY DEF Lv!vars
  <1> QED BY <1>1, <1>3, <1>4, <1>5, LeaveSteps

\* The ledger takes no more days than are allocated, if no two requests overlap.
THEOREM BalanceHolds ==
  ASSUME LeaveAmounts
  PROVE  Lv!Spec => []Lv!BalanceKept
  <1>1. Lv!Init => Lv!BalanceKept
    <2> SUFFICES ASSUME Lv!Init PROVE Lv!Used(ledger) <= Allocated
      BY DEF Lv!BalanceKept
    <2>1. DaysTaken(ledger) = {}
      BY DEF Lv!Init, DaysTaken
    <2>2. Lv!Used(ledger) = 0
      BY <2>1, DaysTakenFinite, FS_EmptySet
    <2> QED BY <2>2 DEF LeaveAmounts
  <1>2. LeaveBase /\ Lv!BalanceKept /\ [Lv!Next]_Lv!vars => Lv!BalanceKept'
    BY BalanceStep
  <1>3. Lv!Spec => []LeaveBase
    BY BaseHolds
  <1> QED BY <1>1, <1>2, <1>3, PTL DEF Lv!Spec

\* The rows of leaves, cancellations and handovers are of their kinds, whoever else writes.
THEOREM LeavesTyped ==
  ASSUME LeaveAmounts
  PROVE  Lv!Spec => []Lv!TypeOK
  <1>1. LeaveTyped => Lv!TypeOK
    BY DEF LeaveTyped, LeaveRows, LeaveDoc, LeaveBooks, CancelRows, CancelDoc, TaskRows, TaskDoc, Lv!TypeOK
  <1>2. LeaveBase => LeaveTyped
    BY DEF LeaveBase
  <1>3. Lv!Spec => []LeaveBase
    BY BaseHolds
  <1> QED BY <1>1, <1>2, <1>3, PTL

-----------------------------------------------------------------------------
(* Expense claims and employee services. *)

\* No document is called "None", and the kinds are those of the source.
ClaimNames ==
  /\ "None" \notin Docs
  /\ Kinds \subseteq {"Expense", "Encashment", "CompOff", "Travel", "Grievance", "Application", "BenefitClaim",
                     "Promotion", "Gratuity"}

ClaimDs     == 0..2
ClaimStatus == {"Draft", "Open", "Approved", "Rejected", "Investigated", "Resolved", "Invalid"}
ClaimDoc    == [ds : ClaimDs, status : ClaimStatus, amount : Amounts, paid : BOOLEAN, effect : BOOLEAN,
                of : Docs \cup {"None"}]
ClaimRead   == [of : Docs, row : ClaimDoc, fresh : BOOLEAN]

\* An expense claim is a draft, approved or rejected.
Claimable(x) == kind = "Expense" => x.status \in {"Draft", "Approved", "Rejected"}
\* What a request read is the row, as long as the row has the stamp it had.
ClaimInv ==
  /\ ClaimNames /\ kind \in Kinds
  /\ doc \in [Docs -> ClaimDoc \cup {Cl!NoDoc}] /\ req \in [Requests -> ClaimRead \cup {Cl!Idle}]
  /\ \A d \in Docs : doc[d] # Cl!NoDoc => Claimable(doc[d])
  /\ \A r \in Requests : req[r] # Cl!Idle => Claimable(req[r].row)
  /\ \A r \in Requests : req[r] # Cl!Idle /\ req[r].fresh => req[r].row = doc[req[r].of]

-----------------------------------------------------------------------------
(* Rows. *)

LEMMA ClaimValues ==
  /\ 0 \in ClaimDs /\ 1 \in ClaimDs /\ 2 \in ClaimDs
  /\ "Draft" \in ClaimStatus /\ "Open" \in ClaimStatus /\ "Approved" \in ClaimStatus /\ "Rejected" \in ClaimStatus
  /\ "Investigated" \in ClaimStatus /\ "Resolved" \in ClaimStatus /\ "Invalid" \in ClaimStatus
  /\ "None" \notin ClaimStatus
  BY DEF ClaimDs, ClaimStatus

LEMMA ClaimFields ==
  ASSUME NEW x \in ClaimDoc
  PROVE  /\ x.ds \in ClaimDs /\ x.status \in ClaimStatus /\ x.amount \in Amounts /\ x # Cl!NoDoc
  BY ClaimValues DEF ClaimDoc, Cl!NoDoc

LEMMA StatusPut ==
  ASSUME NEW x \in ClaimDoc, NEW st \in ClaimStatus, NEW a \in Amounts
  PROVE  /\ [x EXCEPT !.status = st] \in ClaimDoc
         /\ [x EXCEPT !.status = st].status = st
         /\ [x EXCEPT !.status = st].ds = x.ds
         /\ [x EXCEPT !.amount = a, !.status = st] \in ClaimDoc
         /\ [x EXCEPT !.amount = a, !.status = st].status = st
         /\ [x EXCEPT !.amount = a, !.status = st].ds = x.ds
         /\ [x EXCEPT !.paid = TRUE] \in ClaimDoc
         /\ [x EXCEPT !.paid = TRUE].ds = x.ds
         /\ [x EXCEPT !.paid = TRUE].status = x.status
  BY DEF ClaimDoc

LEMMA StatusEdited ==
  ASSUME NEW x \in ClaimDoc, NEW a \in Amounts
  PROVE  [x EXCEPT !.amount = a, !.status = IF @ = "Rejected" THEN "Draft" ELSE @]
           = [x EXCEPT !.amount = a, !.status = IF x.status = "Rejected" THEN "Draft" ELSE x.status]
  BY DEF ClaimDoc

LEMMA DsPut ==
  ASSUME NEW x \in ClaimDoc, NEW st \in ClaimStatus
  PROVE  /\ [x EXCEPT !.ds = 2] \in ClaimDoc /\ [x EXCEPT !.ds = 2].ds = 2 /\ [x EXCEPT !.ds = 2].status = x.status
         /\ [x EXCEPT !.ds = 2, !.effect = FALSE, !.status = st] \in ClaimDoc
         /\ [x EXCEPT !.ds = 2, !.effect = FALSE, !.status = st].ds = 2
         /\ [x EXCEPT !.ds = 2, !.effect = FALSE, !.status = st].status = st
         /\ [x EXCEPT !.status = st, !.ds = 2, !.effect = FALSE] \in ClaimDoc
         /\ [x EXCEPT !.status = st, !.ds = 2, !.effect = FALSE].ds = 2
         /\ [x EXCEPT !.status = st, !.ds = 2, !.effect = FALSE].status = st
  BY ClaimValues DEF ClaimDoc

LEMMA ApprovedPut ==
  ASSUME NEW x \in ClaimDoc
  PROVE  /\ Cl!Approved(x) \in ClaimDoc /\ Cl!Approved(x).ds = 1 /\ Cl!Approved(x).amount = x.amount
         /\ Cl!Approved(x).status \in {x.status, "Approved"}
         /\ [Cl!Approved(x) EXCEPT !.effect = FALSE] \in ClaimDoc
         /\ [Cl!Approved(x) EXCEPT !.effect = FALSE].ds = 1 /\ [Cl!Approved(x) EXCEPT !.effect = FALSE].amount = x.amount
         /\ [Cl!Approved(x) EXCEPT !.effect = FALSE].status \in {x.status, "Approved"}
  <1> DEFINE y == [x EXCEPT !.status = IF kind \in Cl!DocStatusOnly THEN x.status ELSE "Approved", !.ds = 1, !.effect = TRUE]
  <1>1. Cl!Approved(x) = y
    BY DEF Cl!Approved, ClaimDoc
  <1>2. /\ y \in ClaimDoc /\ y.ds = 1 /\ y.amount = x.amount /\ y.status \in {x.status, "Approved"}
    BY ClaimValues DEF ClaimDoc
  <1> HIDE DEF y
  <1>3. /\ [y EXCEPT !.effect = FALSE] \in ClaimDoc /\ [y EXCEPT !.effect = FALSE].ds = y.ds
        /\ [y EXCEPT !.effect = FALSE].amount = y.amount /\ [y EXCEPT !.effect = FALSE].status = y.status
    BY <1>2 DEF ClaimDoc
  <1> QED BY <1>1, <1>2, <1>3

LEMMA NewDrafts ==
  ASSUME NEW a \in Amounts, NEW d \in Docs
  PROVE  /\ [Cl!NoDoc EXCEPT !.status = Cl!Draft, !.amount = a] \in ClaimDoc
         /\ [Cl!NoDoc EXCEPT !.status = Cl!Draft, !.amount = a].ds = 0
         /\ kind = "Expense" => [Cl!NoDoc EXCEPT !.status = Cl!Draft, !.amount = a].status = "Draft"
         /\ [Cl!NoDoc EXCEPT !.status = "Draft", !.amount = a, !.of = d] \in ClaimDoc
         /\ [Cl!NoDoc EXCEPT !.status = "Draft", !.amount = a, !.of = d].ds = 0
         /\ [Cl!NoDoc EXCEPT !.status = "Draft", !.amount = a, !.of = d].status = "Draft"
  BY ClaimValues DEF ClaimDoc, Cl!NoDoc, Cl!Draft

-----------------------------------------------------------------------------
(* A write of one row, and what it does to the requests that read it. *)

\* x is written to the row d, and no draft is approved by it but the one that stands there.
Writing(d, x) ==
  /\ doc' = [doc EXCEPT ![d] = x] /\ kind' = kind
  /\ x = Cl!NoDoc \/ (x \in ClaimDoc /\ Claimable(x))
  /\ x.ds = 1 /\ doc[d].ds = 0 =>
       /\ doc[d] # Cl!NoDoc /\ x.amount = doc[d].amount
       /\ kind = "Expense" => doc[d].status = "Draft"
\* Requests end, or read what is no longer the row.
Stale(names) ==
  /\ DOMAIN req' = Requests /\ req' = [q \in Requests |-> req'[q]]
  /\ \A q \in Requests : \/ req'[q] = Cl!Idle
                         \/ req[q] \in ClaimRead /\ req'[q] = [req[q] EXCEPT !.fresh = FALSE]
                         \/ req'[q] = req[q] /\ (req[q] # Cl!Idle => req[q].of \notin names)

LEMMA ClaimReadOf ==
  ASSUME ClaimInv, NEW r \in Requests, NEW d, Cl!Reads(r, d)
  PROVE  /\ d \in Docs /\ req[r] # Cl!Idle /\ req[r].of = d /\ req[r].row \in ClaimDoc /\ Claimable(req[r].row)
         /\ req[r].fresh => req[r].row = doc[d]
  BY DEF ClaimInv, Cl!Reads, ClaimRead

LEMMA ClaimReadIs ==
  ASSUME ClaimInv, NEW q \in ClaimRead
  PROVE  /\ q # Cl!Idle /\ [q EXCEPT !.fresh = FALSE] \in ClaimRead /\ [q EXCEPT !.fresh = FALSE] # Cl!Idle
         /\ ~[q EXCEPT !.fresh = FALSE].fresh /\ [q EXCEPT !.fresh = FALSE].row = q.row
  <1>1. \A p \in ClaimRead : p # Cl!Idle
    BY DEF ClaimRead, Cl!Idle, ClaimInv, ClaimNames
  <1>2. /\ [q EXCEPT !.fresh = FALSE] \in ClaimRead
        /\ ~[q EXCEPT !.fresh = FALSE].fresh /\ [q EXCEPT !.fresh = FALSE].row = q.row
    BY DEF ClaimRead
  <1> QED BY <1>1, <1>2

LEMMA StampsGoStale ==
  ASSUME ClaimInv, NEW d \in Docs, req' = Cl!NewStamps({d})
  PROVE  Stale({d})
  BY DEF ClaimInv, Cl!NewStamps, Stale, ClaimRead, Cl!Idle

LEMMA CommitsGoStale ==
  ASSUME ClaimInv, NEW r \in Requests, NEW names, Cl!Commits(r, names)
  PROVE  Stale(names)
  BY DEF ClaimInv, Cl!Commits, Cl!NewStamps, Stale, ClaimRead, Cl!Idle

ClaimStep == \E d \in Docs : \E x : Writing(d, x) /\ Stale({d})

LEMMA ClaimStepKeeps ==
  ASSUME ClaimInv, ClaimStep
  PROVE  ClaimInv' /\ Cl!AsItStands
  <1>0. PICK d \in Docs : \E x : Writing(d, x) /\ Stale({d})
    BY DEF ClaimStep
  <1>1. PICK x : Writing(d, x) /\ Stale({d})
    BY <1>0
  <1>2. /\ doc' \in [Docs -> ClaimDoc \cup {Cl!NoDoc}] /\ doc'[d] = x
        /\ \A e \in Docs \ {d} : doc'[e] = doc[e]
    BY <1>1 DEF Writing, ClaimInv
  <1>3. ASSUME NEW q \in Requests
        PROVE  /\ req'[q] \in ClaimRead \cup {Cl!Idle}
               /\ req'[q] # Cl!Idle => Claimable(req'[q].row) /\ (req'[q].fresh => req'[q].row = doc'[req'[q].of])
    <2>1. CASE req'[q] = Cl!Idle
      BY <2>1
    <2>2. CASE req[q] \in ClaimRead /\ req'[q] = [req[q] EXCEPT !.fresh = FALSE]
      <3>1. [req[q] EXCEPT !.fresh = FALSE] \in ClaimRead /\ ~[req[q] EXCEPT !.fresh = FALSE].fresh
            /\ [req[q] EXCEPT !.fresh = FALSE].row = req[q].row /\ req[q] # Cl!Idle
        BY <2>2, ClaimReadIs
      <3>2. Claimable(req[q].row)
        BY <3>1 DEF ClaimInv
      <3> QED BY <2>2, <3>1, <3>2
    <2>3. CASE req'[q] = req[q] /\ (req[q] # Cl!Idle => req[q].of # d)
      <3>1. req[q] # Cl!Idle => req[q].of \in Docs
        BY DEF ClaimInv, ClaimRead
      <3> QED BY <1>2, <2>3, <3>1 DEF ClaimInv
    <2> QED BY <1>1, <2>1, <2>2, <2>3 DEF Stale
  <1>4. ClaimInv'
    <2>1. req' \in [Requests -> ClaimRead \cup {Cl!Idle}]
      BY <1>1, <1>3 DEF Stale
    <2>2. \A e \in Docs : doc'[e] # Cl!NoDoc => Claimable(doc'[e])
      BY <1>1, <1>2 DEF Writing, ClaimInv
    <2>3. kind' = kind
      BY <1>1 DEF Writing
    <2>4. /\ \A e \in Docs : doc'[e] # Cl!NoDoc => Claimable(doc[e])'
          /\ \A q \in Requests : req'[q] # Cl!Idle => Claimable(req[q].row)'
      BY <1>3, <2>2, <2>3 DEF Claimable
    <2> QED BY <1>2, <1>3, <2>3, <2>1, <2>4 DEF ClaimInv, ClaimNames
  <1>5. Cl!AsItStands
    <2> SUFFICES ASSUME NEW e \in Docs, doc[e].ds = 0, doc'[e].ds = 1
                 PROVE  /\ doc[e] # Cl!NoDoc /\ doc'[e].amount = doc[e].amount
                        /\ kind = "Expense" => doc[e].status = "Draft"
      BY DEF Cl!AsItStands
    <2>1. e = d
      BY <1>2
    <2> QED BY <1>1, <1>2, <2>1 DEF Writing
  <1> QED BY <1>4, <1>5

\* A save writes over the row that was read.
LEMMA SaveWrites ==
  ASSUME ClaimInv, NEW r \in Requests, NEW d, NEW x \in ClaimDoc, Cl!Reads(r, d), Cl!Save(r, d, x), Claimable(x),
         x.ds = 1 /\ req[r].row.ds = 0 =>
           x.amount = req[r].row.amount /\ (kind = "Expense" => req[r].row.status = "Draft")
  PROVE  ClaimStep
  <1>1. d \in Docs /\ req[r].row \in ClaimDoc /\ req[r].row = doc[d]
    BY ClaimReadOf DEF Cl!Save, Cl!Saves
  <1>2. doc[d] # Cl!NoDoc
    BY <1>1, ClaimFields
  <1>3. Writing(d, x)
    BY <1>1, <1>2 DEF Writing, Cl!Save, Cl!Writes, Cl!Commits
  <1>4. Stale({d})
    BY <1>1, CommitsGoStale DEF Cl!Save, Cl!Writes
  <1> QED BY <1>1, <1>3, <1>4 DEF ClaimStep

\* A write of another row, or over whatever the row is.
LEMMA WriteWrites ==
  ASSUME ClaimInv, NEW r \in Requests, NEW d \in Docs, NEW x, Cl!Writes(r, d, x),
         x = Cl!NoDoc \/ (x \in ClaimDoc /\ Claimable(x)), x.ds = 1 => doc[d].ds # 0
  PROVE  ClaimStep
  <1>1. Writing(d, x)
    BY DEF Writing, Cl!Writes, Cl!Commits
  <1>2. Stale({d})
    BY CommitsGoStale DEF Cl!Writes
  <1> QED BY <1>1, <1>2 DEF ClaimStep

-----------------------------------------------------------------------------
(* One request at a time. *)

LEMMA SubmitsSteps ==
  ASSUME ClaimInv, NEW d \in Docs, NEW a \in Amounts, Cl!Submits(d, a)
  PROVE  ClaimStep
  <1> DEFINE x == [Cl!NoDoc EXCEPT !.status = Cl!Draft, !.amount = a]
  <1>1. x \in ClaimDoc /\ x.ds = 0 /\ Claimable(x)
    BY NewDrafts DEF Claimable
  <1> HIDE DEF x
  <1>2. Writing(d, x)
    BY <1>1 DEF Writing, Cl!Submits, x
  <1> QED BY <1>2, StampsGoStale DEF ClaimStep, Cl!Submits

LEMMA UpdatesSteps ==
  ASSUME ClaimInv, NEW r \in Requests, NEW d, NEW a \in Amounts, Cl!Updates(r, d, a)
  PROVE  ClaimStep
  <1> DEFINE w == req[r].row
             st == IF w.status = "Rejected" THEN "Draft" ELSE w.status
             x == [w EXCEPT !.amount = a, !.status = st]
  <1>1. Cl!Reads(r, d) /\ w \in ClaimDoc /\ Claimable(w)
    BY ClaimReadOf DEF Cl!Updates
  <1>2. w.status \in ClaimStatus /\ st \in ClaimStatus
    BY <1>1, ClaimFields, ClaimValues
  <1>3. Cl!Save(r, d, x)
    BY <1>1, StatusEdited DEF Cl!Updates
  <1> HIDE DEF w
  <1>3a. st # "Rejected" /\ (st = w.status \/ st = "Draft")
    OBVIOUS
  <1> HIDE DEF st
  <1>4. x \in ClaimDoc /\ x.status = st /\ x.ds = w.ds
    BY <1>1, <1>2 DEF ClaimDoc
  <1>5. Claimable(x)
    BY <1>1, <1>3a, <1>4 DEF Claimable
  <1> HIDE DEF x
  <1>6. ~(x.ds = 1 /\ w.ds = 0)
    BY <1>4
  <1> QED BY <1>1, <1>3, <1>4, <1>5, <1>6, SaveWrites DEF w

\* Only the status of the row changes.
LEMMA StatusSteps ==
  ASSUME ClaimInv, NEW r \in Requests, NEW d, NEW st \in ClaimStatus, Cl!Reads(r, d),
         Cl!Save(r, d, [req[r].row EXCEPT !.status = st]), kind = "Expense" => st \in {"Approved", "Rejected"}
  PROVE  ClaimStep
  <1> DEFINE w == req[r].row
             x == [w EXCEPT !.status = st]
  <1>1. w \in ClaimDoc
    BY ClaimReadOf
  <1> HIDE DEF w
  <1>2. w.amount \in Amounts
    BY <1>1, ClaimFields
  <1>3. x \in ClaimDoc /\ x.status = st /\ x.ds = w.ds
    BY <1>1, <1>2, StatusPut
  <1>4. Claimable(x)
    BY <1>3 DEF Claimable
  <1>5. Cl!Save(r, d, x)
    BY DEF w
  <1> HIDE DEF x
  <1>6. ~(x.ds = 1 /\ w.ds = 0)
    BY <1>3
  <1> QED BY <1>3, <1>4, <1>5, <1>6, SaveWrites DEF w

LEMMA DeletesSteps ==
  ASSUME ClaimInv, NEW r \in Requests, NEW d, Cl!Deletes(r, d)
  PROVE  ClaimStep
  <1>1. d \in Docs /\ Cl!Writes(r, d, Cl!NoDoc)
    BY ClaimReadOf DEF Cl!Deletes
  <1>2. Cl!NoDoc.ds = 0
    BY DEF Cl!NoDoc
  <1> QED BY <1>1, <1>2, WriteWrites

LEMMA ApprovesSteps ==
  ASSUME ClaimInv, NEW r \in Requests, NEW d, Cl!Approves(r, d) \/ Cl!Caught(r, d)
  PROVE  ClaimStep
  <1> DEFINE w == req[r].row
             y == [Cl!Approved(w) EXCEPT !.effect = FALSE]
  <1>1. Cl!Reads(r, d) /\ w \in ClaimDoc /\ Claimable(w) /\ Cl!MayApprove(w)
    BY ClaimReadOf DEF Cl!Approves, Cl!Caught
  <1>2. kind = "Expense" => w.ds = 0 /\ w.status = "Draft"
    BY <1>1 DEF Cl!MayApprove, Claimable, Cl!LeaveExtra
  <1> HIDE DEF w
  <1>3. /\ Cl!Approved(w) \in ClaimDoc /\ Cl!Approved(w).amount = w.amount /\ Cl!Approved(w).status \in {w.status, "Approved"}
        /\ y \in ClaimDoc /\ y.amount = w.amount /\ y.status \in {w.status, "Approved"}
    BY <1>1, ApprovedPut
  <1>4. Claimable(Cl!Approved(w)) /\ Claimable(y)
    BY <1>1, <1>3 DEF Claimable
  <1>5. Cl!Save(r, d, Cl!Approved(w)) \/ Cl!Save(r, d, y)
    BY DEF Cl!Approves, Cl!Caught, w
  <1> HIDE DEF y
  <1>6. CASE Cl!Save(r, d, Cl!Approved(w))
    BY <1>1, <1>2, <1>3, <1>4, <1>6, SaveWrites DEF w
  <1>7. CASE Cl!Save(r, d, y)
    BY <1>1, <1>2, <1>3, <1>4, <1>7, SaveWrites DEF w
  <1> QED BY <1>5, <1>6, <1>7

LEMMA RejectsSubmittedSteps ==
  ASSUME ClaimInv, NEW r \in Requests, NEW d, Cl!RejectsSubmitted(r, d)
  PROVE  ClaimStep
  <1> DEFINE x == [doc[d] EXCEPT !.status = "Rejected", !.ds = 2, !.effect = FALSE]
  <1>1. d \in Docs /\ doc[d] \in ClaimDoc
    BY ClaimReadOf DEF Cl!RejectsSubmitted, ClaimInv
  <1>2. x \in ClaimDoc /\ x.ds = 2 /\ x.status = "Rejected"
    BY <1>1, DsPut, ClaimValues, ZenonT(30)
  <1>3. Cl!Writes(r, d, x)
    BY DEF Cl!RejectsSubmitted
  <1> HIDE DEF x
  <1> QED BY <1>1, <1>2, <1>3, WriteWrites DEF Claimable

LEMMA CancelsSteps ==
  ASSUME ClaimInv, NEW r \in Requests, NEW d, NEW st, Cl!Cancels(r, d, st),
         st \in {req[r].row.status, "Rejected"} \/ (st = "Draft" /\ kind # "Expense")
  PROVE  ClaimStep
  <1> DEFINE w == req[r].row
             x == [w EXCEPT !.ds = 2, !.effect = FALSE, !.status = st]
  <1>1. Cl!Reads(r, d) /\ w \in ClaimDoc /\ Claimable(w) /\ w.status \in ClaimStatus
    BY ClaimReadOf, ClaimFields DEF Cl!Cancels
  <1>2. st \in ClaimStatus
    BY <1>1, ClaimValues
  <1>3. Cl!Save(r, d, x)
    BY DEF Cl!Cancels
  <1> HIDE DEF w
  <1>4. x \in ClaimDoc /\ x.ds = 2 /\ x.status = st
    BY <1>1, <1>2, DsPut
  <1>5. Claimable(x)
    BY <1>1, <1>4 DEF Claimable, w
  <1> HIDE DEF x
  <1> QED BY <1>1, <1>3, <1>4, <1>5, SaveWrites DEF w

LEMMA CaughtCancelSteps ==
  ASSUME ClaimInv, NEW r \in Requests, NEW d, Cl!Reads(r, d), Cl!Save(r, d, [req[r].row EXCEPT !.ds = 2])
  PROVE  ClaimStep
  <1> DEFINE w == req[r].row
             x == [w EXCEPT !.ds = 2]
  <1>1. w \in ClaimDoc /\ Claimable(w) /\ w.status \in ClaimStatus
    BY ClaimReadOf, ClaimFields
  <1> HIDE DEF w
  <1>2. x \in ClaimDoc /\ x.ds = 2 /\ x.status = w.status
    BY <1>1, DsPut
  <1>3. Claimable(x)
    BY <1>1, <1>2 DEF Claimable
  <1>4. Cl!Save(r, d, x)
    BY DEF w
  <1> HIDE DEF x
  <1> QED BY <1>2, <1>3, <1>4, SaveWrites

LEMMA AmendsSteps ==
  ASSUME ClaimInv, NEW r \in Requests, NEW d \in Docs, NEW new \in Docs, Cl!Amends(r, d, new)
  PROVE  ClaimStep
  <1> DEFINE a == req[r].row.amount
             x == [Cl!NoDoc EXCEPT !.status = "Draft", !.amount = a, !.of = d]
  <1>1. a \in Amounts
    BY ClaimReadOf, ClaimFields DEF Cl!Amends
  <1> HIDE DEF a
  <1>2. x \in ClaimDoc /\ x.ds = 0 /\ x.status = "Draft"
    BY <1>1, NewDrafts
  <1>3. Cl!Writes(r, new, x)
    BY DEF Cl!Amends, a
  <1> HIDE DEF x
  <1> QED BY <1>2, <1>3, WriteWrites DEF Claimable

LEMMA PaidSteps ==
  ASSUME ClaimInv, NEW r \in Requests, NEW d, Cl!mark_expense_paid(r, d)
  PROVE  ClaimStep
  <1> DEFINE x == [doc[d] EXCEPT !.paid = TRUE]
  <1>1. d \in Docs /\ doc[d] \in ClaimDoc /\ Claimable(doc[d]) /\ doc[d].status \in ClaimStatus /\ doc[d].amount \in Amounts
    BY ClaimReadOf, ClaimFields DEF Cl!mark_expense_paid, ClaimInv
  <1>2. x \in ClaimDoc /\ x.ds = doc[d].ds /\ x.status = doc[d].status
    BY <1>1, StatusPut
  <1>3. Cl!Writes(r, d, x)
    BY DEF Cl!mark_expense_paid
  <1>4. Claimable(x)
    BY <1>1, <1>2 DEF Claimable
  <1> HIDE DEF x
  <1> QED BY <1>1, <1>2, <1>3, <1>4, WriteWrites

LEMMA ClaimBegins ==
  ASSUME ClaimInv, NEW r \in Requests, NEW d \in Docs, Cl!Begin(r, d)
  PROVE  ClaimInv' /\ Cl!AsItStands
  <1> DEFINE w == [of |-> d, row |-> doc[d], fresh |-> TRUE]
  <1>1. doc[d] \in ClaimDoc /\ Claimable(doc[d]) /\ w \in ClaimRead
    BY DEF Cl!Begin, ClaimInv, ClaimRead
  <1>2. /\ req' \in [Requests -> ClaimRead \cup {Cl!Idle}] /\ req'[r] = w
        /\ \A q \in Requests \ {r} : req'[q] = req[q]
    BY <1>1 DEF Cl!Begin, ClaimInv
  <1>3. doc' = doc /\ kind' = kind
    BY DEF Cl!Begin
  <1>4. ClaimInv'
    BY <1>1, <1>2, <1>3 DEF ClaimInv, Claimable
  <1> QED BY <1>3, <1>4 DEF Cl!AsItStands

LEMMA ClaimAborts ==
  ASSUME ClaimInv, NEW r \in Requests, Cl!Abort(r)
  PROVE  ClaimInv' /\ Cl!AsItStands
  <1>1. doc' = doc /\ kind' = kind /\ Stale({})
    BY CommitsGoStale DEF Cl!Abort, Cl!Commits
  <1>2. ASSUME NEW q \in Requests
        PROVE  /\ req'[q] \in ClaimRead \cup {Cl!Idle}
               /\ req'[q] # Cl!Idle => Claimable(req'[q].row) /\ (req'[q].fresh => req'[q].row = doc'[req'[q].of])
    <2>1. CASE req'[q] = Cl!Idle
      BY <2>1
    <2>2. CASE req[q] \in ClaimRead /\ req'[q] = [req[q] EXCEPT !.fresh = FALSE]
      <3>1. [req[q] EXCEPT !.fresh = FALSE] \in ClaimRead /\ ~[req[q] EXCEPT !.fresh = FALSE].fresh
            /\ [req[q] EXCEPT !.fresh = FALSE].row = req[q].row /\ req[q] # Cl!Idle
        BY <2>2, ClaimReadIs
      <3>2. Claimable(req[q].row)
        BY <3>1 DEF ClaimInv
      <3> QED BY <2>2, <3>1, <3>2
    <2>3. CASE req'[q] = req[q]
      BY <1>1, <2>3 DEF ClaimInv
    <2> QED BY <1>1, <2>1, <2>2, <2>3 DEF Stale
  <1>3. req' \in [Requests -> ClaimRead \cup {Cl!Idle}]
    BY <1>1, <1>2 DEF Stale
  <1>4. /\ \A e \in Docs : doc'[e] # Cl!NoDoc => Claimable(doc[e])'
        /\ \A q \in Requests : req'[q] # Cl!Idle => Claimable(req[q].row)'
    BY <1>1, <1>2 DEF Claimable, ClaimInv
  <1> QED BY <1>1, <1>2, <1>3, <1>4 DEF ClaimInv, ClaimNames, Cl!AsItStands

-----------------------------------------------------------------------------
LEMMA ClaimInit == ClaimNames /\ Cl!Init => ClaimInv
  BY DEF Cl!Init, ClaimInv, Claimable


ClaimsOf(r, d) ==
  \/ \E a \in Amounts :
       \/ Cl!update_expense_claim(r, d, a) \/ Cl!update_leave_encashment(r, d, a) \/ Cl!update_comp_off(r, d, a)
       \/ Cl!update_travel_request(r, d, a) \/ Cl!update_grievance(r, d, a) \/ Cl!save_benefit_application(r, d, a)
  \/ Cl!_withdraw(r, d) \/ Cl!withdraw_travel_request(r, d) \/ Cl!withdraw_grievance(r, d)
  \/ Cl!delete_leave_extra_draft(r, d) \/ Cl!delete_service_draft(r, d)
Decides(r, d) ==
  \/ Cl!approve_expense_claim(r, d) \/ Cl!approve_leave_encashment(r, d) \/ Cl!approve_comp_off(r, d)
  \/ Cl!approve_travel_request(r, d)
  \/ Cl!reject_expense_claim(r, d) \/ Cl!reject_leave_encashment(r, d) \/ Cl!reject_comp_off(r, d)
  \/ Cl!reject_travel_request(r, d)
  \/ Cl!resolve_grievance(r, d) \/ Cl!invalidate_grievance(r, d)

LEMMA DraftSteps ==
  ASSUME ClaimInv, NEW r \in Requests, NEW d \in Docs, ClaimsOf(r, d)
  PROVE  ClaimStep
  <1>1. ASSUME NEW st \in {"Rejected", "Invalid"}, kind # "Expense", Cl!Withdraws(r, d, st) PROVE ClaimStep
    BY <1>1, StatusSteps, ClaimValues DEF Cl!Withdraws
  <1>2. ASSUME NEW a \in Amounts, Cl!Updates(r, d, a) \/ Cl!Submits(d, a) PROVE ClaimStep
    BY <1>2, UpdatesSteps, SubmitsSteps
  <1>3. CASE \E a \in Amounts : Cl!Updates(r, d, a) \/ Cl!Submits(d, a)
    BY <1>2, <1>3
  <1>4. CASE \E st \in {"Rejected", "Invalid"} : kind # "Expense" /\ Cl!Withdraws(r, d, st)
    BY <1>1, <1>4
  <1>5. CASE Cl!Deletes(r, d)
    BY <1>5, DeletesSteps
  <1> QED BY <1>3, <1>4, <1>5
       DEF ClaimsOf, Cl!update_expense_claim, Cl!update_leave_encashment, Cl!update_comp_off, Cl!update_travel_request,
           Cl!update_grievance, Cl!save_benefit_application, Cl!_withdraw, Cl!withdraw_travel_request, Cl!withdraw_grievance,
           Cl!delete_leave_extra_draft, Cl!delete_service_draft, Cl!LeaveExtra

LEMMA DecideSteps ==
  ASSUME ClaimInv, NEW r \in Requests, NEW d \in Docs, Decides(r, d)
  PROVE  ClaimStep
  <1>1. ASSUME Cl!Approves(r, d) \/ Cl!Caught(r, d) PROVE ClaimStep
    BY <1>1, ApprovesSteps
  <1>2. ASSUME Cl!RejectsDraft(r, d) PROVE ClaimStep
    BY <1>2, StatusSteps, ClaimValues DEF Cl!RejectsDraft
  <1>3. ASSUME Cl!RejectsSubmitted(r, d) PROVE ClaimStep
    BY <1>3, RejectsSubmittedSteps
  <1>4. ASSUME Cl!resolve_grievance(r, d) \/ Cl!invalidate_grievance(r, d) PROVE ClaimStep
    BY <1>4, StatusSteps, ClaimValues DEF Cl!resolve_grievance, Cl!invalidate_grievance
  <1>5. ASSUME kind = "Expense", Cl!Reads(r, d), Cl!Save(r, d, [req[r].row EXCEPT !.status = "Approved"]) PROVE ClaimStep
    BY <1>5, StatusSteps, ClaimValues
  <1> QED BY <1>1, <1>2, <1>3, <1>4, <1>5
       DEF Decides, Cl!approve_expense_claim, Cl!approve_leave_encashment, Cl!approve_comp_off, Cl!approve_travel_request,
           Cl!reject_expense_claim, Cl!reject_leave_encashment, Cl!reject_comp_off, Cl!reject_travel_request

LEMMA AfterSteps ==
  ASSUME ClaimInv, NEW r \in Requests, NEW d \in Docs,
         \/ Cl!investigate_grievance(r, d) \/ Cl!reopen_grievance(r, d)
         \/ Cl!bulk_leave_extra_action(r, d) \/ Cl!bulk_travel_action(r, d)
         \/ Cl!_delegate_expense(r, d) \/ Cl!_delegate_leave_extra(r, d) \/ Cl!_delegate_services(r, d)
         \/ Cl!cancel_expense_claim(r, d) \/ Cl!cancel_travel_request(r, d) \/ Cl!mark_expense_paid(r, d)
         \/ \E new \in Docs : Cl!amend_expense_claim(r, d, new)
         \/ Cl!_doc_action(r, d)
  PROVE  ClaimStep
  <1>1. ASSUME Cl!investigate_grievance(r, d) \/ Cl!reopen_grievance(r, d) PROVE ClaimStep
    BY <1>1, StatusSteps, ClaimValues DEF Cl!investigate_grievance, Cl!reopen_grievance, Cl!MayInvestigate, Cl!MayReopen
  <1>2. ASSUME Cl!bulk_leave_extra_action(r, d) PROVE ClaimStep
    BY <1>2, ApprovesSteps, CaughtCancelSteps DEF Cl!bulk_leave_extra_action
  <1>3. ASSUME \/ Cl!bulk_travel_action(r, d) \/ Cl!_delegate_expense(r, d) \/ Cl!_delegate_leave_extra(r, d)
               \/ Cl!_delegate_services(r, d)
        PROVE  ClaimStep
    <2>1. Decides(r, d)
      BY <1>3 DEF Cl!bulk_travel_action, Cl!_delegate_expense, Cl!_delegate_leave_extra, Cl!_delegate_services, Decides
    <2> QED BY <2>1, DecideSteps
  <1>4. ASSUME Cl!cancel_expense_claim(r, d) \/ Cl!cancel_travel_request(r, d) PROVE ClaimStep
    BY <1>4, DeletesSteps, CancelsSteps DEF Cl!cancel_expense_claim, Cl!cancel_travel_request
  <1>5. ASSUME Cl!mark_expense_paid(r, d) PROVE ClaimStep
    BY <1>5, PaidSteps
  <1>6. ASSUME NEW new \in Docs, Cl!amend_expense_claim(r, d, new) PROVE ClaimStep
    BY <1>6, AmendsSteps DEF Cl!amend_expense_claim
  <1>7. ASSUME Cl!_doc_action(r, d) PROVE ClaimStep
    BY <1>7, ApprovesSteps, CancelsSteps, AmendsSteps DEF Cl!_doc_action, Cl!DocStatusOnly
  <1> QED BY <1>1, <1>2, <1>3, <1>4, <1>5, <1>6, <1>7

LEMMA ClaimNext ==
  ASSUME ClaimInv, [Cl!Next]_Cl!vars
  PROVE  ClaimInv' /\ Cl!AsItStands
  <1>1. CASE UNCHANGED Cl!vars
    <2>1. kind' = kind /\ doc' = doc /\ req' = req
      BY <1>1 DEF Cl!vars
    <2>2. /\ \A e \in Docs : doc[e] # Cl!NoDoc => Claimable(doc[e])'
          /\ \A q \in Requests : req[q] # Cl!Idle => Claimable(req[q].row)'
      BY <2>1 DEF Claimable, ClaimInv
    <2> QED BY <2>1, <2>2 DEF ClaimInv, ClaimNames, Cl!AsItStands
  <1>2. ASSUME NEW d \in Docs, NEW a \in Amounts,
               \/ Cl!submit_expense_claim(d, a) \/ Cl!submit_leave_encashment(d, a) \/ Cl!submit_comp_off(d, a)
               \/ Cl!submit_travel_request(d, a) \/ Cl!submit_grievance(d, a) \/ Cl!create_gratuity(d, a)
               \/ Cl!save_benefit_claim(d, a) \/ Cl!save_promotion(d, a)
        PROVE  ClaimInv' /\ Cl!AsItStands
    <2>1. Cl!Submits(d, a)
      BY <1>2 DEF Cl!submit_expense_claim, Cl!submit_leave_encashment, Cl!submit_comp_off, Cl!submit_travel_request,
           Cl!submit_grievance, Cl!create_gratuity, Cl!save_benefit_claim, Cl!save_promotion
    <2> QED BY <2>1, SubmitsSteps, ClaimStepKeeps
  <1>3. ASSUME NEW r \in Requests, Cl!Abort(r) PROVE ClaimInv' /\ Cl!AsItStands
    BY <1>3, ClaimAborts
  <1>4. ASSUME NEW r \in Requests, NEW d \in Docs, Cl!Begin(r, d) PROVE ClaimInv' /\ Cl!AsItStands
    BY <1>4, ClaimBegins
  <1>5. ASSUME NEW r \in Requests, NEW d \in Docs,
               \/ ClaimsOf(r, d)
               \/ Decides(r, d)
               \/ Cl!investigate_grievance(r, d) \/ Cl!reopen_grievance(r, d)
               \/ Cl!bulk_leave_extra_action(r, d) \/ Cl!bulk_travel_action(r, d)
               \/ Cl!_delegate_expense(r, d) \/ Cl!_delegate_leave_extra(r, d) \/ Cl!_delegate_services(r, d)
               \/ Cl!cancel_expense_claim(r, d) \/ Cl!cancel_travel_request(r, d) \/ Cl!mark_expense_paid(r, d)
               \/ \E new \in Docs : Cl!amend_expense_claim(r, d, new)
               \/ Cl!_doc_action(r, d)
        PROVE  ClaimInv' /\ Cl!AsItStands
    BY <1>5, DraftSteps, DecideSteps, AfterSteps, ClaimStepKeeps
  <1>6. ASSUME Cl!Next PROVE ClaimInv' /\ Cl!AsItStands
    <2>1. CASE \E d \in Docs, a \in Amounts :
                 \/ Cl!submit_expense_claim(d, a) \/ Cl!submit_leave_encashment(d, a) \/ Cl!submit_comp_off(d, a)
                 \/ Cl!submit_travel_request(d, a) \/ Cl!submit_grievance(d, a) \/ Cl!create_gratuity(d, a)
                 \/ Cl!save_benefit_claim(d, a) \/ Cl!save_promotion(d, a)
      BY <1>2, <2>1
    <2>2. CASE \E r \in Requests : Cl!Abort(r)
      BY <1>3, <2>2
    <2>3. CASE \E r \in Requests, d \in Docs : Cl!Begin(r, d)
      BY <1>4, <2>3
    <2>4. CASE \E r \in Requests, d \in Docs :
               \/ ClaimsOf(r, d)
               \/ Decides(r, d)
               \/ Cl!investigate_grievance(r, d) \/ Cl!reopen_grievance(r, d)
               \/ Cl!bulk_leave_extra_action(r, d) \/ Cl!bulk_travel_action(r, d)
               \/ Cl!_delegate_expense(r, d) \/ Cl!_delegate_leave_extra(r, d) \/ Cl!_delegate_services(r, d)
               \/ Cl!cancel_expense_claim(r, d) \/ Cl!cancel_travel_request(r, d) \/ Cl!mark_expense_paid(r, d)
               \/ \E new \in Docs : Cl!amend_expense_claim(r, d, new)
               \/ Cl!_doc_action(r, d)
      BY <1>5, <2>4
    <2> QED BY <1>6, <2>1, <2>2, <2>3, <2>4 DEF Cl!Next, ClaimsOf, Decides
  <1> QED BY <1>1, <1>6

\* A claim is a document of its kind, whatever is done to it.
THEOREM ClaimsTyped ==
  ASSUME ClaimNames
  PROVE  Cl!Spec => []Cl!TypeOK
  <1>1. ClaimInv => Cl!TypeOK
    BY DEF ClaimInv, Cl!TypeOK, ClaimDoc, ClaimDs, ClaimStatus
  <1>2. Cl!Init => ClaimInv
    BY ClaimInit
  <1>3. ClaimInv /\ [Cl!Next]_Cl!vars => ClaimInv'
    BY ClaimNext
  <1> QED BY <1>1, <1>2, <1>3, PTL DEF Cl!Spec

\* AsItStands: what is approved is the claim as it stands, with the last edit and no decision of another in it, whoever
\* decides at the same time.
THEOREM ClaimsApprovedAsTheyStand ==
  ASSUME ClaimNames
  PROVE  Cl!Spec => [][Cl!AsItStands]_Cl!vars
  <1>1. Cl!Init => ClaimInv
    BY ClaimInit
  <1>2. ClaimInv /\ [Cl!Next]_Cl!vars => ClaimInv' /\ Cl!AsItStands
    BY ClaimNext
  <1> QED BY <1>1, <1>2, PTL DEF Cl!Spec

\* OfferedIsAccepted: what the screen offers of a claim the server takes, in every state a claim gets to.
THEOREM WhatIsOfferedIsAccepted ==
  ASSUME ClaimNames
  PROVE  Cl!Spec => []Cl!OfferedIsAccepted
  <1>1. ASSUME ClaimInv PROVE Cl!OfferedIsAccepted
    <2> SUFFICES ASSUME NEW d \in Docs, doc[d] # Cl!NoDoc, kind \notin {"BenefitClaim", "Promotion"},
                        NEW a \in Cl!Offered(doc[d])
                 PROVE  a \in Cl!Accepted(doc[d])
      BY DEF Cl!OfferedIsAccepted
    <2> DEFINE x == doc[d]
    <2> HIDE DEF x
    <2>1. CASE kind = "Expense"
      <3>1. a \in Cl!_can_flags(x)
        BY <2>1 DEF Cl!Offered, x, Cl!LeaveExtra
      <3> QED BY <2>1, <3>1 DEF Cl!_can_flags, Cl!Accepted, Cl!MayEdit, Cl!MayDelete, Cl!MayCancel, Cl!MayApprove, Cl!MayReject, Cl!MayPay,
                   Cl!MayAmend, Cl!LeaveExtra, Cl!DocStatusOnly, x
    <2>2. CASE kind \in Cl!LeaveExtra
      <3>1. a \in Cl!LeaveExtraCan(x)
        BY <2>2 DEF Cl!Offered, x, Cl!LeaveExtra
      <3>2. kind \notin {"Expense", "Travel", "Grievance"}
        BY <2>2 DEF Cl!LeaveExtra
      <3>3. /\ x.ds = 0 => Cl!MayEdit(x) /\ Cl!MayDelete(x) /\ Cl!MayApprove(x)
            /\ x.ds = 0 /\ x.status = "Draft" => Cl!MayWithdraw(x)
            /\ Cl!MayReject(x)
        BY <2>2, <3>2 DEF Cl!MayEdit, Cl!MayDelete, Cl!MayWithdraw, Cl!MayApprove, Cl!MayReject
      <3> QED BY <3>1, <3>3 DEF Cl!LeaveExtraCan, Cl!Accepted, x
    <2>3. CASE kind = "Grievance"
      <3>1. a \in Cl!GrievanceCan(x)
        BY <2>3 DEF Cl!Offered, x, Cl!LeaveExtra
      <3> QED BY <2>3, <3>1 DEF Cl!GrievanceCan, Cl!Accepted, Cl!MayEdit, Cl!MayDelete, Cl!MayWithdraw, Cl!MayApprove, Cl!MayReject,
                   Cl!MayInvestigate, Cl!MayReopen, Cl!LeaveExtra, x
    <2>4. CASE kind = "Travel"
      <3>1. a \in Cl!TravelCan(x)
        BY <2>4 DEF Cl!Offered, x, Cl!LeaveExtra
      <3> QED BY <2>4, <3>1 DEF Cl!TravelCan, Cl!Accepted, Cl!MayEdit, Cl!MayDelete, Cl!MayWithdraw, Cl!MayApprove, Cl!MayReject,
                   Cl!MayCancel, Cl!LeaveExtra, x
    <2>5. CASE kind \notin {"Expense", "Grievance", "Travel", "Gratuity"} \cup Cl!LeaveExtra
      <3>1. a \in Cl!_doc_can(x)
        BY <2>5 DEF Cl!Offered, x
      <3>2. kind = "Application"
        BY <1>1, <2>5 DEF ClaimInv, ClaimNames, Cl!LeaveExtra
      <3> QED BY <3>1, <3>2 DEF Cl!_doc_can, Cl!Accepted, Cl!MayEdit, Cl!MayApprove, Cl!MayCancel, Cl!MayAmend, Cl!LeaveExtra, Cl!DocStatusOnly, x
    <2>6. CASE kind = "Gratuity"
      BY <2>6 DEF Cl!Offered, Cl!LeaveExtra
    <2> QED BY <2>1, <2>2, <2>3, <2>4, <2>5, <2>6
  <1>2. Cl!Init => ClaimInv
    BY ClaimInit
  <1>3. ClaimInv /\ [Cl!Next]_Cl!vars => ClaimInv'
    BY ClaimNext
  <1> QED BY <1>1, <1>2, <1>3, PTL DEF Cl!Spec

-----------------------------------------------------------------------------
(* Salary masters. *)

\* Days are counted from 1, and there are finitely many names of assignments.
PayCalendar == /\ Days \subseteq Nat \ {0} /\ IsFiniteSet(Slots)
               /\ Overlaps \subseteq BOOLEAN /\ Faults \subseteq BOOLEAN

PayRows == Ss!Rows \ {Ss!NoRow}
PaySnapshots == [structure : [Structures -> [ds : {-1, 0, 1}, active : BOOLEAN]],
                 ssa : [Slots -> Ss!Rows], mode : [Employees -> Ss!Modes],
                 period : [Periods -> [from : Days \cup {0}, to : Days \cup {0}]],
                 used : SUBSET Periods]
\* Without overlaps no request reads an older snapshot.
PayBase == Ss!TypeOK /\ held \subseteq PaySnapshots /\ overlap \in BOOLEAN /\ (~overlap => held = {})

LEMMA PayViews ==
  ASSUME PayBase, NEW v \in Ss!Views
  PROVE  v \in PaySnapshots /\ (~overlap => v = Ss!Now)
  BY DEF PayBase, Ss!Views, Ss!Now, Ss!TypeOK, PaySnapshots

\* A request that ends leaves no more snapshots than there were.
LEMMA PayEnds ==
  ASSUME PayBase, NEW v \in Ss!Views, Ss!Ends(v)
  PROVE  /\ held' \subseteq PaySnapshots /\ overlap' = overlap /\ overlap' \in BOOLEAN
         /\ ~overlap' => held' = {}
  BY DEF PayBase, Ss!Ends

LEMMA PayNoRow == Ss!NoRow \in Ss!Rows /\ Ss!NoRow.status = "None" /\ \A x \in PayRows : x \in Ss!Rows /\ x.status # "None"
  BY DEF Ss!Rows, PayRows, Ss!NoRow

LEMMA PayRow ==
  /\ Ss!NoRow \in Ss!Rows /\ Ss!NoRow.status = "None" /\ \A x \in PayRows : x \in Ss!Rows /\ x.status # "None"
  /\ \A x \in Ss!Rows : x.status # "None" =>
       /\ x \in PayRows /\ x.emp \in Employees
       /\ [x EXCEPT !.status = "Cancelled"] \in PayRows
       /\ [x EXCEPT !.status = "Cancelled"].status = "Cancelled"
  <1> DEFINE St == {"Draft", "Submitted", "Cancelled"}
             R == [emp : Employees, of : Structures, from : Days, open : BOOLEAN, base : Bases, status : St]
  <1>1. Ss!NoRow \notin R /\ Ss!NoRow.status = "None" /\ \A x \in R : x.status # "None"
    BY DEF Ss!NoRow
  <1>2. Ss!Rows = R \cup {Ss!NoRow}
    BY DEF Ss!Rows
  <1>3. "Cancelled" \in St
    OBVIOUS
  <1> HIDE DEF St
  <1>4. ASSUME NEW x \in R
        PROVE  /\ x.emp \in Employees /\ [x EXCEPT !.status = "Cancelled"] \in R
               /\ [x EXCEPT !.status = "Cancelled"].status = "Cancelled"
    BY <1>3
  <1> HIDE DEF R
  <1> QED BY <1>1, <1>2, <1>4 DEF PayRows

LEMMA NewRowIs ==
  ASSUME NEW e \in Employees, NEW s \in Structures, NEW start \in Days, NEW end, NEW base \in Bases,
         NEW st \in {"Draft", "Submitted"}
  PROVE  /\ Ss!NewRow(e, s, start, end, base, st) \in PayRows
         /\ Ss!NewRow(e, s, start, end, base, st).emp = e /\ Ss!NewRow(e, s, start, end, base, st).status = st
         /\ Ss!NewRow(e, s, start, end, base, st).open <=> end = Ss!NoDay
  BY DEF Ss!NewRow, PayRows, Ss!Rows, Ss!NoRow

\* The newest of the assignments in force of an employee is one of them.
LEMMA NewestIs ==
  ASSUME PayCalendar, NEW v \in PaySnapshots, NEW e, Ss!SubmittedOf(v, e) # {}
  PROVE  Ss!Newest(v, e) \in Ss!SubmittedOf(v, e)
  <1> DEFINE T == Ss!SubmittedOf(v, e)
             from == [a \in T |-> v.ssa[a].from]
             F == {from[a] : a \in T}
  <1>1. T \subseteq Slots /\ \A a \in T : v.ssa[a].from \in Nat
    <2>1. \A x \in Ss!Rows : x.from \in Nat
      <3>1. \A x \in Ss!Rows : x = Ss!NoRow \/ x.from \in Days
        BY DEF Ss!Rows
      <3>2. Ss!NoRow.from = 0
        BY DEF Ss!NoRow
      <3>3. Days \subseteq Nat
        BY DEF PayCalendar
      <3>4. ASSUME NEW x \in Ss!Rows PROVE x.from \in Nat
        <4>1. CASE x = Ss!NoRow
          BY <3>2, <4>1
        <4>2. CASE x.from \in Days
          BY <3>3, <4>2
        <4> QED BY <3>1, <4>1, <4>2
      <3> QED BY <3>4
    <2>2. \A a \in Slots : v.ssa[a] \in Ss!Rows
      BY DEF PaySnapshots
    <2> QED BY <2>1, <2>2 DEF Ss!SubmittedOf
  <1>2. IsFiniteSet(T) /\ T # {}
    BY <1>1, FS_Subset DEF PayCalendar
  <1> HIDE DEF T
  <1>3. IsFiniteSet(F) /\ F # {} /\ F \in SUBSET Nat
    BY <1>1, <1>2, ImageFinite
  <1>4. PICK f \in F : \A g \in F : f >= g
    BY <1>3, GreatestExists
  <1>5. PICK a \in T : v.ssa[a].from = f
    BY <1>4
  <1>6. \A b \in T : v.ssa[b].from <= v.ssa[a].from
    BY <1>1, <1>4, <1>5
  <1> QED BY <1>5, <1>6 DEF Ss!Newest, T

-----------------------------------------------------------------------------
(* What a request does to the assignments and to the periods. *)

PayInForce(a) == ssa[a].status = "Submitted" /\ ssa[a].open
OneOpenPay == ~overlap => \A a, b \in Slots : PayInForce(a) /\ PayInForce(b) /\ ssa[a].emp = ssa[b].emp => a = b

Submits(a) == ssa[a] = Ss!NoRow /\ ssa'[a].status = "Submitted"
SsaStep ==
  /\ ssa' \in [Slots -> Ss!Rows]
  /\ \A a \in Slots : ssa'[a] = ssa[a] \/ ssa'[a].status # "Submitted" \/ Submits(a)
  /\ ~overlap => \A a \in Slots : Submits(a) /\ ssa'[a].open => Ss!SubmittedOf(Ss!Now, ssa'[a].emp) = {}
  /\ \A a, b \in Slots : Submits(a) /\ Submits(b) /\ ssa'[a].emp = ssa'[b].emp => a = b
RestStep ==
  /\ structure' \in [Structures -> [ds : {-1, 0, 1}, active : BOOLEAN]] /\ mode' \in [Employees -> Ss!Modes]
  /\ report' \in [Employees -> {"nothing", "assigned", "skipped", "failed", "cancelled"}]
PeriodStep ==
  /\ period' \in [Periods -> [from : Days \cup {0}, to : Days \cup {0}]] /\ used' \subseteq Periods
  /\ Ss!PeriodsApart'
HeldStep ==
  /\ held' \subseteq PaySnapshots /\ overlap' = overlap /\ overlap' \in BOOLEAN /\ (~overlap' => held' = {})
PayInv == PayBase /\ OneOpenPay /\ Ss!PeriodsApart

LEMMA PayStepKeeps ==
  ASSUME PayInv, SsaStep, RestStep, PeriodStep, HeldStep
  PROVE  PayInv'
  <1>1. PayBase' /\ Ss!PeriodsApart'
    BY DEF PayInv, PayBase, SsaStep, RestStep, PeriodStep, HeldStep, Ss!TypeOK
  <1>2. ASSUME ~overlap', NEW a \in Slots, NEW b \in Slots, PayInForce(a)', PayInForce(b)', ssa'[a].emp = ssa'[b].emp
        PROVE  a = b
    <2>0. overlap' = overlap
      BY DEF HeldStep
    <2>1. (ssa'[a] = ssa[a] \/ Submits(a)) /\ (ssa'[b] = ssa[b] \/ Submits(b))
      BY <1>2 DEF SsaStep, PayInForce
    <2>2. CASE ssa'[a] = ssa[a] /\ ssa'[b] = ssa[b]
      BY <1>2, <2>0, <2>2 DEF PayInv, OneOpenPay, PayInForce
    <2>3. CASE Submits(a) /\ Submits(b)
      BY <1>2, <2>3 DEF SsaStep
    <2>4. CASE Submits(a) /\ ssa'[b] = ssa[b]
      <3>1. Ss!SubmittedOf(Ss!Now, ssa'[a].emp) = {}
        BY <1>2, <2>0, <2>4 DEF SsaStep, PayInForce
      <3> QED BY <1>2, <2>4, <3>1 DEF Ss!SubmittedOf, Ss!Now, PayInForce
    <2>5. CASE ssa'[a] = ssa[a] /\ Submits(b)
      <3>1. Ss!SubmittedOf(Ss!Now, ssa'[b].emp) = {}
        BY <1>2, <2>0, <2>5 DEF SsaStep, PayInForce
      <3> QED BY <1>2, <2>5, <3>1 DEF Ss!SubmittedOf, Ss!Now, PayInForce
    <2> QED BY <2>1, <2>2, <2>3, <2>4, <2>5
  <1> QED BY <1>1, <1>2 DEF PayInv, OneOpenPay

LEMMA SsaRests ==
  ASSUME PayBase, UNCHANGED ssa
  PROVE  SsaStep
  BY PayNoRow DEF PayBase, Ss!TypeOK, SsaStep, Submits

LEMMA PeriodsRest ==
  ASSUME PayInv, UNCHANGED <<period, used>>, overlap' = overlap
  PROVE  PeriodStep
  BY DEF PayInv, PayBase, Ss!TypeOK, PeriodStep, Ss!PeriodsApart

\* One new assignment.
LEMMA OneAssigned ==
  ASSUME PayBase, NEW a \in Slots, NEW x \in PayRows, ssa[a] = Ss!NoRow, ssa' = [ssa EXCEPT ![a] = x],
         ~overlap /\ x.open => Ss!SubmittedOf(Ss!Now, x.emp) = {}
  PROVE  SsaStep
  <1>1. ssa' \in [Slots -> Ss!Rows] /\ ssa'[a] = x /\ \A b \in Slots \ {a} : ssa'[b] = ssa[b]
    BY PayNoRow DEF PayBase, Ss!TypeOK
  <1>2. \A b \in Slots : Submits(b) => b = a
    BY <1>1, PayNoRow DEF Submits
  <1>3. \A b \in Slots : ssa'[b] = ssa[b] \/ ssa'[b].status # "Submitted" \/ Submits(b)
    BY <1>1 DEF Submits
  <1> QED BY <1>1, <1>2, <1>3 DEF SsaStep

\* Assignments that are cancelled.
LEMMA SomeCancelled ==
  ASSUME PayBase, NEW names, \A a \in names : a \in Slots /\ ssa[a].status = "Submitted", ssa' = Ss!Cancelled(names)
  PROVE  SsaStep
  <1>1. ASSUME NEW a \in Slots
        PROVE  /\ ssa'[a] \in Ss!Rows
               /\ ssa'[a] = ssa[a] \/ ssa'[a].status = "Cancelled"
    BY PayRow DEF PayBase, Ss!TypeOK, Ss!Cancelled
  <1>2. ssa' \in [Slots -> Ss!Rows]
    BY <1>1 DEF Ss!Cancelled
  <1>3. \A a \in Slots : ~Submits(a)
    BY <1>1, PayNoRow DEF Submits
  <1> QED BY <1>1, <1>2, <1>3 DEF SsaStep

-----------------------------------------------------------------------------
(* One request at a time. *)

LEMMA FreeOfSubmitted ==
  ASSUME NEW v, NEW e, NEW s, NEW start, Ss!Accepts(v, e, s, start, Ss!NoDay)
  PROVE  Ss!SubmittedOf(v, e) = {}
  BY DEF Ss!Accepts, Ss!_ensure_no_overlapping_assignment

LEMMA SilentIs == Ss!Silent \in [Employees -> {"nothing", "assigned", "skipped", "failed", "cancelled"}]
  BY DEF Ss!Silent

LEMMA StructureSteps ==
  ASSUME PayInv, NEW v \in Ss!Views, NEW s \in Structures, NEW active \in BOOLEAN, Ss!save_salary_structure(v, s, active)
  PROVE  PayInv'
  <1>1. HeldStep
    BY PayEnds DEF Ss!save_salary_structure, HeldStep, PayInv
  <1>2. SsaStep /\ PeriodStep
    BY <1>1, SsaRests, PeriodsRest DEF Ss!save_salary_structure, PayInv, HeldStep
  <1>3. RestStep
    <2> DEFINE Ds == {-1, 0, 1}
               D == [ds : Ds, active : BOOLEAN]
               x == IF v.structure[s] = Ss!NoStructure THEN [ds |-> 0, active |-> active]
                    ELSE [structure[s] EXCEPT !.active = active]
    <2>1. structure \in [Structures -> D] /\ structure' = [structure EXCEPT ![s] = x]
      BY DEF PayInv, PayBase, Ss!TypeOK, Ss!save_salary_structure
    <2>2. 0 \in Ds
      OBVIOUS
    <2> HIDE DEF Ds
    <2>3. x \in D
      <3>1. structure[s] \in [ds : Ds, active : BOOLEAN]
        BY <2>1
      <3>2. [structure[s] EXCEPT !.active = active] \in D /\ [ds |-> 0, active |-> active] \in D
        BY <3>1, <2>2
      <3> QED BY <3>2
    <2> HIDE DEF x, D
    <2>4. structure' \in [Structures -> D]
      BY <2>1, <2>3
    <2> QED BY <2>4, SilentIs DEF RestStep, Ss!save_salary_structure, Ss!Says, PayInv, PayBase, Ss!TypeOK, D, Ds
  <1> QED BY <1>1, <1>2, <1>3, PayStepKeeps

LEMMA SubmitSteps ==
  ASSUME PayInv, NEW s \in Structures, Ss!SubmitStructure(s)
  PROVE  PayInv'
  <1>1. HeldStep
    BY DEF Ss!SubmitStructure, HeldStep, PayInv, PayBase
  <1>2. SsaStep /\ PeriodStep
    BY <1>1, SsaRests, PeriodsRest DEF Ss!SubmitStructure, PayInv, HeldStep
  <1>3. RestStep
    <2> DEFINE Ds == {-1, 0, 1}
               D == [ds : Ds, active : BOOLEAN]
    <2>1. structure \in [Structures -> D] /\ structure' = [structure EXCEPT ![s].ds = 1]
      BY DEF PayInv, PayBase, Ss!TypeOK, Ss!SubmitStructure
    <2>2. 1 \in Ds
      OBVIOUS
    <2> HIDE DEF Ds
    <2>4. structure' \in [Structures -> D]
      BY <2>1, <2>2
    <2> QED BY <2>4 DEF RestStep, Ss!SubmitStructure, PayInv, PayBase, Ss!TypeOK, D, Ds
  <1> QED BY <1>1, <1>2, <1>3, PayStepKeeps

\* A request about assignments leaves the structures and the periods as they are.
LEMMA AssignmentStepKeeps ==
  ASSUME PayInv, NEW v \in Ss!Views, SsaStep, Ss!Ends(v), UNCHANGED <<structure, mode, period, used>>,
         report' \in [Employees -> {"nothing", "assigned", "skipped", "failed", "cancelled"}]
  PROVE  PayInv'
  <1>1. HeldStep
    BY PayEnds DEF HeldStep, PayInv
  <1>2. RestStep
    BY DEF RestStep, PayInv, PayBase, Ss!TypeOK
  <1> QED BY <1>1, <1>2, PeriodsRest, PayStepKeeps DEF HeldStep

LEMMA PayAssignSteps ==
  ASSUME PayInv, NEW v \in Ss!Views, NEW a \in Slots, NEW e \in Employees, NEW s \in Structures, NEW start \in Days,
         NEW end \in Days \cup {Ss!NoDay}, NEW base \in Bases, Ss!assign_salary_structure(v, a, e, s, start, end, base)
  PROVE  PayInv'
  <1> DEFINE x == Ss!NewRow(e, s, start, end, base, "Submitted")
  <1>1. x \in PayRows /\ x.emp = e /\ (x.open <=> end = Ss!NoDay)
    BY NewRowIs
  <1> HIDE DEF x
  <1>2. ~overlap /\ x.open => Ss!SubmittedOf(Ss!Now, x.emp) = {}
    BY <1>1, FreeOfSubmitted, PayViews DEF Ss!assign_salary_structure, PayInv
  <1>3. SsaStep
    BY <1>1, <1>2, OneAssigned DEF Ss!assign_salary_structure, PayInv, x
  <1> QED BY <1>3, AssignmentStepKeeps, SilentIs DEF Ss!assign_salary_structure, Ss!Says

LEMMA CompleteSteps ==
  ASSUME PayInv, NEW v \in Ss!Views, NEW a \in Slots, NEW e \in Employees, NEW s \in Structures, NEW start \in Days,
         NEW base \in Bases, NEW failing \in BOOLEAN, Ss!complete_payroll_profile(v, a, e, s, start, base, failing)
  PROVE  PayInv'
  <1> DEFINE x == Ss!NewRow(e, s, start, Ss!NoDay, base, IF failing THEN "Draft" ELSE "Submitted")
  <1>1. x \in PayRows /\ x.emp = e
    BY NewRowIs
  <1> HIDE DEF x
  <1>2. SsaStep
    <2>1. CASE Ss!SubmittedOf(v, e) # {}
      BY <2>1, SsaRests DEF Ss!complete_payroll_profile, PayInv
    <2>2. CASE Ss!SubmittedOf(v, e) = {}
      <3>1. ssa[a] = Ss!NoRow /\ ssa' = [ssa EXCEPT ![a] = x]
        BY <2>2 DEF Ss!complete_payroll_profile, x
      <3>2. ~overlap /\ x.open => Ss!SubmittedOf(Ss!Now, x.emp) = {}
        BY <1>1, <2>2, PayViews DEF PayInv
      <3> QED BY <1>1, <3>1, <3>2, OneAssigned DEF PayInv
    <2> QED BY <2>1, <2>2
  <1> QED BY <1>2, AssignmentStepKeeps, SilentIs DEF Ss!complete_payroll_profile, Ss!Says

LEMMA BulkAssignSteps ==
  ASSUME PayInv, NEW v \in Ss!Views, NEW es \in SUBSET Employees, NEW s \in Structures, NEW start \in Days,
         NEW base \in Bases, NEW slot \in [es -> Slots], NEW failing \in SUBSET es,
         Ss!bulk_assign_salary_structure(v, slot, s, start, base, failing)
  PROVE  PayInv'
  <1> DEFINE ok == {e \in es : Ss!Accepts(v, e, s, start, Ss!NoDay)}
             x(e) == Ss!NewRow(e, s, start, Ss!NoDay, base, IF e \in failing THEN "Draft" ELSE "Submitted")
  <1>1. \A e \in es : x(e) \in PayRows /\ x(e).emp = e
    BY NewRowIs
  <1>2. \A e \in es : ssa[slot[e]] = Ss!NoRow
    BY DEF Ss!bulk_assign_salary_structure
  <1>2a. \A e, f \in es : slot[e] = slot[f] => e = f
    BY DEF Ss!bulk_assign_salary_structure
  <1>3. ssa' = [a \in Slots |-> IF \E e \in ok : slot[e] = a THEN x(CHOOSE e \in ok : slot[e] = a) ELSE ssa[a]]
    BY DEF Ss!bulk_assign_salary_structure
  <1>4. ASSUME NEW a \in Slots, \E e \in ok : slot[e] = a
        PROVE  \E e \in ok : slot[e] = a /\ ssa'[a] = x(e)
    <2>1. PICK e \in ok : slot[e] = a
      BY <1>4
    <2>2. (CHOOSE f \in ok : slot[f] = a) = e
      BY <2>1, <1>2a
    <2> QED BY <1>3, <1>4, <2>1, <2>2
  <1>5. \A a \in Slots : (~ \E e \in ok : slot[e] = a) => ssa'[a] = ssa[a]
    BY <1>3
  <1>6. \A e \in ok : ~overlap => Ss!SubmittedOf(Ss!Now, e) = {}
    BY FreeOfSubmitted, PayViews DEF PayInv
  <1>7. DOMAIN ssa' = Slots /\ ssa' = [a \in Slots |-> ssa'[a]]
    BY <1>3
  <1> HIDE DEF x
  <1>8. ASSUME NEW a \in Slots
        PROVE  /\ ssa'[a] \in Ss!Rows
               /\ ssa'[a] = ssa[a] \/ ssa'[a].status # "Submitted" \/ Submits(a)
               /\ Submits(a) => \E e \in ok : slot[e] = a /\ ssa'[a].emp = e
    <2>1. CASE \E e \in ok : slot[e] = a
      <3>1. PICK e \in ok : slot[e] = a /\ ssa'[a] = x(e)
        BY <1>4, <2>1
      <3> QED BY <1>1, <1>2, <3>1, PayNoRow DEF Submits
    <2>2. CASE ~ \E e \in ok : slot[e] = a
      BY <1>5, <2>2, PayNoRow DEF PayInv, PayBase, Ss!TypeOK, Submits
    <2> QED BY <2>1, <2>2
  <1>9. ssa' \in [Slots -> Ss!Rows]
    BY <1>7, <1>8
  <1>10. SsaStep
    BY <1>6, <1>8, <1>9 DEF SsaStep
  <1>11. report' \in [Employees -> {"nothing", "assigned", "skipped", "failed", "cancelled"}]
    BY DEF Ss!bulk_assign_salary_structure, Ss!Says
  <1> QED BY <1>10, <1>11, AssignmentStepKeeps DEF Ss!bulk_assign_salary_structure

LEMMA PayCancelSteps ==
  ASSUME PayInv, NEW v \in Ss!Views, NEW e \in Employees, NEW a \in Slots, Ss!cancel_salary_structure_assignment(v, e, a)
  PROVE  PayInv'
  <1>1. ssa[a].status = "Submitted"
    BY DEF Ss!cancel_salary_structure_assignment, Ss!SubmittedOf
  <1>2. SsaStep
    BY <1>1, SomeCancelled DEF Ss!cancel_salary_structure_assignment, PayInv
  <1> QED BY <1>2, AssignmentStepKeeps, SilentIs DEF Ss!cancel_salary_structure_assignment, Ss!Says

LEMMA BulkCancelSteps ==
  ASSUME PayCalendar, PayInv, NEW v \in Ss!Views, NEW es \in SUBSET Employees, NEW dies \in BOOLEAN,
         NEW failing \in SUBSET es, Ss!bulk_cancel_assignments(v, es, failing, dies)
  PROVE  PayInv'
  <1> DEFINE found == {e \in es : Ss!SubmittedOf(v, e) # {} /\ v.ssa[Ss!Newest(v, e)] = ssa[Ss!Newest(v, e)]}
  <1>1. PICK done \in SUBSET found :
          /\ \E wrote \in SUBSET (failing \cap done) :
               ssa' = Ss!Cancelled({Ss!Newest(v, e) : e \in (done \ failing) \cup wrote})
          /\ Ss!Says(IF dies THEN Ss!Silent
                  ELSE [e \in Employees |-> IF e \notin es THEN "nothing"
                                            ELSE IF Ss!SubmittedOf(v, e) = {} THEN "skipped"
                                            ELSE IF e \in failing \/ e \notin done THEN "failed" ELSE "cancelled"])
    BY DEF Ss!bulk_cancel_assignments
  <1>2. PICK wrote \in SUBSET (failing \cap done) :
               ssa' = Ss!Cancelled({Ss!Newest(v, e) : e \in (done \ failing) \cup wrote})
    BY <1>1
  <1>3. \A e \in found : Ss!Newest(v, e) \in Slots /\ ssa[Ss!Newest(v, e)].status = "Submitted"
    BY NewestIs, PayViews DEF Ss!SubmittedOf, PayInv
  <1>4. SsaStep
    BY <1>2, <1>3, SomeCancelled DEF PayInv
  <1>5. report' \in [Employees -> {"nothing", "assigned", "skipped", "failed", "cancelled"}]
    BY <1>1, SilentIs DEF Ss!Says
  <1> QED BY <1>4, <1>5, AssignmentStepKeeps DEF Ss!bulk_cancel_assignments

LEMMA SettingSteps ==
  ASSUME PayInv, NEW v \in Ss!Views, NEW e \in Employees, NEW to \in Ss!Modes, NEW base \in Bases, NEW a \in Slots,
         NEW s \in Structures, NEW start \in Days, Ss!save_employee_salary_setting(v, e, to, base, a, s, start)
  PROVE  PayInv'
  <1> DEFINE x == Ss!NewRow(e, s, start, Ss!NoDay, base, "Submitted")
  <1>1. x \in PayRows /\ x.emp = e
    BY NewRowIs
  <1> HIDE DEF x
  <1>2. SsaStep
    <2>1. CASE base = 0
      BY <2>1, SsaRests DEF Ss!save_employee_salary_setting, PayInv
    <2>2. CASE base # 0
      <3>1. ssa[a] = Ss!NoRow /\ ssa' = [ssa EXCEPT ![a] = x] /\ Ss!Accepts(v, e, s, start, Ss!NoDay)
        BY <2>2 DEF Ss!save_employee_salary_setting, x
      <3>2. ~overlap /\ x.open => Ss!SubmittedOf(Ss!Now, x.emp) = {}
        BY <1>1, <3>1, FreeOfSubmitted, PayViews DEF PayInv
      <3> QED BY <1>1, <3>1, <3>2, OneAssigned DEF PayInv
    <2> QED BY <2>1, <2>2
  <1>3. HeldStep
    BY PayEnds DEF HeldStep, PayInv, Ss!save_employee_salary_setting
  <1>4. RestStep
    BY SilentIs DEF RestStep, PayInv, PayBase, Ss!TypeOK, Ss!save_employee_salary_setting, Ss!Says
  <1>5. PeriodStep
    BY <1>3, PeriodsRest DEF Ss!save_employee_salary_setting, HeldStep
  <1> QED BY <1>2, <1>3, <1>4, <1>5, PayStepKeeps

LEMMA RatesSteps ==
  ASSUME PayInv, NEW v \in Ss!Views, NEW es \in SUBSET Employees, NEW to \in Ss!Modes, Ss!bulk_set_hourly_rates(v, es, to)
  PROVE  PayInv'
  <1>1. HeldStep
    BY PayEnds DEF HeldStep, PayInv, Ss!bulk_set_hourly_rates
  <1>2. RestStep
    BY SilentIs DEF RestStep, PayInv, PayBase, Ss!TypeOK, Ss!bulk_set_hourly_rates, Ss!Says
  <1>3. SsaStep /\ PeriodStep
    BY <1>1, SsaRests, PeriodsRest DEF Ss!bulk_set_hourly_rates, PayInv, HeldStep
  <1> QED BY <1>1, <1>2, <1>3, PayStepKeeps

\* A request about payroll periods leaves the rest as it is.
LEMMA PeriodStepKeeps ==
  ASSUME PayInv, NEW v \in Ss!Views, PeriodStep, Ss!Ends(v), Ss!Says(Ss!Silent), UNCHANGED <<structure, ssa, mode>>
  PROVE  PayInv'
  <1>1. HeldStep
    BY PayEnds DEF HeldStep, PayInv
  <1>2. RestStep
    BY SilentIs DEF RestStep, PayInv, PayBase, Ss!TypeOK, Ss!Says
  <1> QED BY <1>1, <1>2, SsaRests, PayStepKeeps DEF PayInv

LEMMA SavePeriodSteps ==
  ASSUME PayCalendar, PayInv, NEW v \in Ss!Views, NEW p \in Periods, NEW from \in Days, NEW to \in Days,
         Ss!save_payroll_period(v, p, from, to)
  PROVE  PayInv'
  <1> DEFINE x == [from |-> from, to |-> to]
             P == [from : Days \cup {0}, to : Days \cup {0}]
  <1>1. x \in P /\ x # Ss!NoPeriod /\ x.from = from /\ x.to = to
    BY DEF PayCalendar, Ss!NoPeriod
  <1>2. period \in [Periods -> P] /\ period' = [period EXCEPT ![p] = x] /\ used' = used /\ used \subseteq Periods
    BY DEF PayInv, PayBase, Ss!TypeOK, Ss!save_payroll_period
  <1> HIDE DEF x
  <1>3. period' \in [Periods -> P] /\ period'[p] = x /\ \A q \in Periods \ {p} : period'[q] = period[q]
    BY <1>1, <1>2
  <1>4. overlap' = overlap
    BY DEF Ss!save_payroll_period, Ss!Ends
  <1>5. ASSUME ~overlap, NEW q \in Periods \ {p}, period[q] # Ss!NoPeriod
        PROVE  x.to < period[q].from \/ period[q].to < x.from
    <2>1. q \notin Ss!_pp_overlapping(v, p, from, to) /\ v.period = period
      BY <1>5, PayViews DEF Ss!save_payroll_period, Ss!Now, PayInv
    <2>2. /\ period[q].from \in Nat /\ period[q].to \in Nat /\ from \in Nat /\ to \in Nat
      <3>1. Days \cup {0} \subseteq Nat
        BY DEF PayCalendar
      <3>2. period[q] \in P
        BY <1>2
      <3> QED BY <3>1, <3>2
    <2> QED BY <1>1, <1>5, <2>1, <2>2 DEF Ss!_pp_overlapping
  <1>6. Ss!PeriodsApart'
    <2> SUFFICES ASSUME ~overlap
                 PROVE  /\ \A q, r \in Periods : q # r /\ period'[q] # Ss!NoPeriod /\ period'[r] # Ss!NoPeriod
                             => period'[q].to < period'[r].from \/ period'[r].to < period'[q].from
                        /\ \A q \in used : period'[q] # Ss!NoPeriod
      BY <1>2, <1>4 DEF Ss!PeriodsApart
    <2>1. ASSUME NEW q \in Periods, NEW r \in Periods, q # r, period'[q] # Ss!NoPeriod, period'[r] # Ss!NoPeriod
          PROVE  period'[q].to < period'[r].from \/ period'[r].to < period'[q].from
      <3>1. CASE q = p \/ r = p
        BY <1>3, <1>5, <2>1, <3>1
      <3>2. CASE q # p /\ r # p
        BY <1>3, <2>1, <3>2 DEF PayInv, Ss!PeriodsApart
      <3> QED BY <3>1, <3>2
    <2>2. \A q \in used : period'[q] # Ss!NoPeriod
      BY <1>1, <1>2, <1>3 DEF PayInv, Ss!PeriodsApart
    <2> QED BY <2>1, <2>2
  <1>7. PeriodStep
    BY <1>2, <1>3, <1>6 DEF PeriodStep
  <1> QED BY <1>7, PeriodStepKeeps DEF Ss!save_payroll_period

LEMMA DeletePeriodSteps ==
  ASSUME PayInv, NEW v \in Ss!Views, NEW p \in Periods, Ss!delete_payroll_period(v, p)
  PROVE  PayInv'
  <1>1. period' = [period EXCEPT ![p] = Ss!NoPeriod] /\ used' = used /\ overlap' = overlap
    BY DEF Ss!delete_payroll_period, Ss!Ends
  <1>2. Ss!NoPeriod \in [from : Days \cup {0}, to : Days \cup {0}]
    BY DEF Ss!NoPeriod
  <1>3. /\ period' \in [Periods -> [from : Days \cup {0}, to : Days \cup {0}]]
        /\ period'[p] = Ss!NoPeriod /\ \A q \in Periods \ {p} : period'[q] = period[q]
    BY <1>1, <1>2 DEF PayInv, PayBase, Ss!TypeOK
  <1>4. ~overlap => p \notin used
    BY PayViews DEF Ss!delete_payroll_period, Ss!_pp_usage, Ss!Now, PayInv
  <1>5. used \subseteq Periods
    BY DEF PayInv, PayBase, Ss!TypeOK
  <1>6. Ss!PeriodsApart'
    <2>1. ~overlap => /\ \A q, r \in Periods : q # r /\ period'[q] # Ss!NoPeriod /\ period'[r] # Ss!NoPeriod
                             => period'[q].to < period'[r].from \/ period'[r].to < period'[q].from
                      /\ \A q \in used : period'[q] # Ss!NoPeriod
      BY <1>3, <1>4, <1>5 DEF PayInv, Ss!PeriodsApart
    <2> QED BY <1>1, <2>1 DEF Ss!PeriodsApart
  <1> QED BY <1>1, <1>3, <1>5, <1>6, PeriodStepKeeps DEF PeriodStep, Ss!delete_payroll_period

LEMMA UsePeriodSteps ==
  ASSUME PayInv, NEW v \in Ss!Views, NEW p \in Periods, Ss!UsePeriod(v, p)
  PROVE  PayInv'
  <1>1. period' = period /\ used' = used \cup {p} /\ overlap' = overlap
    BY DEF Ss!UsePeriod, Ss!Ends
  <1>2. ~overlap => period[p] # Ss!NoPeriod
    BY PayViews DEF Ss!UsePeriod, Ss!Now, PayInv
  <1>3. PeriodStep
    BY <1>1, <1>2 DEF PeriodStep, Ss!PeriodsApart, PayInv, PayBase, Ss!TypeOK
  <1> QED BY <1>3, PeriodStepKeeps DEF Ss!UsePeriod

LEMMA HoldSteps ==
  ASSUME PayInv, Ss!Hold
  PROVE  PayInv'
  <1>1. HeldStep
    BY DEF Ss!Hold, HeldStep, PayInv, PayBase, Ss!TypeOK, Ss!Now, PaySnapshots
  <1>2. RestStep /\ SsaStep /\ PeriodStep
    BY <1>1, SsaRests, PeriodsRest DEF Ss!Hold, Ss!masters, HeldStep, RestStep, PayInv, PayBase, Ss!TypeOK
  <1> QED BY <1>1, <1>2, PayStepKeeps

LEMMA PayBegins ==
  ASSUME PayCalendar, Ss!Init
  PROVE  PayInv
  <1>1. PayBase
    BY PayNoRow, SilentIs DEF Ss!Init, PayBase, Ss!TypeOK, PayCalendar, Ss!NoStructure, Ss!NoPeriod, Ss!Modes
  <1>2. OneOpenPay /\ Ss!PeriodsApart
    BY PayNoRow DEF Ss!Init, OneOpenPay, PayInForce, Ss!PeriodsApart
  <1> QED BY <1>1, <1>2 DEF PayInv

LEMMA PayNext ==
  ASSUME PayCalendar, PayInv, [Ss!Next]_Ss!vars
  PROVE  PayInv'
  <1>1. CASE UNCHANGED Ss!vars
    <2>1. HeldStep /\ RestStep
      BY <1>1 DEF Ss!vars, HeldStep, RestStep, PayInv, PayBase, Ss!TypeOK
    <2>2. SsaStep /\ PeriodStep
      BY <1>1, SsaRests, PeriodsRest DEF Ss!vars, PayInv
    <2> QED BY <2>1, <2>2, PayStepKeeps
  <1>2. CASE Ss!Next
    <2>1. CASE Ss!Hold \/ \E s \in Structures : Ss!SubmitStructure(s)
      BY <2>1, HoldSteps, SubmitSteps
    <2>2. ASSUME NEW v \in Ss!Views, \E s \in Structures, active \in BOOLEAN : Ss!save_salary_structure(v, s, active)
          PROVE  PayInv'
      BY <2>2, StructureSteps
    <2>3. ASSUME NEW v \in Ss!Views,
                 \E a \in Slots, e \in Employees, s \in Structures, start \in Days, end \in Days \cup {Ss!NoDay}, base \in Bases :
                   Ss!assign_salary_structure(v, a, e, s, start, end, base)
          PROVE  PayInv'
      BY <2>3, PayAssignSteps
    <2>4. ASSUME NEW v \in Ss!Views,
                 \E a \in Slots, e \in Employees, s \in Structures, start \in Days, base \in Bases, failing \in BOOLEAN :
                   Ss!complete_payroll_profile(v, a, e, s, start, base, failing)
          PROVE  PayInv'
      BY <2>4, CompleteSteps
    <2>5. ASSUME NEW v \in Ss!Views,
                 \E es \in SUBSET Employees, s \in Structures, start \in Days, base \in Bases :
                   \E slot \in [es -> Slots], failing \in SUBSET es :
                     es # {} /\ Ss!bulk_assign_salary_structure(v, slot, s, start, base, failing)
          PROVE  PayInv'
      BY <2>5, BulkAssignSteps
    <2>6. ASSUME NEW v \in Ss!Views, \E e \in Employees, a \in Slots : Ss!cancel_salary_structure_assignment(v, e, a)
          PROVE  PayInv'
      BY <2>6, PayCancelSteps
    <2>7. ASSUME NEW v \in Ss!Views,
                 \E es \in SUBSET Employees, dies \in BOOLEAN :
                   \E failing \in SUBSET es : Ss!bulk_cancel_assignments(v, es, failing, dies)
          PROVE  PayInv'
      BY <2>7, BulkCancelSteps
    <2>8. ASSUME NEW v \in Ss!Views,
                 \E e \in Employees, to \in Ss!Modes, base \in Bases, a \in Slots, s \in Structures, start \in Days :
                   Ss!save_employee_salary_setting(v, e, to, base, a, s, start)
          PROVE  PayInv'
      BY <2>8, SettingSteps
    <2>9. ASSUME NEW v \in Ss!Views, \E es \in SUBSET Employees, to \in Ss!Modes : Ss!bulk_set_hourly_rates(v, es, to)
          PROVE  PayInv'
      BY <2>9, RatesSteps
    <2>10. ASSUME NEW v \in Ss!Views, \E p \in Periods, from, to \in Days : Ss!save_payroll_period(v, p, from, to)
           PROVE  PayInv'
      BY <2>10, SavePeriodSteps
    <2>11. ASSUME NEW v \in Ss!Views, \E p \in Periods : Ss!delete_payroll_period(v, p) \/ Ss!UsePeriod(v, p)
           PROVE  PayInv'
      BY <2>11, DeletePeriodSteps, UsePeriodSteps
    <2> QED BY <1>2, <2>1, <2>2, <2>3, <2>4, <2>5, <2>6, <2>7, <2>8, <2>9, <2>10, <2>11 DEF Ss!Next
  <1> QED BY <1>1, <1>2

\* The rows of structures, assignments and payroll periods are of their kinds, whoever else writes and whatever fails.
THEOREM PayMastersTyped ==
  ASSUME PayCalendar
  PROVE  Ss!Spec => []Ss!TypeOK
  <1>1. PayInv => Ss!TypeOK
    BY DEF PayInv, PayBase
  <1>2. Ss!Init => PayInv
    BY PayBegins
  <1>3. PayInv /\ [Ss!Next]_Ss!vars => PayInv'
    BY PayNext
  <1> QED BY <1>1, <1>2, <1>3, PTL DEF Ss!Spec

\* OneAssignment: one request after another, an employee never has two assignments without an end, and one the
\* readiness list calls free is one the assignment accepts.
THEOREM OneAssignmentHolds ==
  ASSUME PayCalendar
  PROVE  Ss!Spec => []Ss!OneAssignment
  <1>1. ASSUME PayInv PROVE Ss!OneAssignment
    <2> SUFFICES ASSUME ~overlap, NEW e \in Employees
                 PROVE  /\ Cardinality({a \in Ss!SubmittedOf(Ss!Now, e) : ssa[a].open}) <= 1
                        /\ \A s \in Structures, start \in Days :
                             structure[s] # Ss!NoStructure
                               => (Ss!Accepts(Ss!Now, e, s, start, Ss!NoDay) <=> Ss!ssa_status(Ss!Now, e) # "HAS_SSA")
      BY SsCounts DEF Ss!OneAssignment
    <2>1. Cardinality({a \in Ss!SubmittedOf(Ss!Now, e) : ssa[a].open}) <= 1
      <3> DEFINE T == {a \in Ss!SubmittedOf(Ss!Now, e) : ssa[a].open}
      <3>1. \A a, b \in T : a = b
        BY <1>1 DEF PayInv, OneOpenPay, PayInForce, Ss!SubmittedOf, Ss!Now
      <3>2. T = {} \/ \E a : T = {a}
        BY <3>1
      <3>3. Cardinality(T) = 0 \/ Cardinality(T) = 1
        BY <3>2, FS_EmptySet, FS_Singleton
      <3> QED BY <3>3
    <2>2. ASSUME NEW s \in Structures, NEW start \in Days, structure[s] # Ss!NoStructure
          PROVE  Ss!Accepts(Ss!Now, e, s, start, Ss!NoDay) <=> Ss!ssa_status(Ss!Now, e) # "HAS_SSA"
      BY <2>2 DEF Ss!Accepts, Ss!_ensure_no_overlapping_assignment, Ss!ssa_status, Ss!Now
    <2> QED BY <2>1, <2>2
  <1>2. Ss!Init => PayInv
    BY PayBegins
  <1>3. PayInv /\ [Ss!Next]_Ss!vars => PayInv'
    BY PayNext
  <1> QED BY <1>1, <1>2, <1>3, PTL DEF Ss!Spec

\* PeriodsApart: one request after another, payroll periods are apart, and a period a benefit refers to exists.
THEOREM PeriodsAreApart ==
  ASSUME PayCalendar
  PROVE  Ss!Spec => []Ss!PeriodsApart
  <1>1. PayInv => Ss!PeriodsApart
    BY DEF PayInv
  <1>2. Ss!Init => PayInv
    BY PayBegins
  <1>3. PayInv /\ [Ss!Next]_Ss!vars => PayInv'
    BY PayNext
  <1> QED BY <1>1, <1>2, <1>3, PTL DEF Ss!Spec

-----------------------------------------------------------------------------
(* Leave policies. *)

\* Days are counted from 1.
GrantDays == Days \subseteq Nat \ {0} /\ Overlaps \subseteq BOOLEAN

GrantPeriods == {Lp!NoPeriod} \cup [from : Days, to : Days]
\* A policy has lines.
GrantPolicies == {Lp!NoPolicy} \cup [ds : 0..2, lines : (SUBSET LeaveTypes) \ {{}}]
GrantRows == [ds : 1..2, emp : Employees, policy : Policies, period : LeavePeriods \cup {Lp!Joining}, from : Days, to : Days]
GrantedRows == {Lp!NoGrant} \cup [lines : (SUBSET LeaveTypes) \ {{}}, from : Days, to : Days]
GrantSnapshots ==
  [period : [LeavePeriods -> GrantPeriods], policy : [Policies -> GrantPolicies],
   assignment : [Slots -> {Lp!NoRow} \cup GrantRows], granted : [Slots -> GrantedRows]]
\* Without overlaps no request reads an older snapshot, and an assignment that was there is there.
GrantBase ==
  /\ GrantDays /\ Lp!Now \in GrantSnapshots /\ held \subseteq GrantSnapshots /\ overlap \in BOOLEAN
  /\ ~overlap => held = {}
  /\ \A v \in held, l \in Slots : v.assignment[l] # Lp!NoRow => assignment[l] # Lp!NoRow
GrantInv == GrantBase /\ Lp!GrantsFollow /\ Lp!AssignmentsHold

LEMMA GrantNow ==
  /\ Lp!Now \in GrantSnapshots <=>
       /\ period \in [LeavePeriods -> GrantPeriods] /\ policy \in [Policies -> GrantPolicies]
       /\ assignment \in [Slots -> {Lp!NoRow} \cup GrantRows] /\ granted \in [Slots -> GrantedRows]
  /\ Lp!Now' \in GrantSnapshots <=>
       /\ period' \in [LeavePeriods -> GrantPeriods] /\ policy' \in [Policies -> GrantPolicies]
       /\ assignment' \in [Slots -> {Lp!NoRow} \cup GrantRows] /\ granted' \in [Slots -> GrantedRows]
  <1> DEFINE A == [LeavePeriods -> GrantPeriods]
             B == [Policies -> GrantPolicies]
             C == [Slots -> {Lp!NoRow} \cup GrantRows]
             D == [Slots -> GrantedRows]
  <1>1. GrantSnapshots = [period : A, policy : B, assignment : C, granted : D]
    BY DEF GrantSnapshots
  <1> HIDE DEF A, B, C, D
  <1>2. \A a, b, c, d : [period |-> a, policy |-> b, assignment |-> c, granted |-> d] \in GrantSnapshots
                         <=> a \in A /\ b \in B /\ c \in C /\ d \in D
    BY <1>1
  <1> QED BY <1>2 DEF A, B, C, D, Lp!Now

LEMMA GrantKinds ==
  /\ Lp!NoPolicy.ds = -1 /\ Lp!NoRow.ds = -1 /\ Lp!NoRow \notin GrantRows
  /\ \A x \in GrantPolicies : x.ds \in -1..2 /\ x.lines \in SUBSET LeaveTypes /\ (x = Lp!NoPolicy \/ x.lines # {})
  /\ \A x \in GrantRows : /\ x.ds \in {1, 2} /\ x.from \in Days /\ x.to \in Days /\ x.policy \in Policies
                          /\ x.emp \in Employees /\ x.period \in LeavePeriods \cup {Lp!Joining}
  /\ Lp!NoGrant.lines = {}
  /\ \A x \in GrantedRows : x = Lp!NoGrant \/ x.lines # {}
  BY DEF Lp!NoPolicy, Lp!NoRow, Lp!NoGrant, GrantPolicies, GrantRows, GrantedRows

LEMMA GrantView ==
  ASSUME GrantBase, NEW v \in Lp!Views
  PROVE  /\ v.period \in [LeavePeriods -> GrantPeriods] /\ v.policy \in [Policies -> GrantPolicies]
         /\ v.assignment \in [Slots -> {Lp!NoRow} \cup GrantRows]
         /\ ~overlap => v = Lp!Now
         /\ \A l \in Slots : v.assignment[l] # Lp!NoRow => assignment[l] # Lp!NoRow
  <1>1. v \in GrantSnapshots /\ (~overlap => v = Lp!Now)
    BY DEF GrantBase, Lp!Views
  <1>2. \A l \in Slots : v.assignment[l] # Lp!NoRow => assignment[l] # Lp!NoRow
    BY DEF GrantBase, Lp!Views, Lp!Now
  <1>3. v.period \in [LeavePeriods -> GrantPeriods] /\ v.policy \in [Policies -> GrantPolicies]
        /\ v.assignment \in [Slots -> {Lp!NoRow} \cup GrantRows]
    BY <1>1 DEF GrantSnapshots
  <1> QED BY <1>1, <1>2, <1>3

LEMMA GrantEnds ==
  ASSUME GrantBase, NEW v \in Lp!Views, Lp!Ends(v), Lp!Now' \in GrantSnapshots,
         \A l \in Slots : assignment[l] # Lp!NoRow => assignment'[l] # Lp!NoRow
  PROVE  GrantBase' /\ overlap' = overlap
  <1>1. \A w \in Lp!Views, l \in Slots : w.assignment[l] # Lp!NoRow => assignment'[l] # Lp!NoRow
    BY GrantView
  <1>2. held' \subseteq Lp!Views /\ Lp!Views \subseteq GrantSnapshots /\ overlap' = overlap /\ (held = {} => held' = {})
    BY DEF GrantBase, Lp!Ends, Lp!Views
  <1> QED BY <1>1, <1>2 DEF GrantBase, GrantDays

\* Periods and policies change; those of assignments in force do not when requests do not overlap.
LEMMA MastersChange ==
  ASSUME GrantInv, NEW v \in Lp!Views, Lp!Ends(v), UNCHANGED <<assignment, granted>>,
         period' \in [LeavePeriods -> GrantPeriods], policy' \in [Policies -> GrantPolicies],
         ~overlap => \A l \in Lp!InForce(Lp!Now) :
           /\ assignment[l].period # Lp!Joining => period'[assignment[l].period] = period[assignment[l].period]
           /\ policy'[assignment[l].policy] = policy[assignment[l].policy]
  PROVE  GrantInv'
  <1>1. Lp!Now' \in GrantSnapshots
    BY GrantNow DEF GrantInv, GrantBase
  <1>2. GrantBase' /\ overlap' = overlap
    BY <1>1, GrantEnds DEF GrantInv
  <1>3. Lp!GrantsFollow'
    BY DEF GrantInv, Lp!GrantsFollow
  <1>4. Lp!InForce(Lp!Now)' = Lp!InForce(Lp!Now)
    BY DEF Lp!InForce, Lp!Now
  <1>5. ASSUME ~overlap, NEW l \in Lp!InForce(Lp!Now)
        PROVE  assignment[l].period \in LeavePeriods \cup {Lp!Joining}
    BY <1>5, GrantNow, GrantKinds DEF GrantInv, GrantBase, Lp!InForce, Lp!Now
  <1>6. Lp!AssignmentsHold'
    BY <1>2, <1>4, <1>5 DEF GrantInv, Lp!AssignmentsHold, Lp!Meets
  <1> QED BY <1>2, <1>3, <1>6 DEF GrantInv

\* A row that is made of what the request has read, and one that is taken back.
GrantGiven(v, l) ==
  LET x == assignment'[l]
  IN /\ assignment[l] = Lp!NoRow /\ x \in GrantRows /\ x.ds = 1
     /\ granted'[l] = [lines |-> v.policy[x.policy].lines, from |-> x.from, to |-> x.to]
     /\ v.policy[x.policy].ds = 1
     /\ x.period # Lp!Joining => v.period[x.period] = [from |-> x.from, to |-> x.to]
GrantTaken(l) ==
  /\ assignment[l] # Lp!NoRow /\ assignment'[l] = [assignment[l] EXCEPT !.ds = 2] /\ granted'[l] = Lp!NoGrant
GrantStays(l) == assignment'[l] = assignment[l] /\ granted'[l] = granted[l]
GrantsApart(x, y) == x.emp = y.emp => ~Lp!Meets(x, y.from, y.to)

LEMMA AssignmentsChange ==
  ASSUME GrantInv, NEW v \in Lp!Views, Lp!Ends(v), UNCHANGED <<period, policy>>,
         assignment' \in [Slots -> {Lp!NoRow} \cup GrantRows], DOMAIN granted' = Slots, granted' = [l \in Slots |-> granted'[l]],
         \A l \in Slots : GrantGiven(v, l) \/ GrantTaken(l) \/ GrantStays(l),
         ~overlap => \A l, n \in Slots :
           GrantGiven(v, l) /\ n # l => \/ GrantGiven(v, n) /\ assignment'[n].emp # assignment'[l].emp
                                        \/ GrantTaken(n)
                                        \/ GrantStays(n) /\ (assignment[n].ds = 1 => GrantsApart(assignment[n], assignment'[l]))
  PROVE  GrantInv'
  <1>0. /\ period \in [LeavePeriods -> GrantPeriods] /\ policy \in [Policies -> GrantPolicies]
        /\ assignment \in [Slots -> {Lp!NoRow} \cup GrantRows] /\ granted \in [Slots -> GrantedRows]
    BY GrantNow DEF GrantInv, GrantBase
  <1>1. ASSUME NEW l \in Slots, GrantGiven(v, l)
        PROVE  /\ granted'[l] \in GrantedRows /\ granted'[l].lines # {} /\ assignment'[l].ds = 1
               /\ granted'[l].from = assignment'[l].from /\ granted'[l].to = assignment'[l].to
               /\ granted'[l].lines = v.policy[assignment'[l].policy].lines
    <2> DEFINE x == assignment'[l]
               y == v.policy[x.policy].lines
    <2>1. x \in GrantRows /\ x.ds = 1 /\ granted'[l] = [lines |-> y, from |-> x.from, to |-> x.to]
          /\ v.policy[x.policy].ds = 1
      BY <1>1 DEF GrantGiven
    <2>2. v.policy[x.policy] \in GrantPolicies /\ x.from \in Days /\ x.to \in Days
      BY <2>1, GrantKinds, GrantView DEF GrantInv
    <2>3. y \in (SUBSET LeaveTypes) \ {{}}
      BY <2>1, <2>2, GrantKinds
    <2> HIDE DEF x, y
    <2>4. granted'[l] \in GrantedRows /\ granted'[l].lines = y /\ granted'[l].from = x.from /\ granted'[l].to = x.to
      BY <2>1, <2>2, <2>3 DEF GrantedRows
    <2> QED BY <2>1, <2>3, <2>4 DEF x, y
  <1>2. ASSUME NEW l \in Slots, GrantTaken(l)
        PROVE  granted'[l] = Lp!NoGrant /\ assignment'[l].ds = 2 /\ assignment'[l] # Lp!NoRow
    <2>1. assignment[l] \in GrantRows /\ assignment'[l] = [assignment[l] EXCEPT !.ds = 2] /\ granted'[l] = Lp!NoGrant
      BY <1>0, <1>2 DEF GrantTaken
    <2>2. assignment'[l].ds = 2
      BY <2>1 DEF GrantRows
    <2> QED BY <2>1, <2>2 DEF Lp!NoRow
  <1>3. \A l \in Slots : granted'[l] \in GrantedRows
    BY <1>0, <1>1, <1>2 DEF GrantStays, GrantedRows
  <1>4. granted' \in [Slots -> GrantedRows]
    BY <1>3
  <1>5. Lp!Now' \in GrantSnapshots
    BY <1>0, <1>4, GrantNow
  <1>6. \A l \in Slots : assignment[l] # Lp!NoRow => assignment'[l] # Lp!NoRow
    BY <1>2 DEF GrantGiven, GrantStays
  <1>7. GrantBase' /\ overlap' = overlap
    BY <1>5, <1>6, GrantEnds DEF GrantInv
  <1>8. Lp!GrantsFollow'
    <2>1. ASSUME NEW l \in Slots
          PROVE  IF assignment'[l].ds = 1
                 THEN /\ granted'[l].lines # {} /\ granted'[l].from = assignment'[l].from
                      /\ granted'[l].to = assignment'[l].to
                 ELSE granted'[l] = Lp!NoGrant
      <3>1. CASE GrantGiven(v, l)
        BY <1>1, <3>1
      <3>2. CASE GrantTaken(l)
        BY <1>2, <3>2
      <3>3. CASE GrantStays(l)
        BY <3>3 DEF GrantStays, GrantInv, Lp!GrantsFollow
      <3> QED BY <3>1, <3>2, <3>3
    <2> QED BY <2>1 DEF Lp!GrantsFollow
  <1>9. ASSUME ~overlap
        PROVE  \A l \in Slots : assignment[l].ds = 1 =>
                 /\ policy[assignment[l].policy].ds = 1 /\ policy[assignment[l].policy].lines = granted[l].lines
                 /\ assignment[l].period # Lp!Joining
                      => period[assignment[l].period] = [from |-> assignment[l].from, to |-> assignment[l].to]
                 /\ \A n \in Slots \ {l} : assignment[n].ds = 1 => GrantsApart(assignment[n], assignment[l])
    <2>1. \A n \in Slots : n \in Lp!InForce(Lp!Now) <=> assignment[n].ds = 1
      BY DEF Lp!InForce, Lp!Now
    <2>2. Lp!AssignmentsHold
      BY DEF GrantInv
    <2> QED BY <1>9, <2>1, <2>2, ZenonT(30) DEF Lp!AssignmentsHold, GrantsApart
  <1>10. ASSUME ~overlap
        PROVE  \A l \in Lp!InForce(Lp!Now') : LET x == assignment'[l]
                 IN /\ policy[x.policy].ds = 1 /\ policy[x.policy].lines = granted'[l].lines
                    /\ x.period # Lp!Joining => period[x.period] = [from |-> x.from, to |-> x.to]
                    /\ \A n \in Lp!InForce(Lp!Now') \ {l} : assignment'[n].emp = x.emp => ~Lp!Meets(assignment'[n], x.from, x.to)
    <2>1. v.policy = policy /\ v.period = period
      BY <1>10, GrantView DEF GrantInv, Lp!Now
    <2>2. \A l \in Slots : l \in Lp!InForce(Lp!Now') <=> assignment'[l].ds = 1
      BY DEF Lp!InForce, Lp!Now
    <2>3. \A l \in Slots : assignment'[l].ds = 1 => GrantGiven(v, l) \/ (GrantStays(l) /\ assignment[l].ds = 1)
      BY <1>2 DEF GrantStays
    <2>4. Lp!InForce(Lp!Now') \subseteq Slots
      BY DEF Lp!InForce
    <2>5. ASSUME NEW l \in Slots, assignment'[l].ds = 1
          PROVE  LET x == assignment'[l]
                 IN /\ policy[x.policy].ds = 1 /\ policy[x.policy].lines = granted'[l].lines
                    /\ x.period # Lp!Joining => period[x.period] = [from |-> x.from, to |-> x.to]
      <3>1. CASE GrantGiven(v, l)
        BY <1>1, <2>1, <3>1 DEF GrantGiven
      <3>2. CASE GrantStays(l) /\ assignment[l].ds = 1
        <4>1. assignment'[l] = assignment[l] /\ granted'[l] = granted[l]
          BY <3>2 DEF GrantStays
        <4>2. /\ policy[assignment[l].policy].ds = 1 /\ policy[assignment[l].policy].lines = granted[l].lines
              /\ assignment[l].period # Lp!Joining
                   => period[assignment[l].period] = [from |-> assignment[l].from, to |-> assignment[l].to]
          BY <1>9, <1>10, <3>2
        <4> QED BY <4>1, <4>2
      <3> QED BY <2>3, <2>5, <3>1, <3>2
    <2>6. ASSUME NEW l \in Slots, NEW n \in Slots, n # l, assignment'[l].ds = 1, assignment'[n].ds = 1
          PROVE  GrantsApart(assignment'[n], assignment'[l])
      <3>1. \A a, b \in Slots : GrantGiven(v, a) /\ b # a /\ assignment'[b].ds = 1
              => \/ assignment'[b].emp # assignment'[a].emp
                 \/ assignment'[b] = assignment[b] /\ assignment[b].ds = 1 /\ GrantsApart(assignment[b], assignment'[a])
        BY <1>2, <1>10 DEF GrantStays
      <3>2. CASE GrantGiven(v, l)
        BY <2>6, <3>1, <3>2 DEF GrantsApart
      <3>3. CASE GrantGiven(v, n) /\ GrantStays(l)
        <4>1. GrantsApart(assignment'[l], assignment'[n])
          BY <2>6, <3>1, <3>3 DEF GrantsApart
        <4>2. \A a \in {l, n} : assignment'[a].from \in Nat /\ assignment'[a].to \in Nat
          BY <2>6, GrantKinds DEF GrantInv, GrantBase, GrantDays
        <4> QED BY <4>1, <4>2 DEF GrantsApart, Lp!Meets
      <3>4. CASE GrantStays(l) /\ GrantStays(n)
        <4>1. assignment'[l] = assignment[l] /\ assignment'[n] = assignment[n]
          BY <3>4 DEF GrantStays
        <4>2. GrantsApart(assignment[n], assignment[l])
          BY <1>9, <1>10, <2>6, <4>1
        <4> QED BY <4>1, <4>2
      <3> QED BY <2>3, <2>6, <3>2, <3>3, <3>4
    <2> QED BY <2>2, <2>4, <2>5, <2>6 DEF GrantsApart
  <1>11. Lp!AssignmentsHold'
    BY <1>7, <1>10 DEF Lp!AssignmentsHold
  <1> QED BY <1>7, <1>8, <1>11 DEF GrantInv

-----------------------------------------------------------------------------
(* One request at a time. *)

LEMMA GrantTypes ==
  ASSUME GrantInv
  PROVE  /\ period \in [LeavePeriods -> GrantPeriods] /\ policy \in [Policies -> GrantPolicies]
         /\ assignment \in [Slots -> {Lp!NoRow} \cup GrantRows] /\ granted \in [Slots -> GrantedRows]
  BY GrantNow DEF GrantInv, GrantBase

LEMMA InForceHolds ==
  ASSUME GrantInv, ~overlap, NEW l \in Slots, assignment[l].ds = 1
  PROVE  /\ policy[assignment[l].policy].ds = 1
         /\ assignment[l].period # Lp!Joining
              => period[assignment[l].period] = [from |-> assignment[l].from, to |-> assignment[l].to]
  <1>1. l \in Lp!InForce(Lp!Now)
    BY DEF Lp!InForce, Lp!Now
  <1> QED BY <1>1 DEF GrantInv, Lp!AssignmentsHold

LEMMA GrantHold ==
  ASSUME GrantInv, Lp!Hold
  PROVE  GrantInv'
  <1>1. Lp!Now' = Lp!Now /\ held' = {Lp!Now} /\ overlap /\ overlap' = overlap /\ UNCHANGED <<period, policy, assignment, granted>>
    BY DEF Lp!Hold, Lp!rows, Lp!Now
  <1>2. GrantBase'
    BY <1>1 DEF GrantInv, GrantBase, GrantDays, Lp!Now
  <1>3. Lp!GrantsFollow'
    BY <1>1 DEF GrantInv, Lp!GrantsFollow
  <1> QED BY <1>1, <1>2, <1>3 DEF GrantInv, Lp!AssignmentsHold

LEMMA PeriodSteps ==
  ASSUME GrantInv, NEW v \in Lp!Views, NEW p \in LeavePeriods, NEW from \in Days, NEW to \in Days,
         Lp!create_leave_period(v, p, from, to) \/ Lp!update_leave_period(v, p, from, to) \/ Lp!delete_leave_period(v, p)
  PROVE  GrantInv'
  <1> DEFINE x == [from |-> from, to |-> to]
  <1>1. x \in GrantPeriods /\ Lp!NoPeriod \in GrantPeriods
    BY DEF GrantPeriods
  <1>2. Lp!Ends(v) /\ UNCHANGED <<policy, assignment, granted>>
    BY DEF Lp!create_leave_period, Lp!update_leave_period, Lp!delete_leave_period
  <1>3. period' = [period EXCEPT ![p] = x] \/ period' = [period EXCEPT ![p] = Lp!NoPeriod]
    BY DEF Lp!create_leave_period, Lp!update_leave_period, Lp!delete_leave_period
  <1>4. ~overlap => v = Lp!Now
    BY GrantView DEF GrantInv
  <1>5. ASSUME ~overlap, NEW l \in Lp!InForce(Lp!Now), assignment[l].period = p, p # Lp!Joining
        PROVE  period'[p] = period[p]
    <2>1. l \in Slots /\ assignment[l].ds = 1 /\ Lp!Frozen(v, p) /\ v = Lp!Now
      BY <1>4, <1>5 DEF Lp!Frozen, Lp!InForce, Lp!Now
    <2>2. period[p] # Lp!NoPeriod
      <3>1. period[p] = [from |-> assignment[l].from, to |-> assignment[l].to]
        BY <1>5, <2>1, InForceHolds
      <3>2. assignment[l].from \in Days
        BY <2>1, GrantTypes, GrantKinds
      <3> QED BY <3>1, <3>2 DEF Lp!NoPeriod, GrantInv, GrantBase, GrantDays
    <2>3. CASE Lp!create_leave_period(v, p, from, to)
      BY <2>2, <2>3 DEF Lp!create_leave_period
    <2>4. CASE Lp!update_leave_period(v, p, from, to)
      BY <2>1, <2>4 DEF Lp!update_leave_period, Lp!Now
    <2>5. CASE Lp!delete_leave_period(v, p)
      BY <2>1, <2>5, <1>5 DEF Lp!delete_leave_period, Lp!Now
    <2> QED BY <2>3, <2>4, <2>5
  <1> HIDE DEF x
  <1>6. period' \in [LeavePeriods -> GrantPeriods] /\ \A q \in LeavePeriods \ {p} : period'[q] = period[q]
    BY <1>1, <1>3, GrantTypes
  <1>7. ASSUME ~overlap, NEW l \in Lp!InForce(Lp!Now), assignment[l].period # Lp!Joining
        PROVE  period'[assignment[l].period] = period[assignment[l].period]
    <2>1. l \in Slots /\ assignment[l].ds = 1
      BY DEF Lp!InForce, Lp!Now
    <2>2. assignment[l].period \in LeavePeriods
      BY <1>7, <2>1, GrantTypes, GrantKinds
    <2> QED BY <1>5, <1>6, <1>7, <2>2
  <1> QED BY <1>2, <1>6, <1>7, GrantTypes, MastersChange

LEMMA PolicyDraftIs == \A lines \in SUBSET LeaveTypes : lines # {} => Lp!Draft(lines) \in GrantPolicies /\ Lp!Draft(lines).ds = 0
  BY DEF Lp!Draft, GrantPolicies

LEMMA SubmittedIs ==
  \A x \in GrantPolicies : x # Lp!NoPolicy =>
    [x EXCEPT !.ds = 1] \in GrantPolicies /\ [x EXCEPT !.ds = 2] \in GrantPolicies
  BY DEF GrantPolicies

\* Policies change that are not those of assignments in force.
LEMMA PoliciesChange ==
  ASSUME GrantInv, NEW v \in Lp!Views, Lp!Ends(v), UNCHANGED <<period, assignment, granted>>,
         policy' \in [Policies -> GrantPolicies],
         \A k \in Policies : policy'[k] # policy[k] /\ policy[k].ds = 1 => v.policy[k] = policy[k] /\ ~Lp!Linked(v, k, {1})
  PROVE  GrantInv'
  <1>1. ASSUME ~overlap, NEW l \in Lp!InForce(Lp!Now)
        PROVE  policy'[assignment[l].policy] = policy[assignment[l].policy]
    <2>1. v = Lp!Now /\ l \in Slots /\ assignment[l].ds = 1
      BY <1>1, GrantView DEF GrantInv, Lp!InForce, Lp!Now
    <2>2. policy[assignment[l].policy].ds = 1 /\ assignment[l].policy \in Policies
      <3>1. assignment[l] \in GrantRows
        BY <2>1, GrantTypes, GrantKinds
      <3> QED BY <1>1, <2>1, <3>1, InForceHolds, GrantKinds
    <2>3. Lp!Linked(v, assignment[l].policy, {1})
      BY <2>1 DEF Lp!Linked, Lp!Now
    <2> QED BY <2>2, <2>3
  <1> QED BY <1>1, GrantTypes, MastersChange

LEMMA PolicySteps ==
  ASSUME GrantInv, NEW v \in Lp!Views, NEW k \in Policies, NEW n \in Policies, NEW lines \in SUBSET LeaveTypes,
         \/ Lp!save_leave_policy(v, k, lines) \/ Lp!submit_leave_policy(v, k) \/ Lp!cancel_leave_policy(v, k)
         \/ Lp!delete_leave_policy(v, k) \/ Lp!amend_leave_policy(v, k, n, lines) \/ Lp!duplicate_leave_policy(v, k, n)
  PROVE  GrantInv'
  <1>0. /\ policy[k] \in GrantPolicies /\ v.policy[k] \in GrantPolicies /\ Lp!NoPolicy \in GrantPolicies
        /\ (policy[k].ds # -1 => policy[k] # Lp!NoPolicy) /\ policy \in [Policies -> GrantPolicies]
    BY GrantTypes, GrantView, GrantKinds DEF GrantInv, GrantPolicies
  <1>1. CASE Lp!save_leave_policy(v, k, lines)
    <2>1. policy' = [policy EXCEPT ![k] = Lp!Draft(lines)] /\ Lp!Draft(lines) \in GrantPolicies /\ policy[k].ds # 1
          /\ Lp!Ends(v) /\ UNCHANGED <<period, assignment, granted>>
      BY <1>1, PolicyDraftIs DEF Lp!save_leave_policy, Lp!PolicyBecomes
    <2> QED BY <1>0, <2>1, PoliciesChange
  <1>2. CASE Lp!submit_leave_policy(v, k)
    <2>1. policy' = [policy EXCEPT ![k] = [policy[k] EXCEPT !.ds = 1]] /\ policy[k].ds = 0
          /\ Lp!Ends(v) /\ UNCHANGED <<period, assignment, granted>>
      BY <1>2 DEF Lp!submit_leave_policy, Lp!PolicyBecomes
    <2>2. policy[k] # Lp!NoPolicy
      BY <2>1 DEF Lp!NoPolicy
    <2>3. [policy[k] EXCEPT !.ds = 1] \in GrantPolicies
      BY <1>0, <2>2, SubmittedIs
    <2> QED BY <1>0, <2>1, <2>3, PoliciesChange
  <1>3. CASE Lp!cancel_leave_policy(v, k)
    <2>1. policy' = [policy EXCEPT ![k] = [policy[k] EXCEPT !.ds = 2]] /\ policy[k].ds = 1 /\ v.policy[k] = policy[k]
          /\ ~Lp!Linked(v, k, {1}) /\ Lp!Ends(v) /\ UNCHANGED <<period, assignment, granted>>
      BY <1>3 DEF Lp!cancel_leave_policy, Lp!_assert_policy_cancel, Lp!PolicyBecomes
    <2>2. policy[k] # Lp!NoPolicy
      BY <2>1 DEF Lp!NoPolicy
    <2>3. [policy[k] EXCEPT !.ds = 2] \in GrantPolicies
      BY <1>0, <2>2, SubmittedIs
    <2> QED BY <1>0, <2>1, <2>3, PoliciesChange
  <1>4. CASE Lp!delete_leave_policy(v, k)
    <2>1. policy' = [policy EXCEPT ![k] = Lp!NoPolicy] /\ policy[k].ds # 1 /\ Lp!Ends(v) /\ UNCHANGED <<period, assignment, granted>>
      BY <1>4 DEF Lp!delete_leave_policy, Lp!PolicyBecomes
    <2> QED BY <1>0, <2>1, PoliciesChange
  <1>5. CASE Lp!amend_leave_policy(v, k, n, lines)
    <2> DEFINE new == Lp!Draft(IF lines = {} THEN v.policy[k].lines ELSE lines)
               old == IF v.policy[k].ds = 1 THEN [policy[k] EXCEPT !.ds = 2] ELSE policy[k]
    <2>1. /\ policy[n] = Lp!NoPolicy /\ v.policy[k].ds \in {1, 2} /\ Lp!Ends(v) /\ UNCHANGED <<period, assignment, granted>>
          /\ v.policy[k].ds = 1 => v.policy[k] = policy[k] /\ policy[k].ds = 1 /\ ~Lp!Linked(v, k, {1})
      BY <1>5 DEF Lp!amend_leave_policy, Lp!_assert_policy_cancel
    <2>2. v.policy[k].lines \in SUBSET LeaveTypes /\ v.policy[k].lines # {}
      BY <1>0, <2>1, GrantKinds
    <2>3. new \in GrantPolicies
      BY <2>2, PolicyDraftIs
    <2>4. old \in GrantPolicies /\ (old # policy[k] => v.policy[k].ds = 1)
      <3>1. CASE v.policy[k].ds = 1
        <4>1. policy[k] # Lp!NoPolicy
          BY <2>1, <3>1 DEF Lp!NoPolicy
        <4> QED BY <1>0, <3>1, <4>1, SubmittedIs
      <3> QED BY <1>0, <3>1
    <2>5. policy' = [policy EXCEPT ![k] = old, ![n] = new]
      BY <1>5 DEF Lp!amend_leave_policy
    <2> HIDE DEF old, new
    <2>6. policy' \in [Policies -> GrantPolicies]
          /\ \A x \in Policies : policy'[x] # policy[x] => (x = k /\ v.policy[k].ds = 1) \/ x = n
      BY <1>0, <2>3, <2>4, <2>5
    <2>7. policy[n].ds # 1
      BY <2>1, GrantKinds
    <2> QED BY <2>1, <2>6, <2>7, PoliciesChange
  <1>6. CASE Lp!duplicate_leave_policy(v, k, n)
    <2>1. policy' = [policy EXCEPT ![n] = Lp!Draft(v.policy[k].lines)] /\ policy[n] = Lp!NoPolicy /\ v.policy[k].ds >= 0
          /\ Lp!Ends(v) /\ UNCHANGED <<period, assignment, granted>>
      BY <1>6 DEF Lp!duplicate_leave_policy, Lp!PolicyBecomes
    <2>2. v.policy[k].lines \in SUBSET LeaveTypes /\ v.policy[k].lines # {}
      BY <1>0, <2>1, GrantKinds
    <2>3. Lp!Draft(v.policy[k].lines) \in GrantPolicies /\ policy[n].ds # 1
      BY <2>1, <2>2, PolicyDraftIs, GrantKinds
    <2> QED BY <1>0, <2>1, <2>3, PoliciesChange
  <1> QED BY <1>1, <1>2, <1>3, <1>4, <1>5, <1>6

\* The row made for an employee is of the policy and the dates that were read.
LEMMA PayloadIs ==
  ASSUME GrantInv, NEW v \in Lp!Views, NEW e \in Employees, NEW k \in Policies, NEW p \in LeavePeriods \cup {Lp!Joining},
         NEW from \in Days, NEW to \in Days, NEW x, x = Lp!_assignment_payload(v, e, k, p, from, to), NEW gone,
         Lp!Assignable(v, e, k, p, x, gone)
  PROVE  /\ x \in GrantRows /\ x.ds = 1 /\ x.emp = e /\ x.policy = k /\ v.policy[x.policy].ds = 1
         /\ x.period # Lp!Joining => v.period[x.period] = [from |-> x.from, to |-> x.to]
         /\ Lp!Grants(v, x) = [lines |-> v.policy[x.policy].lines, from |-> x.from, to |-> x.to]
         /\ ~overlap => \A n \in Slots \ gone : assignment[n].ds = 1 => GrantsApart(assignment[n], x)
  <1> DEFINE f == IF p = Lp!Joining THEN from ELSE v.period[p].from
             t == IF p = Lp!Joining THEN to ELSE v.period[p].to
  <1>1. p # Lp!Joining => v.period[p] \in [from : Days, to : Days]
    BY GrantView DEF GrantInv, GrantPeriods, Lp!Assignable
  <1>2. f \in Days /\ t \in Days /\ (p # Lp!Joining => v.period[p] = [from |-> f, to |-> t])
    BY <1>1
  <1>3. x = [ds |-> 1, emp |-> e, policy |-> k, period |-> p, from |-> f, to |-> t]
    BY DEF Lp!_assignment_payload
  <1> HIDE DEF f, t
  <1>4. x \in GrantRows /\ x.ds = 1 /\ x.emp = e /\ x.policy = k /\ x.period = p /\ x.from = f /\ x.to = t
    BY <1>2, <1>3 DEF GrantRows
  <1>5. ASSUME ~overlap, NEW n \in Slots \ gone, assignment[n].ds = 1
        PROVE  GrantsApart(assignment[n], x)
    <2>1. v.assignment = assignment
      BY <1>5, GrantView DEF GrantInv, Lp!Now
    <2>2. n \in Lp!InForce(v) \ gone
      BY <1>5, <2>1 DEF Lp!InForce
    <2> QED BY <1>4, <2>1, <2>2 DEF Lp!Assignable, GrantsApart
  <1> QED BY <1>2, <1>4, <1>5 DEF Lp!Assignable, Lp!Grants

LEMMA PolicyAssignSteps ==
  ASSUME GrantInv, NEW v \in Lp!Views, NEW l \in Slots, NEW e \in Employees, NEW k \in Policies,
         NEW p \in LeavePeriods \cup {Lp!Joining}, NEW from \in Days, NEW to \in Days, Lp!assign_leave_policy(v, l, e, k, p, from, to)
  PROVE  GrantInv'
  <1> DEFINE x == Lp!_assignment_payload(v, e, k, p, from, to)
  <1>1. /\ assignment[l] = Lp!NoRow /\ Lp!Assignable(v, e, k, p, x, {})
        /\ assignment' = [assignment EXCEPT ![l] = x] /\ granted' = [granted EXCEPT ![l] = Lp!Grants(v, x)]
        /\ Lp!Ends(v) /\ UNCHANGED <<period, policy>>
    BY DEF Lp!assign_leave_policy
  <1>2. /\ x \in GrantRows /\ x.ds = 1 /\ x.emp = e /\ x.policy = k /\ v.policy[x.policy].ds = 1
        /\ x.period # Lp!Joining => v.period[x.period] = [from |-> x.from, to |-> x.to]
        /\ Lp!Grants(v, x) = [lines |-> v.policy[x.policy].lines, from |-> x.from, to |-> x.to]
        /\ ~overlap => \A n \in Slots \ {} : assignment[n].ds = 1 => GrantsApart(assignment[n], x)
    BY <1>1, PayloadIs
  <1> HIDE DEF x
  <1>3. /\ assignment' \in [Slots -> {Lp!NoRow} \cup GrantRows] /\ assignment'[l] = x /\ granted'[l] = Lp!Grants(v, x)
        /\ granted' = [n \in Slots |-> granted'[n]] /\ DOMAIN granted' = Slots
        /\ \A n \in Slots \ {l} : assignment'[n] = assignment[n] /\ granted'[n] = granted[n]
    BY <1>1, <1>2, GrantTypes
  <1>4. GrantGiven(v, l) /\ \A n \in Slots \ {l} : GrantStays(n)
    BY <1>1, <1>2, <1>3 DEF GrantGiven, GrantStays
  <1>5. \A n \in Slots \ {l} : ~GrantGiven(v, n)
    <2>1. Lp!NoRow.ds = -1
      BY GrantKinds
    <2> QED BY <1>3, <2>1 DEF GrantGiven
  <1> QED BY <1>1, <1>2, <1>3, <1>4, <1>5, AssignmentsChange

LEMMA PolicyCancelledIs ==
  \A x \in GrantRows : [x EXCEPT !.ds = 2] \in GrantRows /\ [x EXCEPT !.ds = 2] # Lp!NoRow /\ [x EXCEPT !.ds = 2].ds = 2
  BY DEF GrantRows, Lp!NoRow

LEMMA RevokeSteps ==
  ASSUME GrantInv, NEW v \in Lp!Views, NEW l \in Slots, Lp!cancel_leave_policy_assignment(v, l)
  PROVE  GrantInv'
  <1>1. /\ assignment[l].ds = 1 /\ granted' = [granted EXCEPT ![l] = Lp!NoGrant] /\ Lp!Ends(v) /\ UNCHANGED <<period, policy>>
        /\ assignment' = [assignment EXCEPT ![l] = [assignment[l] EXCEPT !.ds = 2]]
    BY DEF Lp!cancel_leave_policy_assignment, Lp!_cancel_live_allocations
  <1>2. assignment[l] \in GrantRows /\ assignment[l] # Lp!NoRow
    BY <1>1, GrantTypes, GrantKinds
  <1>3. /\ assignment' \in [Slots -> {Lp!NoRow} \cup GrantRows] /\ granted' = [n \in Slots |-> granted'[n]] /\ DOMAIN granted' = Slots
        /\ GrantTaken(l) /\ \A n \in Slots \ {l} : GrantStays(n)
    BY <1>1, <1>2, PolicyCancelledIs, GrantTypes DEF GrantTaken, GrantStays
  <1>4. \A n \in Slots : ~GrantGiven(v, n)
    BY <1>2, <1>3, GrantKinds DEF GrantGiven, GrantStays
  <1> QED BY <1>1, <1>3, <1>4, AssignmentsChange

LEMMA ReplaceSteps ==
  ASSUME GrantInv, NEW v \in Lp!Views, NEW l \in Slots, NEW n \in Slots, NEW k \in Policies, NEW p \in LeavePeriods \cup {Lp!Joining},
         Lp!amend_leave_policy_assignment(v, l, n, k, p)
  PROVE  GrantInv'
  <1> DEFINE old == v.assignment[l]
             x == Lp!_assignment_payload(v, old.emp, k, p, old.from, old.to)
             gone == [assignment[l] EXCEPT !.ds = 2]
  <1>1. /\ assignment[n] = Lp!NoRow /\ n # l /\ old.ds \in {1, 2} /\ Lp!Assignable(v, old.emp, k, p, x, {l})
        /\ assignment' = [assignment EXCEPT ![l] = gone, ![n] = x]
        /\ granted' = [granted EXCEPT ![l] = Lp!NoGrant, ![n] = Lp!Grants(v, x)]
        /\ Lp!Ends(v) /\ UNCHANGED <<period, policy>>
    BY DEF Lp!amend_leave_policy_assignment, Lp!_cancel_live_allocations
  <1>2. old \in GrantRows /\ assignment[l] \in GrantRows /\ assignment[l] # Lp!NoRow
    BY <1>1, GrantView, GrantTypes, GrantKinds DEF GrantInv
  <1>3. old.emp \in Employees /\ old.from \in Days /\ old.to \in Days
    BY <1>2, GrantKinds
  <1> HIDE DEF old
  <1>4. /\ x \in GrantRows /\ x.ds = 1 /\ x.emp = old.emp /\ x.policy = k /\ v.policy[x.policy].ds = 1
        /\ x.period # Lp!Joining => v.period[x.period] = [from |-> x.from, to |-> x.to]
        /\ Lp!Grants(v, x) = [lines |-> v.policy[x.policy].lines, from |-> x.from, to |-> x.to]
        /\ ~overlap => \A m \in Slots \ {l} : assignment[m].ds = 1 => GrantsApart(assignment[m], x)
    BY <1>1, <1>3, PayloadIs
  <1>5. gone \in GrantRows
    BY <1>2, PolicyCancelledIs
  <1> HIDE DEF x
  <1>6. ASSUME NEW m \in Slots, m = l
        PROVE  GrantTaken(m)
    BY <1>1, <1>2, <1>6, GrantTypes DEF GrantTaken
  <1> HIDE DEF gone
  <1>7. /\ assignment' \in [Slots -> {Lp!NoRow} \cup GrantRows] /\ assignment'[n] = x /\ granted'[n] = Lp!Grants(v, x)
        /\ granted' = [m \in Slots |-> granted'[m]] /\ DOMAIN granted' = Slots
        /\ \A m \in Slots \ {l, n} : assignment'[m] = assignment[m] /\ granted'[m] = granted[m]
    BY <1>1, <1>4, <1>5, GrantTypes
  <1>8. GrantGiven(v, n) /\ \A m \in Slots \ {l, n} : GrantStays(m)
    BY <1>1, <1>4, <1>7 DEF GrantGiven, GrantStays
  <1>9. \A m \in Slots \ {n} : ~GrantGiven(v, m)
    <2>1. Lp!NoRow.ds = -1
      BY GrantKinds
    <2> QED BY <1>2, <1>7, <2>1 DEF GrantGiven
  <1>10. ASSUME ~overlap, NEW a \in Slots, NEW m \in Slots, GrantGiven(v, a), m # a
         PROVE  GrantTaken(m) \/ (GrantStays(m) /\ (assignment[m].ds = 1 => GrantsApart(assignment[m], assignment'[a])))
    <2>1. a = n /\ assignment'[a] = x
      BY <1>7, <1>9, <1>10
    <2>2. CASE m = l
      BY <1>6, <2>2
    <2>3. CASE m # l
      <3>1. GrantStays(m) /\ (assignment[m].ds = 1 => GrantsApart(assignment[m], x))
        BY <1>4, <1>8, <1>10, <2>1, <2>3
      <3> QED BY <2>1, <3>1
    <2> QED BY <2>2, <2>3
  <1>11. ASSUME NEW m \in Slots
         PROVE  GrantGiven(v, m) \/ GrantTaken(m) \/ GrantStays(m)
    <2>1. CASE m = n
      BY <1>8, <2>1 DEF GrantGiven
    <2>2. CASE m = l
      BY <1>6, <2>2
    <2> QED BY <1>8, <2>1, <2>2
  <1>12. Lp!Ends(v) /\ UNCHANGED <<period, policy>>
    BY <1>1
  <1> HIDE DEF gone
  <1> QED BY <1>7, <1>10, <1>11, <1>12, AssignmentsChange

\* Several employees at once: of each the row is made as of one alone.
LEMMA PolicyBulkSteps ==
  ASSUME GrantInv, NEW v \in Lp!Views, NEW es \in SUBSET Employees, NEW slot \in [es -> Slots], NEW k \in Policies,
         NEW p \in LeavePeriods \cup {Lp!Joining}, NEW from \in Days, NEW to \in Days, NEW failing,
         Lp!bulk_assign_leave_policy(v, slot, k, p, from, to, failing)
  PROVE  GrantInv'
  <1> DEFINE row(e) == Lp!_assignment_payload(v, e, k, p, from, to)
             kept == {e \in es : Lp!Assignable(v, e, k, p, row(e), {})} \ failing
             at(l) == CHOOSE e \in kept : slot[e] = l
             has(l) == \E e \in kept : slot[e] = l
  <1>1. /\ \A e, f \in es : assignment[slot[e]] = Lp!NoRow /\ (slot[e] = slot[f] => e = f)
        /\ assignment' = [l \in Slots |-> IF has(l) THEN row(at(l)) ELSE assignment[l]]
        /\ Lp!Ends(v) /\ UNCHANGED <<period, policy>>
    BY DEF Lp!bulk_assign_leave_policy, Lp!KeptOf
  <1>2. granted' = [l \in Slots |-> IF has(l) THEN Lp!Grants(v, row(at(l))) ELSE granted[l]]
    <2>1. granted' = [l \in Slots |-> IF \E e \in kept \ failing : slot[e] = l THEN Lp!Grants(v, row(at(l))) ELSE granted[l]]
      BY DEF Lp!bulk_assign_leave_policy, Lp!KeptOf
    <2>2. kept \ failing = kept
      OBVIOUS
    <2> QED BY <2>1, <2>2
  <1>3. ASSUME NEW l \in Slots, has(l)
        PROVE  at(l) \in kept /\ at(l) \in es /\ slot[at(l)] = l
    BY <1>3
  <1>4. \A e \in es : e \in Employees
    OBVIOUS
  <1>5. ASSUME NEW e \in kept
        PROVE  /\ row(e) \in GrantRows /\ row(e).ds = 1 /\ row(e).emp = e /\ v.policy[row(e).policy].ds = 1
               /\ row(e).period # Lp!Joining => v.period[row(e).period] = [from |-> row(e).from, to |-> row(e).to]
               /\ Lp!Grants(v, row(e)) = [lines |-> v.policy[row(e).policy].lines, from |-> row(e).from, to |-> row(e).to]
               /\ ~overlap => \A n \in Slots : assignment[n].ds = 1 => GrantsApart(assignment[n], row(e))
    <2>1. e \in Employees /\ Lp!Assignable(v, e, k, p, row(e), {})
      BY <1>4
    <2> HIDE DEF kept
    <2>2. /\ row(e) \in GrantRows /\ row(e).ds = 1 /\ row(e).emp = e /\ v.policy[row(e).policy].ds = 1
          /\ row(e).period # Lp!Joining => v.period[row(e).period] = [from |-> row(e).from, to |-> row(e).to]
          /\ Lp!Grants(v, row(e)) = [lines |-> v.policy[row(e).policy].lines, from |-> row(e).from, to |-> row(e).to]
          /\ ~overlap => \A n \in Slots \ {} : assignment[n].ds = 1 => GrantsApart(assignment[n], row(e))
      BY <2>1, PayloadIs
    <2> QED BY <2>2
  <1> HIDE DEF row, kept, at, has
  <1>6. ASSUME NEW l \in Slots, has(l)
        PROVE  /\ GrantGiven(v, l) /\ assignment'[l].emp = at(l)
               /\ ~overlap => \A n \in Slots : assignment[n].ds = 1 => GrantsApart(assignment[n], assignment'[l])
    <2>1. assignment'[l] = row(at(l)) /\ granted'[l] = Lp!Grants(v, row(at(l))) /\ assignment[l] = Lp!NoRow
      BY <1>1, <1>2, <1>3, <1>6
    <2> QED BY <1>3, <1>5, <1>6, <2>1 DEF GrantGiven
  <1>7. ASSUME NEW l \in Slots, ~has(l)
        PROVE  GrantStays(l) /\ ~GrantGiven(v, l)
    <2>1. GrantStays(l)
      BY <1>1, <1>2, <1>7 DEF GrantStays
    <2> QED BY <2>1, GrantKinds DEF GrantStays, GrantGiven
  <1>8. /\ assignment' \in [Slots -> {Lp!NoRow} \cup GrantRows] /\ granted' = [m \in Slots |-> granted'[m]] /\ DOMAIN granted' = Slots
    <2>1. \A l \in Slots : assignment'[l] \in {Lp!NoRow} \cup GrantRows
      BY <1>6, <1>7, GrantTypes DEF GrantGiven, GrantStays
    <2> QED BY <1>1, <1>2, <2>1
  <1>9. ASSUME ~overlap, NEW l \in Slots, NEW n \in Slots, GrantGiven(v, l), n # l
        PROVE  \/ GrantGiven(v, n) /\ assignment'[n].emp # assignment'[l].emp
               \/ GrantStays(n) /\ (assignment[n].ds = 1 => GrantsApart(assignment[n], assignment'[l]))
    <2>1. has(l)
      BY <1>7, <1>9
    <2>2. CASE has(n)
      BY <1>3, <1>6, <1>9, <2>1, <2>2
    <2>3. CASE ~has(n)
      BY <1>6, <1>7, <1>9, <2>1, <2>3
    <2> QED BY <2>2, <2>3
  <1> QED BY <1>1, <1>6, <1>7, <1>8, <1>9, AssignmentsChange

-----------------------------------------------------------------------------
LEMMA GrantInit ==
  ASSUME GrantDays, Lp!Init
  PROVE  GrantInv
  <1>1. /\ period \in [LeavePeriods -> GrantPeriods] /\ policy \in [Policies -> GrantPolicies]
        /\ assignment \in [Slots -> {Lp!NoRow} \cup GrantRows] /\ granted \in [Slots -> GrantedRows]
    BY DEF Lp!Init, GrantPeriods, GrantPolicies, GrantedRows
  <1>2. GrantBase
    BY <1>1, GrantNow DEF Lp!Init, GrantBase, GrantDays
  <1>3. \A l \in Slots : assignment[l].ds = -1 /\ granted[l] = Lp!NoGrant
    BY GrantKinds DEF Lp!Init
  <1> QED BY <1>2, <1>3 DEF GrantInv, Lp!GrantsFollow, Lp!AssignmentsHold, Lp!InForce, Lp!Now

LEMMA GrantSteps ==
  ASSUME GrantInv, [Lp!Next]_Lp!vars
  PROVE  GrantInv'
  <1>1. CASE Lp!Hold
    BY <1>1, GrantHold
  <1>2. CASE UNCHANGED Lp!vars
    <2>1. Lp!Now' = Lp!Now /\ held' = held /\ overlap' = overlap /\ UNCHANGED <<period, policy, assignment, granted>>
      BY <1>2 DEF Lp!vars, Lp!Now
    <2>2. GrantBase'
      BY <2>1 DEF GrantInv, GrantBase, GrantDays
    <2>3. Lp!GrantsFollow' /\ Lp!AssignmentsHold'
      BY <2>1 DEF GrantInv, Lp!GrantsFollow, Lp!AssignmentsHold
    <2> QED BY <2>2, <2>3 DEF GrantInv
  <1>3. ASSUME NEW v \in Lp!Views, \E p \in LeavePeriods, from, to \in Days :
                 Lp!create_leave_period(v, p, from, to) \/ Lp!update_leave_period(v, p, from, to)
        PROVE  GrantInv'
    BY <1>3, PeriodSteps
  <1>4. ASSUME NEW v \in Lp!Views, NEW p \in LeavePeriods, Lp!delete_leave_period(v, p)
        PROVE  GrantInv'
    <2>1. Lp!Ends(v) /\ UNCHANGED <<policy, assignment, granted>>
          /\ period' = [period EXCEPT ![p] = Lp!NoPeriod] /\ \A l \in Slots : v.assignment[l].period # p
      BY <1>4 DEF Lp!delete_leave_period
    <2>2. period' \in [LeavePeriods -> GrantPeriods] /\ \A q \in LeavePeriods \ {p} : period'[q] = period[q]
      BY <2>1, GrantTypes DEF GrantPeriods
    <2>3. ~overlap => \A l \in Lp!InForce(Lp!Now) : assignment[l].period # p
      BY <2>1, GrantView DEF GrantInv, Lp!InForce, Lp!Now
    <2> QED BY <2>1, <2>2, <2>3, GrantTypes, MastersChange
  <1>5. ASSUME NEW v \in Lp!Views, \E k \in Policies, lines \in SUBSET LeaveTypes : Lp!save_leave_policy(v, k, lines)
        PROVE  GrantInv'
    BY <1>5, PolicySteps
  <1>6. ASSUME NEW v \in Lp!Views, \E k \in Policies :
                 Lp!submit_leave_policy(v, k) \/ Lp!cancel_leave_policy(v, k) \/ Lp!delete_leave_policy(v, k)
        PROVE  GrantInv'
    BY <1>6, PolicySteps, {} \in SUBSET LeaveTypes
  <1>7. ASSUME NEW v \in Lp!Views, \E k, n \in Policies, lines \in SUBSET LeaveTypes : Lp!amend_leave_policy(v, k, n, lines)
        PROVE  GrantInv'
    BY <1>7, PolicySteps
  <1>8. ASSUME NEW v \in Lp!Views, \E k, n \in Policies : Lp!duplicate_leave_policy(v, k, n)
        PROVE  GrantInv'
    BY <1>8, PolicySteps, {} \in SUBSET LeaveTypes
  <1>9. ASSUME NEW v \in Lp!Views, NEW k \in Policies, NEW p \in LeavePeriods \cup {Lp!Joining}, NEW from \in Days, NEW to \in Days,
               \/ \E l \in Slots, e \in Employees : Lp!assign_leave_policy(v, l, e, k, p, from, to)
               \/ \E es \in SUBSET Employees : \E slot \in [es -> Slots], failing \in SUBSET es :
                    es # {} /\ Lp!bulk_assign_leave_policy(v, slot, k, p, from, to, failing)
        PROVE  GrantInv'
    <2>1. CASE \E l \in Slots, e \in Employees : Lp!assign_leave_policy(v, l, e, k, p, from, to)
      BY <2>1, PolicyAssignSteps
    <2>2. CASE \E es \in SUBSET Employees : \E slot \in [es -> Slots], failing \in SUBSET es :
                 es # {} /\ Lp!bulk_assign_leave_policy(v, slot, k, p, from, to, failing)
      BY <2>2, PolicyBulkSteps
    <2> QED BY <1>9, <2>1, <2>2
  <1>10. ASSUME NEW v \in Lp!Views, \E l \in Slots : Lp!cancel_leave_policy_assignment(v, l)
         PROVE  GrantInv'
    BY <1>10, RevokeSteps
  <1>11. ASSUME NEW v \in Lp!Views, \E l, n \in Slots, k \in Policies, p \in LeavePeriods \cup {Lp!Joining} : Lp!amend_leave_policy_assignment(v, l, n, k, p)
         PROVE  GrantInv'
    BY <1>11, ReplaceSteps
  <1> QED BY <1>1, <1>2, <1>3, <1>4, <1>5, <1>6, <1>7, <1>8, <1>9, <1>10, <1>11 DEF Lp!Next

\* The rows of policies, assignments and what was granted are of their kinds, whoever else writes.
THEOREM GrantsTyped ==
  ASSUME GrantDays
  PROVE  Lp!Spec => []Lp!TypeOK
  <1>1. Lp!Init => GrantInv
    BY GrantInit
  <1>2. GrantInv /\ [Lp!Next]_Lp!vars => GrantInv'
    BY GrantSteps
  <1>3. GrantInv => Lp!TypeOK
    <2> SUFFICES ASSUME GrantInv PROVE Lp!TypeOK
      OBVIOUS
    <2>1. GrantPeriods \subseteq [from : Days \cup {0}, to : Days \cup {0}]
      BY DEF GrantPeriods, Lp!NoPeriod
    <2>2. GrantPolicies \subseteq [ds : -1..2, lines : SUBSET LeaveTypes]
      BY DEF GrantPolicies, Lp!NoPolicy
    <2>3. GrantedRows \subseteq [lines : SUBSET LeaveTypes, from : Days \cup {0}, to : Days \cup {0}]
      BY DEF GrantedRows, Lp!NoGrant
    <2>4. \A l \in Slots : assignment[l] # Lp!NoRow => assignment[l] \in GrantRows
      BY GrantTypes
    <2> HIDE DEF GrantPeriods
    <2> QED BY <2>1, <2>2, <2>3, <2>4, GrantTypes DEF Lp!TypeOK, GrantRows
  <1> QED BY <1>1, <1>2, <1>3, PTL DEF Lp!Spec

\* GrantsFollow: what is granted is what the assignments in force grant, whatever fails and whoever else writes.
THEOREM GrantsAlwaysFollow ==
  ASSUME GrantDays
  PROVE  Lp!Spec => []Lp!GrantsFollow
  <1>1. Lp!Init => GrantInv
    BY GrantInit
  <1>2. GrantInv /\ [Lp!Next]_Lp!vars => GrantInv'
    BY GrantSteps
  <1>3. GrantInv => Lp!GrantsFollow
    BY DEF GrantInv
  <1> QED BY <1>1, <1>2, <1>3, PTL DEF Lp!Spec

\* AssignmentsHold: one request after another, assignments in force keep their policy, their window and their days.
THEOREM AssignmentsAlwaysHold ==
  ASSUME GrantDays
  PROVE  Lp!Spec => []Lp!AssignmentsHold
  <1>1. Lp!Init => GrantInv
    BY GrantInit
  <1>2. GrantInv /\ [Lp!Next]_Lp!vars => GrantInv'
    BY GrantSteps
  <1>3. GrantInv => Lp!AssignmentsHold
    BY DEF GrantInv
  <1> QED BY <1>1, <1>2, <1>3, PTL DEF Lp!Spec

-----------------------------------------------------------------------------
(* Blackouts. *)

\* All the rules are on one page; "every" is no leave type.
BlackoutPage ==
  /\ IsFiniteSet(Rules) /\ PageSize \in Nat /\ Cardinality(Rules) <= PageSize
  /\ Days \subseteq Nat \ {0} /\ Bo!Every \notin RuleTypes /\ Overlaps \subseteq BOOLEAN
  /\ Forms \subseteq [branch : Branches \cup {Bo!Every}, type : RuleTypes \cup {Bo!Every}, from : Days, to : Days,
                      action : Bo!BLACKOUT_ACTIONS]

RuleKinds == [branch : Branches \cup {Bo!Every}, type : RuleTypes \cup {Bo!Every}, from : Days, to : Days,
              active : BOOLEAN, action : Bo!BLACKOUT_ACTIONS]
KeptRules == {x \in RuleKinds : x.from <= x.to}
Marks == Bo!BLACKOUT_ACTIONS \cup {"None"}
DraftKinds == [branch : Branches, type : RuleTypes, from : Days, to : Days, mark : Marks]
BlackoutDrafts == {x \in DraftKinds : x.from <= x.to}
BlackoutSnapshots == [rule : [Rules -> {Bo!NoRule} \cup KeptRules], leave : [Applied -> {Bo!NoLeave} \cup BlackoutDrafts]]
\* Without overlaps no request reads an older snapshot.
BlackoutBase ==
  /\ BlackoutPage /\ rule \in [Rules -> {Bo!NoRule} \cup KeptRules] /\ leave \in [Applied -> {Bo!NoLeave} \cup BlackoutDrafts]
  /\ waived \subseteq Rules /\ held \subseteq BlackoutSnapshots /\ overlap \in BOOLEAN /\ (~overlap => held = {})
BlackoutInv == BlackoutBase /\ Bo!RulesApart

LEMMA RuleIs ==
  ASSUME BlackoutPage
  PROVE  /\ ~Bo!NoRule.active /\ Bo!NoRule \notin KeptRules /\ Bo!RuleRows \subseteq KeptRules
         /\ \A x \in KeptRules : /\ x.from \in Nat /\ x.to \in Nat /\ x.from <= x.to /\ x.action \in Bo!BLACKOUT_ACTIONS
                                 /\ x.from \in Days /\ x.to \in Days /\ x.active \in BOOLEAN
                                 /\ x.type \in RuleTypes \cup {Bo!Every}
  <1>1. ~Bo!NoRule.active /\ Bo!NoRule.from = 0
    BY DEF Bo!NoRule
  <1>2. \A x \in KeptRules : /\ x.from \in Days /\ x.to \in Days /\ x.from <= x.to /\ x.action \in Bo!BLACKOUT_ACTIONS
                             /\ x.active \in BOOLEAN /\ x.type \in RuleTypes \cup {Bo!Every}
    BY DEF KeptRules, RuleKinds
  <1>3. Bo!NoRule \notin KeptRules
    BY <1>1, <1>2 DEF BlackoutPage
  <1>4. ASSUME NEW x \in Bo!RuleRows
        PROVE  x \in KeptRules
    <2>1. PICK f \in Forms, on \in BOOLEAN : /\ f.from <= f.to
             /\ x = [branch |-> f.branch, type |-> f.type, from |-> f.from, to |-> f.to, active |-> on, action |-> f.action]
      BY DEF Bo!RuleRows
    <2>2. f \in [branch : Branches \cup {Bo!Every}, type : RuleTypes \cup {Bo!Every}, from : Days, to : Days,
                 action : Bo!BLACKOUT_ACTIONS]
      BY DEF BlackoutPage
    <2> HIDE DEF Bo!BLACKOUT_ACTIONS
    <2> QED BY <2>1, <2>2 DEF KeptRules, RuleKinds
  <1> QED BY <1>1, <1>2, <1>3, <1>4 DEF BlackoutPage

LEMMA BlackoutView ==
  ASSUME BlackoutBase, NEW v \in Bo!Views
  PROVE  /\ v.rule \in [Rules -> {Bo!NoRule} \cup KeptRules] /\ v.leave \in [Applied -> {Bo!NoLeave} \cup BlackoutDrafts]
         /\ ~overlap => v = Bo!Now
  <1>1. v \in held => v.rule \in [Rules -> {Bo!NoRule} \cup KeptRules] /\ v.leave \in [Applied -> {Bo!NoLeave} \cup BlackoutDrafts]
    BY DEF BlackoutBase, BlackoutSnapshots
  <1> QED BY <1>1 DEF BlackoutBase, Bo!Views, Bo!Now

LEMMA BlackoutEnds ==
  ASSUME BlackoutBase, NEW v \in Bo!Views, Bo!Ends(v)
  PROVE  held' \subseteq BlackoutSnapshots /\ overlap' = overlap /\ (~overlap => held' = {})
  <1>1. Bo!Now \in BlackoutSnapshots
    BY DEF BlackoutBase, BlackoutSnapshots, Bo!Now
  <1> QED BY <1>1 DEF BlackoutBase, Bo!Ends, Bo!Views

\* The page holds every active rule.
LEMMA PageIsAll ==
  ASSUME BlackoutPage, NEW v
  PROVE  Bo!_list_blackouts(v) = {r \in Rules : v.rule[r] # Bo!NoRule /\ v.rule[r].active}
  <1> DEFINE active == {r \in Rules : v.rule[r] # Bo!NoRule /\ v.rule[r].active}
             n == IF Cardinality(active) < PageSize THEN Cardinality(active) ELSE PageSize
             Page(page) == Cardinality(page) = n /\ \A r \in page, s \in active \ page : v.rule[r].from >= v.rule[s].from
  <1>1. IsFiniteSet(active) /\ Cardinality(active) <= Cardinality(Rules)
    BY FS_Subset DEF BlackoutPage
  <1>2. Cardinality(active) \in Nat /\ Cardinality(Rules) \in Nat
    BY <1>1, FS_CardinalityType DEF BlackoutPage
  <1>3. n = Cardinality(active)
    BY <1>1, <1>2 DEF BlackoutPage
  <1>4. Bo!_list_blackouts(v) = CHOOSE page \in SUBSET active : Page(page)
    BY BoCounts DEF Bo!_list_blackouts
  <1> HIDE DEF active, n
  <1>5. Page(active)
    BY <1>3
  <1>6. ASSUME NEW page \in SUBSET active, Page(page)
        PROVE  page = active
    BY <1>1, <1>3, <1>6, FS_Subset
  <1> HIDE DEF Page
  <1>7. Bo!_list_blackouts(v) = active
    BY <1>4, <1>5, <1>6
  <1> QED BY <1>7 DEF active

\* The strongest action is the action of one of the rules.
LEMMA StrongestIs ==
  ASSUME NEW v, NEW matched, NEW r \in matched, \A x \in matched : v.rule[x].action \in Bo!BLACKOUT_ACTIONS
  PROVE  Bo!strongest_action(v, matched) \in Bo!BLACKOUT_ACTIONS
  <1> DEFINE rank(x) == Bo!_ACTION_RANK[v.rule[x].action]
             Strongest(x) == \A y \in matched : rank(x) >= rank(y)
  <1>1. \A x \in matched : rank(x) \in {1, 2, 3}
    BY DEF Bo!_ACTION_RANK, Bo!BLACKOUT_ACTIONS
  <1> HIDE DEF rank
  <1>2. \E x \in matched : Strongest(x)
    <2>1. CASE \E x \in matched : rank(x) = 3
      BY <1>1, <2>1
    <2>2. CASE (\A x \in matched : rank(x) # 3) /\ \E x \in matched : rank(x) = 2
      BY <1>1, <2>2
    <2>3. CASE \A x \in matched : rank(x) = 1
      BY <2>3
    <2> QED BY <1>1, <2>1, <2>2, <2>3
  <1> DEFINE c == CHOOSE x \in matched : Strongest(x)
  <1>3. Bo!strongest_action(v, matched) = v.rule[c].action
    BY DEF Bo!strongest_action, rank
  <1>4. c \in matched
    BY <1>2
  <1> QED BY <1>3, <1>4

LEMMA StampIs ==
  ASSUME BlackoutBase, NEW v \in Bo!Views, NEW x \in BlackoutDrafts
  PROVE  Bo!_stamp_blackout_decision(v, x) \in BlackoutDrafts
  <1> DEFINE hit == Bo!evaluate_blackout(v, x.from, x.to, x.type)
             mark == Bo!blackout_decision_fields(v, hit)
  <1>1. \A r \in hit : v.rule[r].action \in Bo!BLACKOUT_ACTIONS
    <2>1. hit \subseteq {r \in Rules : v.rule[r] # Bo!NoRule /\ v.rule[r].active}
      BY PageIsAll DEF BlackoutBase, Bo!evaluate_blackout
    <2>2. ASSUME NEW r \in hit
          PROVE  v.rule[r].action \in Bo!BLACKOUT_ACTIONS
      <3>1. r \in Rules /\ v.rule[r] # Bo!NoRule
        BY <2>1
      <3>2. v.rule[r] \in KeptRules
        BY <3>1, BlackoutView
      <3> QED BY <3>2, RuleIs DEF BlackoutBase
    <2> QED BY <2>2
  <1> HIDE DEF hit
  <1>2. mark \in Marks
    <2>1. CASE \A r \in hit : v.rule[r].action = "Warning"
      BY <2>1 DEF Bo!blackout_decision_fields, Marks
    <2>2. CASE ~\A r \in hit : v.rule[r].action = "Warning"
      <3>1. PICK r \in hit : TRUE
        BY <2>2
      <3>2. mark = Bo!strongest_action(v, hit)
        BY <2>2 DEF Bo!blackout_decision_fields
      <3> QED BY <1>1, <3>1, <3>2, StrongestIs DEF Marks
    <2> QED BY <2>1, <2>2
  <1>3. Bo!_stamp_blackout_decision(v, x) = IF mark = "None" THEN x ELSE [x EXCEPT !.mark = mark]
    BY DEF Bo!_stamp_blackout_decision, hit
  <1> HIDE DEF mark
  <1> HIDE DEF Marks
  <1>4. [x EXCEPT !.mark = mark] \in BlackoutDrafts
    BY <1>2 DEF BlackoutDrafts, DraftKinds
  <1> QED BY <1>3, <1>4

-----------------------------------------------------------------------------
(* One request at a time. *)

LEMMA BlackoutDraftIs ==
  ASSUME NEW x \in Bo!Applications
  PROVE  x \in BlackoutDrafts /\ \A m \in Marks : [x EXCEPT !.mark = m] \in BlackoutDrafts
  <1>1. x \in DraftKinds /\ x.from <= x.to
    BY DEF Bo!Applications, DraftKinds, Marks
  <1> HIDE DEF Marks
  <1> QED BY <1>1 DEF BlackoutDrafts, DraftKinds

LEMMA BlackoutDraftSteps ==
  ASSUME BlackoutInv, NEW v \in Bo!Views, NEW l \in Applied, NEW x \in Bo!Applications,
         Bo!apply_leave(v, l, x) \/ Bo!update_draft(v, l, x) \/ Bo!delete_draft(v, l)
  PROVE  BlackoutInv'
  <1>1. Bo!Ends(v) /\ UNCHANGED <<rule, waived>>
    BY DEF Bo!apply_leave, Bo!update_draft, Bo!delete_draft
  <1>2. \E y \in {Bo!NoLeave} \cup BlackoutDrafts : leave' = [leave EXCEPT ![l] = y]
    <2>1. CASE Bo!apply_leave(v, l, x)
      <3>1. Bo!_stamp_blackout_decision(v, x) \in BlackoutDrafts
        BY BlackoutDraftIs, StampIs DEF BlackoutInv
      <3> QED BY <2>1, <3>1 DEF Bo!apply_leave
    <2>2. CASE Bo!update_draft(v, l, x)
      <3>1. leave[l] # Bo!NoLeave /\ leave[l] \in {Bo!NoLeave} \cup BlackoutDrafts
        BY <2>2 DEF Bo!update_draft, BlackoutInv, BlackoutBase
      <3>2. leave[l].mark \in Marks
        BY <3>1 DEF BlackoutDrafts, DraftKinds
      <3>3. Bo!_stamp_blackout_decision(v, [x EXCEPT !.mark = leave[l].mark]) \in BlackoutDrafts
        BY <3>2, BlackoutDraftIs, StampIs DEF BlackoutInv
      <3> QED BY <2>2, <3>3 DEF Bo!update_draft
    <2>3. CASE Bo!delete_draft(v, l)
      BY <2>3 DEF Bo!delete_draft
    <2> QED BY <2>1, <2>2, <2>3
  <1>3. leave' \in [Applied -> {Bo!NoLeave} \cup BlackoutDrafts]
    BY <1>2 DEF BlackoutInv, BlackoutBase
  <1>4. BlackoutBase' /\ overlap' = overlap
    BY <1>1, <1>3, BlackoutEnds DEF BlackoutInv, BlackoutBase, BlackoutPage
  <1>5. Bo!RulesApart'
    BY <1>1, <1>4 DEF BlackoutInv, Bo!RulesApart
  <1> QED BY <1>4, <1>5 DEF BlackoutInv

\* Two rules in the way of each other, whichever is named first.
Clash(x, y) == Bo!Compatible(x.branch, y.branch) /\ Bo!Compatible(x.type, y.type) /\ Bo!date_overlaps(x.from, x.to, y.from, y.to)
LEMMA ClashBothWays == \A x, y : Clash(x, y) <=> Clash(y, x)
  BY DEF Clash, Bo!Compatible, Bo!date_overlaps

LEMMA ApartIs ==
  Bo!RulesApart <=> (~overlap => \A r, s \in Rules :
    r # s /\ rule[r].active /\ rule[s].active /\ Clash(rule[r], rule[s]) => r \in waived \/ s \in waived)
  BY DEF Bo!RulesApart, Clash

\* Rules change; what is switched on or gets in the way is waived.
LEMMA RulesChange ==
  ASSUME BlackoutInv, NEW v \in Bo!Views, Bo!Ends(v), UNCHANGED leave, rule' \in [Rules -> {Bo!NoRule} \cup KeptRules],
         waived' \subseteq Rules,
         ~overlap => \A r, s \in Rules :
           r # s /\ rule'[r].active /\ rule'[s].active /\ Clash(rule'[r], rule'[s]) => r \in waived' \/ s \in waived'
  PROVE  BlackoutInv'
  <1>1. BlackoutBase' /\ overlap' = overlap
    BY BlackoutEnds DEF BlackoutInv, BlackoutBase, BlackoutPage
  <1>2. Bo!RulesApart'
    BY <1>1 DEF Bo!RulesApart, Clash
  <1> QED BY <1>1, <1>2 DEF BlackoutInv

LEMMA OneRule ==
  ASSUME BlackoutInv, NEW v \in Bo!Views, NEW r \in Rules, NEW x \in Bo!RuleRows, NEW force \in BOOLEAN, NEW exclude \in SUBSET {r},
         Bo!_guard_overlap(v, x, exclude, force), rule' = [rule EXCEPT ![r] = x], Bo!Waives(r, force), Bo!Ends(v), UNCHANGED leave
  PROVE  BlackoutInv'
  <1>1. x \in KeptRules
    BY RuleIs DEF BlackoutInv, BlackoutBase
  <1>2. /\ rule' \in [Rules -> {Bo!NoRule} \cup KeptRules] /\ rule'[r] = x /\ \A s \in Rules \ {r} : rule'[s] = rule[s]
        /\ waived' \subseteq Rules /\ (force => r \in waived') /\ \A s \in Rules \ {r} : s \in waived => s \in waived'
    BY <1>1 DEF BlackoutInv, BlackoutBase, Bo!Waives
  <1>3. ASSUME ~overlap, ~force, NEW s \in Rules \ {r}, rule[s].active
        PROVE  ~Clash(rule[s], x)
    <2>1. v.rule = rule /\ Bo!overlapping_rules(v, x, exclude) = {}
      BY <1>3, BlackoutView DEF BlackoutInv, Bo!Now, Bo!_guard_overlap
    <2>2. s \in Bo!_list_blackouts(v) \ exclude
      <3>1. Bo!_list_blackouts(v) = {a \in Rules : v.rule[a] # Bo!NoRule /\ v.rule[a].active}
        BY PageIsAll DEF BlackoutInv, BlackoutBase
      <3>2. rule[s] # Bo!NoRule
        BY <1>3, RuleIs DEF BlackoutInv, BlackoutBase
      <3> QED BY <1>3, <2>1, <3>1, <3>2
    <2> QED BY <2>1, <2>2 DEF Bo!overlapping_rules, Clash
  <1>4. ASSUME ~overlap, NEW a \in Rules, NEW b \in Rules, a # b, rule'[a].active, rule'[b].active, Clash(rule'[a], rule'[b])
        PROVE  a \in waived' \/ b \in waived'
    <2>1. CASE a = r
      <3>1. rule'[b] = rule[b] /\ Clash(rule[b], x)
        BY <1>2, <1>4, <2>1, ClashBothWays
      <3> QED BY <1>2, <1>3, <1>4, <2>1, <3>1
    <2>2. CASE b = r
      <3>1. rule'[a] = rule[a] /\ Clash(rule[a], x)
        BY <1>2, <1>4, <2>2
      <3> QED BY <1>2, <1>3, <1>4, <2>2, <3>1
    <2>3. CASE a # r /\ b # r
      <3>1. rule'[a] = rule[a] /\ rule'[b] = rule[b]
        BY <1>2, <2>3
      <3>2. a \in waived \/ b \in waived
        BY <1>4, <3>1, ApartIs DEF BlackoutInv
      <3> QED BY <1>2, <2>3, <3>2
    <2> QED BY <2>1, <2>2, <2>3
  <1> QED BY <1>2, <1>4, RulesChange

LEMMA RuleSteps ==
  ASSUME BlackoutInv, NEW v \in Bo!Views, NEW r \in Rules, NEW x \in Bo!RuleRows, NEW force \in BOOLEAN,
         Bo!create_blackout(v, r, x, force) \/ Bo!update_blackout(v, r, x, force)
  PROVE  BlackoutInv'
  <1>1. CASE Bo!create_blackout(v, r, x, force)
    <2>1. /\ Bo!_guard_overlap(v, x, {}, force) /\ rule' = [rule EXCEPT ![r] = x] /\ Bo!Waives(r, force) /\ Bo!Ends(v)
          /\ UNCHANGED leave /\ {} \in SUBSET {r}
      BY <1>1 DEF Bo!create_blackout
    <2> QED BY <2>1, OneRule
  <1>2. CASE Bo!update_blackout(v, r, x, force)
    <2>1. /\ Bo!_guard_overlap(v, x, {r}, force) /\ rule' = [rule EXCEPT ![r] = x] /\ Bo!Waives(r, force) /\ Bo!Ends(v)
          /\ UNCHANGED leave /\ {r} \in SUBSET {r}
      BY <1>2 DEF Bo!update_blackout
    <2> QED BY <2>1, OneRule
  <1> QED BY <1>1, <1>2

LEMMA BlackoutDeletesSteps ==
  ASSUME BlackoutInv, NEW v \in Bo!Views, NEW rs \in SUBSET Rules, Bo!Deletes(v, rs)
  PROVE  BlackoutInv'
  <1>1. /\ rule' = [r \in Rules |-> IF r \in rs THEN Bo!NoRule ELSE rule[r]] /\ waived' = waived \ rs
        /\ Bo!Ends(v) /\ UNCHANGED leave
    BY DEF Bo!Deletes
  <1>2. rule' \in [Rules -> {Bo!NoRule} \cup KeptRules] /\ waived' \subseteq Rules
    BY <1>1 DEF BlackoutInv, BlackoutBase
  <1>3. ASSUME NEW r \in Rules, rule'[r].active
        PROVE  r \notin rs /\ rule'[r] = rule[r]
    BY <1>1, <1>3, RuleIs DEF BlackoutInv, BlackoutBase
  <1>4. ASSUME ~overlap, NEW r \in Rules, NEW s \in Rules, r # s, rule'[r].active, rule'[s].active, Clash(rule'[r], rule'[s])
        PROVE  r \in waived' \/ s \in waived'
    <2>1. r \in waived \/ s \in waived
      BY <1>3, <1>4, ApartIs DEF BlackoutInv
    <2> QED BY <1>1, <1>3, <1>4, <2>1
  <1> QED BY <1>1, <1>2, <1>4, RulesChange

LEMMA BulkUpdateSteps ==
  ASSUME BlackoutInv, NEW v \in Bo!Views, NEW rs \in SUBSET Rules, NEW active \in BOOLEAN, NEW action \in Bo!BLACKOUT_ACTIONS,
         Bo!bulk_update_blackouts(v, rs, active, action)
  PROVE  BlackoutInv'
  <1> DEFINE done == {r \in rs : v.rule[r] # Bo!NoRule /\ v.rule[r] = rule[r]}
  <1>1. /\ rule' = [r \in Rules |-> IF r \in done THEN [rule[r] EXCEPT !.active = active, !.action = action] ELSE rule[r]]
        /\ waived' = (IF active THEN waived \cup {r \in done : ~rule[r].active} ELSE waived)
        /\ Bo!Ends(v) /\ UNCHANGED leave
    BY DEF Bo!bulk_update_blackouts
  <1>2. done \subseteq Rules /\ \A r \in done : rule[r] \in KeptRules
    BY DEF BlackoutInv, BlackoutBase
  <1> HIDE DEF done
  <1>3. ASSUME NEW r \in Rules
        PROVE  /\ rule'[r] \in {Bo!NoRule} \cup KeptRules
               /\ r \notin done => rule'[r] = rule[r]
               /\ r \in done => /\ rule'[r].active = active /\ rule'[r].branch = rule[r].branch /\ rule'[r].type = rule[r].type
                                /\ rule'[r].from = rule[r].from /\ rule'[r].to = rule[r].to
    <2>1. CASE r \in done
      <3> DEFINE y == [rule[r] EXCEPT !.active = active, !.action = action]
      <3>1. rule'[r] = y /\ rule[r] \in KeptRules
        BY <1>1, <1>2, <2>1
      <3>2. y \in KeptRules /\ y.active = active /\ y.branch = rule[r].branch /\ y.type = rule[r].type
            /\ y.from = rule[r].from /\ y.to = rule[r].to
        BY <3>1 DEF KeptRules, RuleKinds
      <3> HIDE DEF y
      <3> QED BY <2>1, <3>1, <3>2
    <2>2. CASE r \notin done
      BY <1>1, <2>2 DEF BlackoutInv, BlackoutBase
    <2> QED BY <2>1, <2>2
  <1>4. rule' \in [Rules -> {Bo!NoRule} \cup KeptRules] /\ waived' \subseteq Rules /\ waived \subseteq waived'
    BY <1>1, <1>2, <1>3 DEF BlackoutInv, BlackoutBase
  <1>5. ASSUME NEW r \in Rules, rule'[r].active, r \notin waived'
        PROVE  rule[r].active
    <2>1. CASE r \in done
      <3>1. active
        BY <1>3, <1>5, <2>1
      <3> QED BY <1>1, <1>5, <2>1, <3>1
    <2> QED BY <1>3, <1>5, <2>1
  <1>6. ASSUME ~overlap, NEW r \in Rules, NEW s \in Rules, r # s, rule'[r].active, rule'[s].active, Clash(rule'[r], rule'[s])
        PROVE  r \in waived' \/ s \in waived'
    <2>1. Clash(rule[r], rule[s])
      BY <1>3, <1>6 DEF Clash
    <2>2. CASE rule[r].active /\ rule[s].active
      BY <1>4, <1>6, <2>1, <2>2, ApartIs DEF BlackoutInv
    <2> QED BY <1>5, <1>6, <2>2
  <1> QED BY <1>1, <1>4, <1>6, RulesChange

-----------------------------------------------------------------------------
LEMMA BlackoutInit ==
  ASSUME BlackoutPage, Bo!Init
  PROVE  BlackoutInv
  <1>1. BlackoutBase
    BY DEF Bo!Init, BlackoutBase, BlackoutPage
  <1>2. Bo!RulesApart
    BY RuleIs DEF Bo!Init, Bo!RulesApart
  <1> QED BY <1>1, <1>2 DEF BlackoutInv

LEMMA BlackoutSteps ==
  ASSUME BlackoutInv, [Bo!Next]_Bo!vars
  PROVE  BlackoutInv'
  <1>1. CASE Bo!Hold
    <2>1. Bo!Now \in BlackoutSnapshots
      BY DEF BlackoutInv, BlackoutBase, BlackoutSnapshots, Bo!Now
    <2>2. BlackoutBase'
      BY <1>1, <2>1 DEF Bo!Hold, BlackoutInv, BlackoutBase, BlackoutPage
    <2>3. Bo!RulesApart'
      BY <1>1 DEF Bo!Hold, BlackoutInv, Bo!RulesApart
    <2> QED BY <2>2, <2>3 DEF BlackoutInv
  <1>2. CASE UNCHANGED Bo!vars
    BY <1>2 DEF Bo!vars, BlackoutInv, BlackoutBase, BlackoutPage, Bo!RulesApart
  <1>3. ASSUME NEW v \in Bo!Views, \E l \in Applied, x \in Bo!Applications : Bo!apply_leave(v, l, x) \/ Bo!update_draft(v, l, x)
        PROVE  BlackoutInv'
    BY <1>3, BlackoutDraftSteps
  <1>4. ASSUME NEW v \in Bo!Views, NEW l \in Applied, Bo!delete_draft(v, l)
        PROVE  BlackoutInv'
    <2>1. Bo!Ends(v) /\ UNCHANGED <<rule, waived>> /\ leave' = [leave EXCEPT ![l] = Bo!NoLeave]
      BY <1>4 DEF Bo!delete_draft
    <2>2. leave' \in [Applied -> {Bo!NoLeave} \cup BlackoutDrafts]
      BY <2>1 DEF BlackoutInv, BlackoutBase
    <2>3. BlackoutBase' /\ overlap' = overlap
      BY <2>1, <2>2, BlackoutEnds DEF BlackoutInv, BlackoutBase, BlackoutPage
    <2>4. Bo!RulesApart'
      BY <2>1, <2>3 DEF BlackoutInv, Bo!RulesApart
    <2> QED BY <2>3, <2>4 DEF BlackoutInv
  <1>5. ASSUME NEW v \in Bo!Views,
               \E r \in Rules, x \in Bo!RuleRows, force \in BOOLEAN : Bo!create_blackout(v, r, x, force) \/ Bo!update_blackout(v, r, x, force)
        PROVE  BlackoutInv'
    BY <1>5, RuleSteps
  <1>6. ASSUME NEW v \in Bo!Views, \E r \in Rules : Bo!delete_blackout(v, r)
        PROVE  BlackoutInv'
    BY <1>6, BlackoutDeletesSteps DEF Bo!delete_blackout
  <1>7. ASSUME NEW v \in Bo!Views, \E rs \in SUBSET Rules : Bo!bulk_delete_blackouts(v, rs)
        PROVE  BlackoutInv'
    BY <1>7, BlackoutDeletesSteps DEF Bo!bulk_delete_blackouts
  <1>8. ASSUME NEW v \in Bo!Views, \E rs \in SUBSET Rules, active \in BOOLEAN, action \in Bo!BLACKOUT_ACTIONS :
                                  Bo!bulk_update_blackouts(v, rs, active, action)
        PROVE  BlackoutInv'
    BY <1>8, BulkUpdateSteps
  <1> QED BY <1>1, <1>2, <1>3, <1>4, <1>5, <1>6, <1>7, <1>8 DEF Bo!Next

\* What the mark reads, what the guard reads and what the list shows are the same rules.
LEMMA ReadersDoAgree ==
  ASSUME BlackoutInv
  PROVE  Bo!ReadersAgree
  <1> SUFFICES ASSUME NEW l \in Applied, leave[l] # Bo!NoLeave
               PROVE  LET x == leave[l]
                          hit == Bo!evaluate_blackout(Bo!Now, x.from, x.to, x.type)
                      IN /\ hit = Bo!overlapping_rules(Bo!Now, [x EXCEPT !.branch = Bo!Every], {})
                         /\ \A r \in hit : l \in Bo!blackout_impact(Bo!Now, r)
    BY DEF Bo!ReadersAgree
  <1> DEFINE x == leave[l]
             hit == Bo!evaluate_blackout(Bo!Now, x.from, x.to, x.type)
             y == [x EXCEPT !.branch = Bo!Every]
  <1>1. x \in BlackoutDrafts
    BY DEF BlackoutInv, BlackoutBase
  <1>2. /\ x.from \in Days /\ x.to \in Days /\ x.from <= x.to /\ x.type \in RuleTypes /\ x.type # Bo!Every
        /\ y.branch = Bo!Every /\ y.from = x.from /\ y.to = x.to /\ y.type = x.type
    BY <1>1 DEF BlackoutDrafts, DraftKinds, BlackoutInv, BlackoutBase, BlackoutPage
  <1>3. Bo!_list_blackouts(Bo!Now) = {r \in Rules : rule[r] # Bo!NoRule /\ rule[r].active}
    BY PageIsAll DEF BlackoutInv, BlackoutBase, Bo!Now
  <1> HIDE DEF x, y
  <1>4. ASSUME NEW r \in Bo!_list_blackouts(Bo!Now)
        PROVE  /\ (\E d \in Bo!window_days(x.from, x.to) : Bo!_rule_matches(rule[r], d, x.type))
                    <=> rule[r].type \in {Bo!Every, x.type} /\ Bo!date_overlaps(rule[r].from, rule[r].to, x.from, x.to)
               /\ Bo!Compatible(rule[r].branch, y.branch) /\ Bo!Compatible(rule[r].type, y.type) <=> rule[r].type \in {Bo!Every, x.type}
    <2>1. /\ rule[r].from \in Days /\ rule[r].to \in Days /\ rule[r].from <= rule[r].to /\ rule[r].active
      BY <1>3, RuleIs DEF BlackoutInv, BlackoutBase
    <2>2. rule[r].from \in Nat /\ rule[r].to \in Nat /\ x.from \in Nat /\ x.to \in Nat /\ Days \subseteq Nat
      BY <1>2, <2>1 DEF BlackoutInv, BlackoutBase, BlackoutPage
    <2>3. ASSUME Bo!date_overlaps(rule[r].from, rule[r].to, x.from, x.to), rule[r].type \in {Bo!Every, x.type}
          PROVE  \E d \in Bo!window_days(x.from, x.to) : Bo!_rule_matches(rule[r], d, x.type)
      <3>1. CASE rule[r].from <= x.from
        <4>1. x.from \in Bo!window_days(x.from, x.to)
          BY <1>2, <2>2 DEF Bo!window_days
        <4>2. Bo!_rule_matches(rule[r], x.from, x.type)
          BY <2>1, <2>3, <3>1 DEF Bo!_rule_matches, Bo!date_overlaps
        <4> QED BY <4>1, <4>2
      <3>2. CASE x.from <= rule[r].from
        <4>1. rule[r].from \in Bo!window_days(x.from, x.to)
          BY <2>1, <2>3, <3>2 DEF Bo!window_days, Bo!date_overlaps
        <4>2. Bo!_rule_matches(rule[r], rule[r].from, x.type)
          BY <2>1, <2>2, <2>3 DEF Bo!_rule_matches, Bo!date_overlaps
        <4> QED BY <4>1, <4>2
      <3> QED BY <2>2, <3>1, <3>2
    <2>4. ASSUME NEW d \in Bo!window_days(x.from, x.to), Bo!_rule_matches(rule[r], d, x.type)
          PROVE  Bo!date_overlaps(rule[r].from, rule[r].to, x.from, x.to) /\ rule[r].type \in {Bo!Every, x.type}
      <3>1. d \in Nat /\ x.from <= d /\ d <= x.to
        BY <2>2 DEF Bo!window_days
      <3>2. rule[r].from <= d /\ d <= rule[r].to /\ rule[r].type \in {Bo!Every, x.type}
        BY <2>4 DEF Bo!_rule_matches
      <3> QED BY <2>2, <3>1, <3>2 DEF Bo!date_overlaps
    <2> QED BY <1>2, <2>3, <2>4 DEF Bo!Compatible
  <1>5. hit = Bo!overlapping_rules(Bo!Now, y, {})
    <2>1. Bo!Now.rule = rule
      BY DEF Bo!Now
    <2> QED BY <1>2, <1>4, <2>1 DEF Bo!evaluate_blackout, Bo!overlapping_rules
  <1>6. ASSUME NEW r \in hit
        PROVE  l \in Bo!blackout_impact(Bo!Now, r)
    <2>1. Bo!date_overlaps(rule[r].from, rule[r].to, x.from, x.to)
      BY <1>2, <1>5, <1>6 DEF Bo!overlapping_rules, Bo!Now
    <2>2. Bo!date_overlaps(x.from, x.to, rule[r].from, rule[r].to)
      BY <2>1 DEF Bo!date_overlaps
    <2> QED BY <2>2 DEF Bo!blackout_impact, Bo!Now, x
  <1> QED BY <1>5, <1>6 DEF x, y

\* The rows of the rules and of the leaves are of their kinds, whoever else writes.
THEOREM BlackoutTyped ==
  ASSUME BlackoutPage
  PROVE  Bo!Spec => []Bo!TypeOK
  <1>1. Bo!Init => BlackoutInv
    BY BlackoutInit
  <1>2. BlackoutInv /\ [Bo!Next]_Bo!vars => BlackoutInv'
    BY BlackoutSteps
  <1>3. BlackoutInv => Bo!TypeOK
    <2> SUFFICES ASSUME BlackoutInv PROVE Bo!TypeOK
      OBVIOUS
    <2>1. \A x \in BlackoutDrafts : x.mark \in Marks /\ [x EXCEPT !.mark = "None"] \in Bo!Applications
      BY DEF BlackoutDrafts, DraftKinds, Bo!Applications
    <2> QED BY <2>1, RuleIs DEF BlackoutInv, BlackoutBase, Bo!TypeOK, Marks
  <1> QED BY <1>1, <1>2, <1>3, PTL DEF Bo!Spec

\* RulesApart: one request after another, two rules clash only if HR chose it.
THEOREM RulesStayApart ==
  ASSUME BlackoutPage
  PROVE  Bo!Spec => []Bo!RulesApart
  <1>1. Bo!Init => BlackoutInv
    BY BlackoutInit
  <1>2. BlackoutInv /\ [Bo!Next]_Bo!vars => BlackoutInv'
    BY BlackoutSteps
  <1>3. BlackoutInv => Bo!RulesApart
    BY DEF BlackoutInv
  <1> QED BY <1>1, <1>2, <1>3, PTL DEF Bo!Spec

\* ReadersAgree: whoever writes, the readers of the rules find the same ones.
THEOREM ReadersAlwaysAgree ==
  ASSUME BlackoutPage
  PROVE  Bo!Spec => []Bo!ReadersAgree
  <1>1. Bo!Init => BlackoutInv
    BY BlackoutInit
  <1>2. BlackoutInv /\ [Bo!Next]_Bo!vars => BlackoutInv'
    BY BlackoutSteps
  <1>3. BlackoutInv => Bo!ReadersAgree
    BY ReadersDoAgree
  <1> QED BY <1>1, <1>2, <1>3, PTL DEF Bo!Spec

-----------------------------------------------------------------------------
(* Onboarding. *)

ObStates   == {"None", "Open", "In Progress", "Completed", "Cancelled"}
ObTask     == [who : People \cup {On!Nobody}, closed : BOOLEAN, is : BOOLEAN]
ObTasks    == [Rows -> ObTask]
ObDoc      == [is : ObStates, of : Templates \cup {"None"}, task : ObTasks]
ObTemplate == [is : BOOLEAN, who : On!Lists]

ObTyped ==
  /\ template \in [Templates -> ObTemplate] /\ ob \in [Onboardings -> ObDoc]
  /\ todo \subseteq Onboardings \X People /\ overlap \in BOOLEAN
  /\ \A v \in held : v.template \in [Templates -> ObTemplate]
\* A ToDo is of a person the onboarding has a task for.
TodoOfTask == \A o \in Onboardings : \A p : <<o, p>> \in todo => p \in On!Assignees(ob[o].task)
NoTodo     == \A o \in Onboardings : ob[o].is \in {"None", "Cancelled"} => \A p : <<o, p>> \notin todo
Derived    == \A o \in Onboardings : ob[o] # On!NoOb => ob[o].is = On!derive_status(ob[o].task, ob[o].is)
ObInv == ObTyped /\ TodoOfTask /\ NoTodo /\ Derived

-----------------------------------------------------------------------------
(* Templates and tasks. *)

LEMMA ObEnds ==
  ASSUME ObTyped, NEW v \in On!Views, On!Ends(v)
  PROVE  overlap' \in BOOLEAN /\ \A w \in held' : w.template \in [Templates -> ObTemplate]
  <1>1. overlap' = overlap /\ \A w \in held' : w \in held
    BY DEF On!Ends
  <1> QED BY <1>1 DEF ObTyped

LEMMA ObViews ==
  ASSUME ObTyped, NEW v \in On!Views
  PROVE  v.template \in [Templates -> ObTemplate]
  BY DEF ObTyped, On!Views, On!Now

LEMMA DerivedIs ==
  ASSUME NEW tasks, NEW current
  PROVE  /\ On!derive_status(tasks, current) \in {"Open", "In Progress", "Completed", "Cancelled"}
         /\ On!derive_status(tasks, On!derive_status(tasks, current)) = On!derive_status(tasks, current)
         /\ On!derive_status(tasks, current) = "Cancelled" <=> current = "Cancelled"
  BY DEF On!derive_status

\* A step that writes one onboarding: the tasks and their ToDos of the others stay.
ObWrites(o, x) == ob' = [ob EXCEPT ![o] = x] /\ x \in ObDoc /\ (x # On!NoOb => x.is = On!derive_status(x.task, x.is))
TodosOf(o, x) ==
  /\ todo' \subseteq Onboardings \X People
  /\ \A q \in Onboardings \ {o} : \A p : <<q, p>> \in todo' => <<q, p>> \in todo
  /\ \A p : <<o, p>> \in todo' => p \in On!Assignees(x.task) /\ x.is \notin {"None", "Cancelled"}

LEMMA ObKeeps ==
  ASSUME ObInv, NEW v \in On!Views, NEW o \in Onboardings, NEW x, ObWrites(o, x), TodosOf(o, x), On!Ends(v),
         UNCHANGED template
  PROVE  ObInv'
  <1>1. /\ ob' \in [Onboardings -> ObDoc] /\ ob'[o] = x /\ \A q \in Onboardings \ {o} : ob'[q] = ob[q]
    BY DEF ObInv, ObTyped, ObWrites
  <1>2. ObTyped'
    BY <1>1, ObEnds DEF ObInv, ObTyped, TodosOf
  <1>3. TodoOfTask' /\ NoTodo'
    BY <1>1 DEF ObInv, TodoOfTask, NoTodo, TodosOf
  <1>4. Derived'
    BY <1>1 DEF ObInv, Derived, ObWrites
  <1> QED BY <1>2, <1>3, <1>4 DEF ObInv

LEMMA ObPut ==
  ASSUME NEW w \in ObDoc, NEW tasks \in ObTasks, NEW is
  PROVE  /\ [w EXCEPT !.task = tasks].is = w.is
         /\ [[w EXCEPT !.task = tasks] EXCEPT !.is = is] = [is |-> is, of |-> w.of, task |-> tasks]
  <1> DEFINE y == [w EXCEPT !.task = tasks]
             z == [y EXCEPT !.is = is]
  <1>1. w = [is |-> w.is, of |-> w.of, task |-> w.task]
    BY DEF ObDoc
  <1>2. y = [is |-> w.is, of |-> w.of, task |-> tasks]
    BY <1>1
  <1> HIDE DEF y
  <1>3. z = [is |-> is, of |-> w.of, task |-> tasks]
    BY <1>2
  <1> QED BY <1>2, <1>3 DEF y

\* A step that changes the tasks of an onboarding.
LEMMA WithTasks ==
  ASSUME ObInv, NEW v \in On!Views, NEW o \in Onboardings, NEW tasks \in ObTasks,
         ob[o].is \notin {"None", "Cancelled"}, ob' = On!With(o, tasks), On!Saved(v),
         todo' \subseteq Onboardings \X People,
         \A q \in Onboardings \ {o} : \A p : <<q, p>> \in todo' => <<q, p>> \in todo,
         \A p : <<o, p>> \in todo' => p \in On!Assignees(tasks)
  PROVE  ObInv'
  <1> DEFINE is == On!derive_status(tasks, ob[o].is)
             x == [is |-> is, of |-> ob[o].of, task |-> tasks]
  <1>1. ob \in [Onboardings -> ObDoc] /\ ob[o] \in ObDoc
    BY DEF ObInv, ObTyped
  <1>2. is \in {"Open", "In Progress", "Completed"} /\ is = On!derive_status(tasks, is)
    BY DerivedIs, ZenonT(30)
  <1> HIDE DEF is
  <1>3. x \in ObDoc /\ x.task = tasks /\ x.is = is
    BY <1>1, <1>2 DEF ObDoc, ObStates
  <1>4. ob' = [ob EXCEPT ![o] = x]
    <2> DEFINE y == [ob[o] EXCEPT !.task = tasks]
    <2>1. y.is = ob[o].is /\ [y EXCEPT !.is = is] = x
      BY <1>1, ObPut
    <2>2. [ob EXCEPT ![o].task = tasks] = [ob EXCEPT ![o] = y]
      BY <1>1
    <2>3. On!With(o, tasks) = [[ob EXCEPT ![o] = y] EXCEPT ![o].is = On!derive_status(tasks, @)]
      BY <2>2, Zenon DEF On!With
    <2> HIDE DEF y
    <2>4. On!With(o, tasks) = [ob EXCEPT ![o] = [y EXCEPT !.is = is]]
      BY <1>1, <2>1, <2>3 DEF is
    <2> QED BY <2>1, <2>4
  <1> HIDE DEF x
  <1>5. ObWrites(o, x) /\ TodosOf(o, x)
    BY <1>2, <1>3, <1>4 DEF ObWrites, TodosOf
  <1> QED BY <1>5, ObKeeps DEF On!Saved

LEMMA AssigneesAre ==
  ASSUME NEW tasks \in ObTasks
  PROVE  /\ On!Assignees(tasks) \subseteq People
         /\ \A p : p \in On!Assignees(tasks) <=> p # On!Nobody /\ \E r \in Rows : tasks[r].is /\ tasks[r].who = p
  BY DEF On!Assignees, On!RowsOf, ObTasks, ObTask

LEMMA TasksOf ==
  ASSUME ObInv, NEW o \in Onboardings
  PROVE  /\ ob[o].task \in ObTasks /\ ob[o].task = [r \in Rows |-> ob[o].task[r]]
         /\ \A r \in Rows : ob[o].task[r] \in ObTask
  BY DEF ObInv, ObTyped, ObDoc, ObTasks

LEMMA ReadIs ==
  ASSUME NEW v, NEW o, NEW states, On!Reads(v, o, states)
  PROVE  ob[o].is \in states
  BY DEF On!Reads

-----------------------------------------------------------------------------
(* One request at a time. *)

LEMMA CloseSteps ==
  ASSUME ObInv, NEW v \in On!Views, NEW o \in Onboardings, NEW r \in Rows, On!complete_task(v, o, r)
  PROVE  ObInv'
  <1> DEFINE old == ob[o].task
             tasks == [old EXCEPT ![r].closed = TRUE]
  <1>1. old \in ObTasks /\ old[r] \in ObTask
    BY TasksOf
  <1>2. ob[o].is \notin {"None", "Cancelled"}
    BY ReadIs DEF On!complete_task, On!Running
  <1>3. ob' = On!With(o, tasks) /\ On!Saved(v) /\ todo' \subseteq todo
    BY DEF On!complete_task, On!_sync_todo_remove
  <1> HIDE DEF old
  <1>4. /\ tasks \in ObTasks
        /\ \A s \in Rows : tasks[s].is = old[s].is /\ tasks[s].who = old[s].who
    BY <1>1 DEF ObTasks, ObTask
  <1>5. On!Assignees(tasks) = On!Assignees(old)
    BY <1>4 DEF On!Assignees, On!RowsOf
  <1> HIDE DEF tasks
  <1>6. \A p : <<o, p>> \in todo => p \in On!Assignees(tasks)
    BY <1>5 DEF ObInv, TodoOfTask, old
  <1> QED BY <1>2, <1>3, <1>4, <1>6, WithTasks DEF ObInv, ObTyped

LEMMA ReopenSteps ==
  ASSUME ObInv, NEW v \in On!Views, NEW o \in Onboardings, NEW r \in Rows, On!reopen_task(v, o, r)
  PROVE  ObInv'
  <1> DEFINE old == ob[o].task
             tasks == [old EXCEPT ![r].closed = FALSE]
             who == old[r].who
  <1>1. old \in ObTasks /\ old[r] \in ObTask /\ who \in People \cup {On!Nobody}
    BY TasksOf DEF ObTask
  <1>2. ob[o].is \notin {"None", "Cancelled"} /\ old[r].is
    BY ReadIs DEF On!reopen_task, On!Running, On!Done, On!RowsOf
  <1>3. ob' = On!With(o, tasks) /\ On!Saved(v) /\ todo' = todo \cup {<<o, p>> : p \in {who} \ {On!Nobody}}
    BY DEF On!reopen_task, On!_sync_todo_add
  <1> HIDE DEF old
  <1>4. /\ tasks \in ObTasks
        /\ \A s \in Rows : tasks[s].is = old[s].is /\ tasks[s].who = old[s].who
    BY <1>1 DEF ObTasks, ObTask
  <1>5. On!Assignees(tasks) = On!Assignees(old)
    BY <1>4 DEF On!Assignees, On!RowsOf
  <1> HIDE DEF tasks
  <1>6. who # On!Nobody => who \in On!Assignees(tasks)
    BY <1>2, <1>4, AssigneesAre
  <1> HIDE DEF who
  <1>7. \A p : <<o, p>> \in todo => p \in On!Assignees(tasks)
    BY <1>5 DEF ObInv, TodoOfTask, old
  <1>8. \A p : <<o, p>> \in todo' => p \in On!Assignees(tasks)
    BY <1>3, <1>6, <1>7
  <1>9. /\ todo' \subseteq Onboardings \X People
        /\ \A q \in Onboardings \ {o} : \A p : <<q, p>> \in todo' => <<q, p>> \in todo
    BY <1>1, <1>3 DEF ObInv, ObTyped
  <1> QED BY <1>2, <1>3, <1>4, <1>8, <1>9, WithTasks

LEMMA AddSteps ==
  ASSUME ObInv, NEW v \in On!Views, NEW o \in Onboardings, NEW r \in Rows, NEW p \in People \cup {On!Nobody},
         On!add_task(v, o, r, p)
  PROVE  ObInv'
  <1> DEFINE old == ob[o].task
             tasks == [old EXCEPT ![r] = On!Task(p)]
  <1>1. old \in ObTasks /\ ~old[r].is
    BY TasksOf DEF On!add_task, On!RowsOf
  <1>2. ob[o].is \notin {"None", "Cancelled"}
    BY ReadIs DEF On!add_task, On!Running
  <1>3. ob' = On!With(o, tasks) /\ On!Saved(v) /\ todo' = todo \cup {<<o, q>> : q \in {p} \ {On!Nobody}}
    BY DEF On!add_task, On!_sync_todo_add
  <1> HIDE DEF old
  <1>4. On!Task(p) \in ObTask /\ On!Task(p).is /\ On!Task(p).who = p
    BY DEF On!Task, ObTask
  <1>5. tasks \in ObTasks /\ tasks[r] = On!Task(p) /\ \A s \in Rows \ {r} : tasks[s] = old[s]
    BY <1>1, <1>4 DEF ObTasks
  <1> HIDE DEF tasks
  <1>6. \A q : q \in On!Assignees(old) => q \in On!Assignees(tasks)
    BY <1>1, <1>5, AssigneesAre
  <1>7. p # On!Nobody => p \in On!Assignees(tasks)
    BY <1>4, <1>5, AssigneesAre
  <1>8. \A q : <<o, q>> \in todo' => q \in On!Assignees(tasks)
    BY <1>3, <1>6, <1>7 DEF ObInv, TodoOfTask, old
  <1>9. /\ todo' \subseteq Onboardings \X People
        /\ \A q \in Onboardings \ {o} : \A s : <<q, s>> \in todo' => <<q, s>> \in todo
    BY <1>3 DEF ObInv, ObTyped
  <1> QED BY <1>2, <1>3, <1>5, <1>8, <1>9, WithTasks

LEMMA GiveSteps ==
  ASSUME ObInv, NEW v \in On!Views, NEW o \in Onboardings, NEW r \in Rows, NEW p \in People \cup {On!Nobody},
         On!update_task(v, o, r, p)
  PROVE  ObInv'
  <1> DEFINE old == ob[o].task
             who == old[r].who
             tasks == [old EXCEPT ![r].who = p]
  <1>1. old \in ObTasks /\ old[r] \in ObTask /\ old[r].is
    BY TasksOf DEF On!update_task, On!RowsOf
  <1>2. ob[o].is \notin {"None", "Cancelled"}
    BY ReadIs DEF On!update_task, On!Running
  <1>3. ob' = On!With(o, tasks) /\ On!Saved(v)
        /\ todo' = IF who = p THEN todo ELSE (todo \ {<<o, who>>}) \cup {<<o, q>> : q \in {p} \ {On!Nobody}}
    BY DEF On!update_task, On!Reassigned
  <1> HIDE DEF old
  <1>4. /\ tasks \in ObTasks /\ tasks[r].is /\ tasks[r].who = p
        /\ \A s \in Rows \ {r} : tasks[s] = old[s]
    BY <1>1 DEF ObTasks, ObTask
  <1> HIDE DEF tasks
  <1>5. \A q : q \in On!Assignees(old) /\ q # who => q \in On!Assignees(tasks)
    BY <1>1, <1>4, AssigneesAre
  <1>6. p # On!Nobody => p \in On!Assignees(tasks)
    BY <1>4, AssigneesAre
  <1>7. \A q : <<o, q>> \in todo => q \in On!Assignees(old)
    BY DEF ObInv, TodoOfTask, old
  <1>8. \A q : q \in On!Assignees(old) => q # On!Nobody
    BY <1>1, AssigneesAre
  <1> HIDE DEF who
  <1>9. \A q : <<o, q>> \in todo' => q \in On!Assignees(tasks)
    <2>1. CASE who = p
      BY <1>3, <1>5, <1>6, <1>7, <1>8, <2>1
    <2>2. CASE who # p
      BY <1>3, <1>5, <1>6, <1>7, <2>2
    <2> QED BY <2>1, <2>2
  <1>10. /\ todo' \subseteq Onboardings \X People
         /\ \A q \in Onboardings \ {o} : \A s : <<q, s>> \in todo' => <<q, s>> \in todo
    BY <1>3 DEF ObInv, ObTyped
  <1> QED BY <1>2, <1>3, <1>4, <1>9, <1>10, WithTasks

LEMMA StartSteps ==
  ASSUME ObInv, NEW v \in On!Views, NEW o \in Onboardings, NEW t \in Templates \cup {"None"}, NEW more \in On!Lists,
         On!start_onboarding(v, o, t, more)
  PROVE  ObInv'
  <1> DEFINE copied == IF t \in Templates THEN v.template[t].who ELSE On!Empty
             tasks == [r \in Rows |-> IF copied[r] # On!Nobody THEN On!Task(copied[r])
                                     ELSE IF more[r] # On!Nobody THEN On!Task(more[r]) ELSE On!NoTask]
             is == On!derive_status(tasks, "Open")
             x == [is |-> is, of |-> t, task |-> tasks]
  <1>1. copied \in On!Lists
    BY ObViews DEF ObInv, ObTemplate, On!Lists, On!Empty
  <1>2. ob' = [ob EXCEPT ![o] = x] /\ todo' = On!_sync_todo_add(o, On!Assignees(tasks)) /\ On!Ends(v) /\ UNCHANGED template
    BY DEF On!start_onboarding
  <1>3. ob[o].is = "None"
    BY DEF On!start_onboarding, On!NoOb
  <1> HIDE DEF copied
  <1>4. /\ On!NoTask \in ObTask /\ \A p \in People \cup {On!Nobody} : On!Task(p) \in ObTask
    BY DEF On!NoTask, On!Task, ObTask
  <1>5. tasks \in ObTasks
    BY <1>1, <1>4 DEF On!Lists, ObTasks
  <1> HIDE DEF tasks
  <1>6. is \in {"Open", "In Progress", "Completed"} /\ is = On!derive_status(tasks, is)
    BY DEF On!derive_status
  <1> HIDE DEF is
  <1>7. x \in ObDoc /\ x.is = is /\ x.task = tasks
    BY <1>5, <1>6 DEF ObDoc, ObStates
  <1> HIDE DEF x
  <1>8. On!Assignees(tasks) \subseteq People
    BY <1>5, AssigneesAre
  <1>9. \A p : <<o, p>> \notin todo
    BY <1>3 DEF ObInv, NoTodo
  <1>10. TodosOf(o, x)
    <2>1. \A q, p : <<q, p>> \in todo' => <<q, p>> \in todo \/ (q = o /\ p \in On!Assignees(tasks))
      BY <1>2 DEF On!_sync_todo_add
    <2>2. todo' \subseteq Onboardings \X People
      BY <1>2, <1>8 DEF On!_sync_todo_add, ObInv, ObTyped
    <2> QED BY <1>6, <1>7, <1>9, <2>1, <2>2 DEF TodosOf
  <1>11. ObWrites(o, x)
    BY <1>2, <1>6, <1>7 DEF ObWrites
  <1> QED BY <1>2, <1>10, <1>11, ObKeeps

LEMMA EndSteps ==
  ASSUME ObInv, NEW v \in On!Views, NEW o \in Onboardings, On!cancel_onboarding(v, o) \/ On!delete_onboarding(v, o)
  PROVE  ObInv'
  <1>1. CASE On!cancel_onboarding(v, o)
    <2> DEFINE x == [ob[o] EXCEPT !.is = "Cancelled"]
    <2>1. ob \in [Onboardings -> ObDoc] /\ ob[o] \in ObDoc
      BY DEF ObInv, ObTyped
    <2>2. x \in ObDoc /\ x.is = "Cancelled" /\ x.task = ob[o].task
      BY <2>1 DEF ObDoc, ObStates
    <2>3. ob' = [ob EXCEPT ![o] = x] /\ On!Saved(v) /\ todo' = On!_sync_todo_remove(o, On!Assignees(ob[o].task))
      BY <1>1, <2>1 DEF On!cancel_onboarding
    <2> HIDE DEF x
    <2>4. ObWrites(o, x)
      BY <2>2, <2>3 DEF ObWrites, On!derive_status
    <2>5. TodosOf(o, x)
      BY <2>3 DEF TodosOf, On!_sync_todo_remove, ObInv, ObTyped, TodoOfTask
    <2> QED BY <2>3, <2>4, <2>5, ObKeeps DEF On!Saved
  <1>2. CASE On!delete_onboarding(v, o)
    <2>1. ob' = [ob EXCEPT ![o] = On!NoOb] /\ todo' = {y \in todo : y[1] # o} /\ On!Saved(v)
      BY <1>2 DEF On!delete_onboarding
    <2>2. On!NoTask \in ObTask
      BY DEF On!NoTask, ObTask
    <2>3. On!NoOb \in ObDoc
      BY <2>2 DEF On!NoOb, ObDoc, ObTasks, ObStates
    <2>4. ObWrites(o, On!NoOb)
      BY <2>1, <2>3 DEF ObWrites
    <2>5. TodosOf(o, On!NoOb)
      BY <2>1 DEF TodosOf, ObInv, ObTyped
    <2> QED BY <2>1, <2>4, <2>5, ObKeeps DEF On!Saved
  <1> QED BY <1>1, <1>2

LEMMA TemplateSteps ==
  ASSUME ObInv, NEW v \in On!Views, NEW t \in Templates,
         \/ \E who \in On!Lists : On!save_template(v, t, who)
         \/ \E from \in Templates : On!duplicate_template(v, from, t)
         \/ On!delete_template(v, t)
  PROVE  ObInv'
  <1>1. UNCHANGED <<ob, todo>> /\ On!Ends(v)
    BY DEF On!save_template, On!duplicate_template, On!delete_template
  <1>2. ASSUME NEW who \in On!Lists PROVE [is |-> TRUE, who |-> who] \in ObTemplate
    BY DEF ObTemplate
  <1>3. On!NoTemplate \in ObTemplate
    BY DEF On!NoTemplate, ObTemplate, On!Empty, On!Lists
  <1>4. \A from \in Templates : v.template[from] \in ObTemplate
    BY ObViews DEF ObInv
  <1>5. PICK y \in ObTemplate : template' = [template EXCEPT ![t] = y]
    BY <1>2, <1>3, <1>4 DEF On!save_template, On!duplicate_template, On!delete_template
  <1>6. ObTyped'
    BY <1>1, <1>5, ObEnds DEF ObInv, ObTyped
  <1> QED BY <1>1, <1>6 DEF ObInv, TodoOfTask, NoTodo, Derived

LEMMA ObHolds ==
  ASSUME ObInv, On!Hold \/ UNCHANGED On!vars
  PROVE  ObInv'
  <1>1. UNCHANGED <<template, ob, todo, overlap>> /\ (held' = {On!Now} \/ held' = held)
    BY DEF On!Hold, On!vars
  <1>2. ObTyped'
    BY <1>1 DEF ObInv, ObTyped, On!Now
  <1> QED BY <1>1, <1>2 DEF ObInv, TodoOfTask, NoTodo, Derived

LEMMA ObNext ==
  ASSUME ObInv, [On!Next]_On!vars
  PROVE  ObInv'
  <1>1. CASE On!Hold \/ UNCHANGED On!vars
    BY <1>1, ObHolds
  <1>2. ASSUME NEW v \in On!Views, \E t \in Templates, who \in On!Lists : On!save_template(v, t, who) PROVE ObInv'
    BY <1>2, TemplateSteps
  <1>3. ASSUME NEW v \in On!Views, \E t, from \in Templates : On!duplicate_template(v, from, t) PROVE ObInv'
    BY <1>3, TemplateSteps
  <1>4. ASSUME NEW v \in On!Views, \E t \in Templates : On!delete_template(v, t) PROVE ObInv'
    BY <1>4, TemplateSteps
  <1>5. ASSUME NEW v \in On!Views,
               \E o \in Onboardings, t \in Templates \cup {"None"}, more \in On!Lists :
                 (t \in Templates => v.template[t].is) /\ On!start_onboarding(v, o, t, more)
        PROVE  ObInv'
    BY <1>5, StartSteps
  <1>6. ASSUME NEW v \in On!Views,
               \E o \in Onboardings, r \in Rows :
                 \/ On!complete_task(v, o, r) \/ On!reopen_task(v, o, r)
                 \/ \E p \in People \cup {On!Nobody} : On!add_task(v, o, r, p) \/ On!update_task(v, o, r, p)
        PROVE  ObInv'
    BY <1>6, CloseSteps, ReopenSteps, AddSteps, GiveSteps
  <1>7. ASSUME NEW v \in On!Views, \E o \in Onboardings : On!cancel_onboarding(v, o) \/ On!delete_onboarding(v, o)
        PROVE  ObInv'
    BY <1>7, EndSteps
  <1> QED BY <1>1, <1>2, <1>3, <1>4, <1>5, <1>6, <1>7 DEF On!Next

LEMMA ObInit == Overlaps \subseteq BOOLEAN /\ On!Init => ObInv
  <1> SUFFICES ASSUME Overlaps \subseteq BOOLEAN, On!Init PROVE ObInv
    OBVIOUS
  <1>1. On!NoTemplate \in ObTemplate
    BY DEF On!NoTemplate, ObTemplate, On!Empty, On!Lists
  <1>2. On!NoTask \in ObTask
    BY DEF On!NoTask, ObTask
  <1>3. On!NoOb \in ObDoc
    BY <1>2 DEF On!NoOb, ObDoc, ObTasks, ObStates
  <1>4. ObTyped
    BY <1>1, <1>3 DEF On!Init, ObTyped
  <1> QED BY <1>4 DEF ObInv, On!Init, TodoOfTask, NoTodo, Derived

\* The rows of templates, onboardings and their ToDos are of their kinds, whoever else writes.
THEOREM OnboardingTyped ==
  ASSUME Overlaps \subseteq BOOLEAN
  PROVE  On!Spec => []On!TypeOK
  <1>1. ObInv => On!TypeOK
    BY DEF ObInv, ObTyped, On!TypeOK, ObDoc, ObTasks, ObTask, ObStates, ObTemplate
  <1>2. On!Init => ObInv
    BY ObInit
  <1>3. ObInv /\ [On!Next]_On!vars => ObInv'
    BY ObNext
  <1> QED BY <1>1, <1>2, <1>3, PTL DEF On!Spec

\* CancelledLeavesNoTodo: nobody keeps a ToDo of an onboarding that is cancelled or gone, and what is done is told by
\* the tasks, with requests that overlap too.
THEOREM CancelledHasNoTodo ==
  ASSUME Overlaps \subseteq BOOLEAN
  PROVE  On!Spec => []On!CancelledLeavesNoTodo
  <1>1. ASSUME ObInv PROVE On!CancelledLeavesNoTodo
    <2>1. ASSUME NEW y \in todo PROVE ob[y[1]].is \notin {"None", "Cancelled"}
      <3>1. y \in Onboardings \X People
        BY <1>1 DEF ObInv, ObTyped
      <3>2. y[1] \in Onboardings /\ y = <<y[1], y[2]>>
        BY <3>1
      <3> QED BY <1>1, <3>2 DEF ObInv, NoTodo
    <2> QED BY <1>1, <2>1 DEF On!CancelledLeavesNoTodo, ObInv, Derived
  <1>2. On!Init => ObInv
    BY ObInit
  <1>3. ObInv /\ [On!Next]_On!vars => ObInv'
    BY ObNext
  <1> QED BY <1>1, <1>2, <1>3, PTL DEF On!Spec

-----------------------------------------------------------------------------
(* Recruitment. *)

\* No opening is called "None".
HiringNames == "None" \notin Openings /\ Overlaps \subseteq BOOLEAN

\* One older snapshot is held at most, and none without overlaps.
OneHeld == (held = {} \/ \E v : held = {v}) /\ (~overlap => held = {})
HiringInv == HiringNames /\ Hi!TypeOK /\ OneHeld /\ Hi!OpeningIsThere

LEMMA HiringEnds ==
  ASSUME OneHeld, NEW v \in Hi!Views, Hi!Ends(v)
  PROVE  OneHeld' /\ overlap' = overlap
  BY DEF OneHeld, Hi!Ends

LEMMA HiringNow ==
  ASSUME HiringInv, NEW v \in Hi!Views, ~overlap
  PROVE  v.opening = opening /\ v.applicant = applicant
  BY DEF HiringInv, OneHeld, Hi!Views, Hi!Now

\* The types of the rows after a step.
HiringRows ==
  /\ opening \in [Openings -> Hi!OPENING_STATUSES \cup {"None"}]
  /\ applicant \in [Applicants -> [status : Hi!APPLICANT_STATUSES, of : Openings \cup {Hi!NoOpening}] \cup {Hi!NoApplicant}]
  /\ interview \in [Applicants -> [Rounds -> Hi!INTERVIEW_STATUSES \cup {"None"}]]
  /\ offer \in [Applicants -> Hi!OFFER_STATUSES \cup {"None"}]
  /\ onboarded \subseteq Applicants

LEMMA HiringKeeps ==
  ASSUME HiringInv, OneHeld', HiringRows', overlap' = overlap,
         ~overlap => Hi!OpeningIsThere' /\ Hi!AcceptedStays
  PROVE  HiringInv' /\ Hi!AcceptedStays
  <1>1. Hi!TypeOK'
    BY HiCounts, HeldCount DEF Hi!TypeOK, HiringRows, HiringInv, OneHeld
  <1> QED BY <1>1 DEF HiringInv, HiringNames, Hi!OpeningIsThere, Hi!AcceptedStays

LEMMA OpeningSteps ==
  ASSUME HiringInv, NEW v \in Hi!Views, NEW o \in Openings,
         \/ Hi!save_job_opening(v, o) \/ Hi!delete_job_opening(v, o)
         \/ \E s \in Hi!OPENING_STATUSES, f \in BOOLEAN : Hi!set_job_opening_status(v, o, s, f)
  PROVE  HiringInv' /\ Hi!AcceptedStays
  <1>1. UNCHANGED <<applicant, interview, offer, onboarded>> /\ Hi!Ends(v)
    BY DEF Hi!save_job_opening, Hi!delete_job_opening, Hi!set_job_opening_status
  <1>2. PICK s \in Hi!OPENING_STATUSES \cup {"None"} :
           opening' = [opening EXCEPT ![o] = s] /\ (s = "None" => Hi!Unlinked(v, o))
    BY DEF Hi!save_job_opening, Hi!delete_job_opening, Hi!set_job_opening_status, Hi!OPENING_STATUSES
  <1>3. OneHeld' /\ overlap' = overlap
    BY <1>1, HiringEnds DEF HiringInv
  <1>4. HiringRows'
    BY <1>1, <1>2 DEF HiringInv, Hi!TypeOK, HiringRows
  <1>5. ~overlap => Hi!OpeningIsThere' /\ Hi!AcceptedStays
    <2> SUFFICES ASSUME ~overlap PROVE Hi!OpeningIsThere' /\ Hi!AcceptedStays
      OBVIOUS
    <2>1. s = "None" => \A a \in Applicants : applicant[a].of # o
      BY <1>2, HiringNow DEF Hi!Unlinked, Hi!ApplicantsOf
    <2>2. \A p \in Openings \ {o} : opening'[p] = opening[p]
      BY <1>2 DEF HiringInv, Hi!TypeOK
    <2>3. opening'[o] = s
      BY <1>2 DEF HiringInv, Hi!TypeOK
    <2>4. \A a \in Applicants : applicant[a].of # Hi!NoOpening => applicant[a].of \in Openings
      BY DEF HiringInv, Hi!TypeOK, Hi!NoApplicant
    <2> QED BY <1>1, <2>1, <2>2, <2>3, <2>4 DEF Hi!OpeningIsThere, Hi!AcceptedStays, HiringInv
  <1> QED BY <1>3, <1>4, <1>5, HiringKeeps

\* What is written of one applicant.
LEMMA ApplicantKeeps ==
  ASSUME HiringInv, NEW v \in Hi!Views, Hi!Ends(v), NEW a \in Applicants,
         NEW x \in [status : Hi!APPLICANT_STATUSES, of : Openings \cup {Hi!NoOpening}] \cup {Hi!NoApplicant},
         applicant' = [applicant EXCEPT ![a] = x], UNCHANGED <<opening, interview>>,
         offer' \in [Applicants -> Hi!OFFER_STATUSES \cup {"None"}], onboarded' \subseteq Applicants,
         ~overlap => /\ x.of # Hi!NoOpening => opening[x.of] # "None"
                     /\ applicant[a].status = "Accepted" => x.status = "Accepted"
  PROVE  HiringInv' /\ Hi!AcceptedStays
  <1>1. OneHeld' /\ overlap' = overlap
    BY HiringEnds DEF HiringInv
  <1>2. /\ applicant' \in [Applicants -> [status : Hi!APPLICANT_STATUSES, of : Openings \cup {Hi!NoOpening}] \cup {Hi!NoApplicant}]
        /\ applicant'[a] = x /\ \A b \in Applicants \ {a} : applicant'[b] = applicant[b]
    BY DEF HiringInv, Hi!TypeOK
  <1>3. HiringRows'
    BY <1>2 DEF HiringInv, Hi!TypeOK, HiringRows
  <1>4. ~overlap => Hi!OpeningIsThere' /\ Hi!AcceptedStays
    BY <1>1, <1>2 DEF Hi!OpeningIsThere, Hi!AcceptedStays, HiringInv
  <1> QED BY <1>1, <1>3, <1>4, HiringKeeps

LEMMA HiringApplySteps ==
  ASSUME HiringInv, NEW v \in Hi!Views, NEW a \in Applicants, NEW o \in Openings \cup {Hi!NoOpening},
         Hi!submit_job_application(v, a, o)
  PROVE  HiringInv' /\ Hi!AcceptedStays
  <1> DEFINE x == [status |-> "Open", of |-> o]
  <1>1. x \in [status : Hi!APPLICANT_STATUSES, of : Openings \cup {Hi!NoOpening}] /\ x.of = o
    BY DEF Hi!APPLICANT_STATUSES
  <1>2. applicant[a].status = "None"
    BY DEF Hi!submit_job_application, Hi!Known, Hi!Now, Hi!NoApplicant
  <1>3. ~overlap => (o # Hi!NoOpening => opening[o] # "None")
    BY HiringNow DEF Hi!submit_job_application
  <1>4. applicant' = [applicant EXCEPT ![a] = x] /\ UNCHANGED <<opening, interview, offer, onboarded>> /\ Hi!Ends(v)
    BY DEF Hi!submit_job_application
  <1> HIDE DEF x
  <1>5. offer' \in [Applicants -> Hi!OFFER_STATUSES \cup {"None"}] /\ onboarded' \subseteq Applicants
    BY <1>4 DEF HiringInv, Hi!TypeOK
  <1> QED BY <1>1, <1>2, <1>3, <1>4, <1>5, ApplicantKeeps

\* A new status of an applicant there is.
LEMMA StatusOf ==
  ASSUME HiringInv, NEW a \in Applicants, NEW s \in Hi!APPLICANT_STATUSES \cup {applicant[a].status}
  PROVE  /\ [applicant[a] EXCEPT !.status = s] \in
               [status : Hi!APPLICANT_STATUSES, of : Openings \cup {Hi!NoOpening}] \cup {Hi!NoApplicant}
         /\ [applicant[a] EXCEPT !.status = s].of = applicant[a].of
         /\ [applicant[a] EXCEPT !.status = s].status = s
         /\ [applicant EXCEPT ![a].status = s] = [applicant EXCEPT ![a] = [applicant[a] EXCEPT !.status = s]]
  <1> DEFINE St == Hi!APPLICANT_STATUSES
             Of == Openings \cup {Hi!NoOpening}
  <1>1. applicant[a] \in [status : St, of : Of] \cup {Hi!NoApplicant}
    BY DEF HiringInv, Hi!TypeOK
  <1>2. "None" \in Of
    BY DEF Hi!NoOpening
  <1> HIDE DEF St, Of
  <1>3. CASE applicant[a] \in [status : St, of : Of]
    BY <1>3 DEF St, Of
  <1>4. CASE applicant[a] = Hi!NoApplicant
    BY <1>2, <1>4 DEF St, Of, Hi!NoApplicant, Hi!NoOpening
  <1> QED BY <1>1, <1>3, <1>4 DEF St, Of

LEMMA MoveSteps ==
  ASSUME HiringInv, NEW v \in Hi!Views, NEW a \in Applicants, NEW s \in Hi!APPLICANT_STATUSES,
         Hi!set_applicant_status(v, a, s)
  PROVE  HiringInv' /\ Hi!AcceptedStays
  <1> DEFINE x == [applicant[a] EXCEPT !.status = s]
  <1>1. /\ x \in [status : Hi!APPLICANT_STATUSES, of : Openings \cup {Hi!NoOpening}] \cup {Hi!NoApplicant}
        /\ x.of = applicant[a].of /\ x.status = s /\ applicant' = [applicant EXCEPT ![a] = x]
    BY StatusOf DEF Hi!set_applicant_status
  <1>2. ~overlap => applicant[a].status # "Accepted"
    BY HiringNow DEF Hi!set_applicant_status, Hi!_APPLICANT_TRANSITIONS
  <1> HIDE DEF x
  <1>3. UNCHANGED <<opening, interview, offer, onboarded>> /\ Hi!Ends(v)
    BY DEF Hi!set_applicant_status
  <1>4. offer' \in [Applicants -> Hi!OFFER_STATUSES \cup {"None"}] /\ onboarded' \subseteq Applicants
    BY <1>3 DEF HiringInv, Hi!TypeOK
  <1> QED BY <1>1, <1>2, <1>3, <1>4, ApplicantKeeps DEF HiringInv, Hi!OpeningIsThere

LEMMA OfferSteps ==
  ASSUME HiringInv, NEW v \in Hi!Views, NEW a \in Applicants, NEW s \in {"Accepted", "Rejected"}, NEW c \in BOOLEAN,
         Hi!set_job_offer_status(v, a, s, c)
  PROVE  HiringInv' /\ Hi!AcceptedStays
  <1> DEFINE t == Hi!Follows(v.applicant[a].status, applicant[a].status, s)
             x == [applicant[a] EXCEPT !.status = t]
  <1>1. t \in Hi!APPLICANT_STATUSES \cup {applicant[a].status}
    BY DEF Hi!Follows, Hi!APPLICANT_STATUSES
  <1>2. ~overlap /\ applicant[a].status = "Accepted" => t = "Accepted"
    BY HiringNow DEF Hi!Follows
  <1>3. applicant' = [applicant EXCEPT ![a].status = t]
    BY DEF Hi!set_job_offer_status, HiringInv, Hi!TypeOK
  <1> HIDE DEF t
  <1>4. /\ x \in [status : Hi!APPLICANT_STATUSES, of : Openings \cup {Hi!NoOpening}] \cup {Hi!NoApplicant}
        /\ x.of = applicant[a].of /\ x.status = t /\ applicant' = [applicant EXCEPT ![a] = x]
    BY <1>1, <1>3, StatusOf
  <1> HIDE DEF x
  <1>5. UNCHANGED <<opening, interview>> /\ Hi!Ends(v)
    BY DEF Hi!set_job_offer_status
  <1>6. offer' \in [Applicants -> Hi!OFFER_STATUSES \cup {"None"}]
    BY DEF Hi!set_job_offer_status, HiringInv, Hi!TypeOK, Hi!OFFER_STATUSES
  <1>7. onboarded' \subseteq Applicants
    BY DEF Hi!set_job_offer_status, HiringInv, Hi!TypeOK
  <1> QED BY <1>2, <1>4, <1>5, <1>6, <1>7, ApplicantKeeps DEF HiringInv, Hi!OpeningIsThere

LEMMA RestSteps ==
  ASSUME HiringInv, NEW v \in Hi!Views, NEW a \in Applicants,
         \/ \E r \in Rounds :
              \/ Hi!schedule_interview(v, a, r)
              \/ \E s \in Hi!_FEEDBACK_STATUSES : Hi!submit_interview_feedback(v, a, r, s)
         \/ \E f \in BOOLEAN : Hi!save_job_offer(v, a, f)
  PROVE  HiringInv' /\ Hi!AcceptedStays
  <1>1. UNCHANGED <<opening, applicant, onboarded>> /\ Hi!Ends(v)
    BY DEF Hi!schedule_interview, Hi!submit_interview_feedback, Hi!save_job_offer
  <1>2. interview' \in [Applicants -> [Rounds -> Hi!INTERVIEW_STATUSES \cup {"None"}]]
    <2>1. ASSUME NEW r \in Rounds, NEW s \in Hi!INTERVIEW_STATUSES, interview' = [interview EXCEPT ![a][r] = s]
          PROVE  interview' \in [Applicants -> [Rounds -> Hi!INTERVIEW_STATUSES \cup {"None"}]]
      BY <2>1 DEF HiringInv, Hi!TypeOK
    <2>2. CASE interview' = interview
      BY <2>2 DEF HiringInv, Hi!TypeOK
    <2> QED BY <2>1, <2>2
         DEF Hi!schedule_interview, Hi!submit_interview_feedback, Hi!save_job_offer, Hi!_FEEDBACK_STATUSES, Hi!INTERVIEW_STATUSES
  <1>3. offer' \in [Applicants -> Hi!OFFER_STATUSES \cup {"None"}]
    BY DEF Hi!schedule_interview, Hi!submit_interview_feedback, Hi!save_job_offer, HiringInv, Hi!TypeOK, Hi!OFFER_STATUSES
  <1>4. OneHeld' /\ overlap' = overlap
    BY <1>1, HiringEnds DEF HiringInv
  <1>5. HiringRows'
    BY <1>1, <1>2, <1>3 DEF HiringInv, Hi!TypeOK, HiringRows
  <1>6. ~overlap => Hi!OpeningIsThere' /\ Hi!AcceptedStays
    BY <1>1, <1>4 DEF Hi!OpeningIsThere, Hi!AcceptedStays, HiringInv
  <1> QED BY <1>4, <1>5, <1>6, HiringKeeps

LEMMA HiringHolds ==
  ASSUME HiringInv, Hi!Hold \/ UNCHANGED Hi!vars
  PROVE  HiringInv' /\ Hi!AcceptedStays
  <1>1. UNCHANGED <<opening, applicant, interview, offer, onboarded, overlap>>
    BY DEF Hi!Hold, Hi!vars
  <1>2. OneHeld'
    BY DEF Hi!Hold, Hi!vars, OneHeld, HiringInv
  <1>3. HiringRows'
    BY <1>1 DEF HiringInv, Hi!TypeOK, HiringRows
  <1>4. ~overlap => Hi!OpeningIsThere' /\ Hi!AcceptedStays
    BY <1>1 DEF Hi!OpeningIsThere, Hi!AcceptedStays, HiringInv
  <1> QED BY <1>1, <1>2, <1>3, <1>4, HiringKeeps

LEMMA HiringNext ==
  ASSUME HiringInv, [Hi!Next]_Hi!vars
  PROVE  HiringInv' /\ Hi!AcceptedStays
  <1>1. CASE Hi!Hold \/ UNCHANGED Hi!vars
    BY <1>1, HiringHolds
  <1>2. ASSUME NEW v \in Hi!Views, NEW o \in Openings,
         \/ Hi!save_job_opening(v, o) \/ Hi!delete_job_opening(v, o)
         \/ \E s \in Hi!OPENING_STATUSES, f \in BOOLEAN : Hi!set_job_opening_status(v, o, s, f)
        PROVE  HiringInv' /\ Hi!AcceptedStays
    BY <1>2, OpeningSteps
  <1>3. ASSUME NEW v \in Hi!Views, NEW a \in Applicants,
            \/ \E o \in Openings \cup {Hi!NoOpening} : Hi!submit_job_application(v, a, o)
            \/ \E s \in Hi!APPLICANT_STATUSES : Hi!set_applicant_status(v, a, s)
            \/ \E r \in Rounds :
                 \/ Hi!schedule_interview(v, a, r)
                 \/ \E s \in Hi!_FEEDBACK_STATUSES : Hi!submit_interview_feedback(v, a, r, s)
            \/ \E f \in BOOLEAN : Hi!save_job_offer(v, a, f)
            \/ \E s \in {"Accepted", "Rejected"}, c \in BOOLEAN : Hi!set_job_offer_status(v, a, s, c)
        PROVE  HiringInv' /\ Hi!AcceptedStays
    <2>1. CASE \E o \in Openings \cup {Hi!NoOpening} : Hi!submit_job_application(v, a, o)
      BY <2>1, HiringApplySteps
    <2>2. CASE \E s \in Hi!APPLICANT_STATUSES : Hi!set_applicant_status(v, a, s)
      BY <2>2, MoveSteps
    <2>3. CASE \/ \E r \in Rounds :
                    \/ Hi!schedule_interview(v, a, r)
                    \/ \E s \in Hi!_FEEDBACK_STATUSES : Hi!submit_interview_feedback(v, a, r, s)
               \/ \E f \in BOOLEAN : Hi!save_job_offer(v, a, f)
      BY <2>3, RestSteps
    <2>4. CASE \E s \in {"Accepted", "Rejected"}, c \in BOOLEAN : Hi!set_job_offer_status(v, a, s, c)
      BY <2>4, OfferSteps
    <2> QED BY <1>3, <2>1, <2>2, <2>3, <2>4
  <1> QED BY <1>1, <1>2, <1>3 DEF Hi!Next

LEMMA HiringInit == HiringNames /\ Hi!Init => HiringInv
  <1> SUFFICES ASSUME HiringNames, Hi!Init PROVE HiringInv
    OBVIOUS
  <1>1. OneHeld /\ Hi!OpeningIsThere
    BY DEF Hi!Init, OneHeld, Hi!OpeningIsThere, Hi!NoApplicant
  <1> QED BY HiCounts, <1>1, HeldCount DEF HiringInv, HiringNames, Hi!TypeOK, Hi!Init, OneHeld

\* The rows of openings, applicants, interviews and offers are of their kinds, whoever else writes.
THEOREM HiringTyped ==
  ASSUME HiringNames
  PROVE  Hi!Spec => []Hi!TypeOK
  <1>1. HiringInv => Hi!TypeOK
    BY DEF HiringInv
  <1>2. Hi!Init => HiringInv
    BY HiringInit
  <1>3. HiringInv /\ [Hi!Next]_Hi!vars => HiringInv'
    BY HiringNext
  <1> QED BY <1>1, <1>2, <1>3, PTL DEF Hi!Spec

\* OpeningIsThere: one request after another, nobody applies for an opening that is gone.
THEOREM OpeningsAreThere ==
  ASSUME HiringNames
  PROVE  Hi!Spec => []Hi!OpeningIsThere
  <1>1. HiringInv => Hi!OpeningIsThere
    BY DEF HiringInv
  <1>2. Hi!Init => HiringInv
    BY HiringInit
  <1>3. HiringInv /\ [Hi!Next]_Hi!vars => HiringInv'
    BY HiringNext
  <1> QED BY <1>1, <1>2, <1>3, PTL DEF Hi!Spec

\* AcceptedStays: one request after another, who was accepted by hand or by his offer stays accepted.
THEOREM AcceptedAlwaysStays ==
  ASSUME HiringNames
  PROVE  Hi!Spec => [][Hi!AcceptedStays]_Hi!vars
  <1>1. Hi!Init => HiringInv
    BY HiringInit
  <1>2. HiringInv /\ [Hi!Next]_Hi!vars => HiringInv' /\ Hi!AcceptedStays
    BY HiringNext
  <1> QED BY <1>1, <1>2, PTL DEF Hi!Spec

-----------------------------------------------------------------------------
(* Leaving. *)

-----------------------------------------------------------------------------
(* Up the chain. *)

Chain(boss, e, m, f) ==
  f = [n \in 0..m |-> IF n = 0 THEN e ELSE IF f[n - 1] = Li!Nobody THEN Li!Nobody ELSE boss[f[n - 1]]]

LEMMA ChainExists ==
  ASSUME NEW boss, NEW e, NEW N \in Nat
  PROVE  \E f : Chain(boss, e, N, f)
  <1> DEFINE Bad == {m \in Nat : ~\E f : Chain(boss, e, m, f)}
  <1>1. SUFFICES ASSUME Bad # {} PROVE FALSE
    OBVIOUS
  <1>2. PICK m \in Bad : \A k \in Bad : m <= k
    BY <1>1, LeastExists
  <1>3. CASE m = 0
    <2> DEFINE f == [n \in 0..0 |-> e]
    <2>1. Chain(boss, e, 0, f)
      BY DEF Chain
    <2> QED BY <1>2, <1>3, <2>1
  <1>4. CASE m # 0
    <2>1. m - 1 \in Nat /\ m - 1 \notin Bad
      BY <1>2, <1>4
    <2>2. PICK g : Chain(boss, e, m - 1, g)
      BY <2>1
    <2> DEFINE next == IF g[m - 1] = Li!Nobody THEN Li!Nobody ELSE boss[g[m - 1]]
               f == [n \in 0..m |-> IF n = m THEN next ELSE g[n]]
    <2>3. \A n \in 0..m - 1 : g[n] = IF n = 0 THEN e ELSE IF g[n - 1] = Li!Nobody THEN Li!Nobody ELSE boss[g[n - 1]]
      BY <2>2 DEF Chain
    <2>4. ASSUME NEW n \in 0..m
          PROVE  f[n] = IF n = 0 THEN e ELSE IF f[n - 1] = Li!Nobody THEN Li!Nobody ELSE boss[f[n - 1]]
      <3>1. CASE n = m
        <4>1. m - 1 \in 0..m /\ f[m - 1] = g[m - 1] /\ f[m] = next
          BY <1>4, <2>1
        <4> QED BY <1>4, <3>1, <4>1
      <3>2. CASE n # m
        <4>1. n \in 0..m - 1 /\ f[n] = g[n]
          BY <2>1, <3>2
        <4>2. n # 0 => n - 1 \in 0..m /\ f[n - 1] = g[n - 1]
          BY <4>1
        <4> QED BY <2>3, <4>1, <4>2
      <3> QED BY <3>1, <3>2
    <2>5. DOMAIN f = 0..m /\ f = [n \in 0..m |-> f[n]]
      OBVIOUS
    <2> HIDE DEF f
    <2>6. Chain(boss, e, m, f)
      BY <2>4, <2>5 DEF Chain
    <2> QED BY <1>2, <2>6
  <1> QED BY <1>3, <1>4

LEMMA DetectIs ==
  ASSUME IsFiniteSet(Staff), NEW boss, NEW e
  PROVE  \E f : Chain(boss, e, Cardinality(Staff), f) /\ (Li!detect_cycle(boss, e) <=> f[Cardinality(Staff)] # Li!Nobody)
  <1> DEFINE N == Li!Cardinality(Staff)
             Up == CHOOSE f : Chain(boss, e, N, f)
  <1>1. Li!detect_cycle(boss, e) <=> Up[N] # Li!Nobody
    BY DEF Li!detect_cycle, Chain
  <1>2. N = Cardinality(Staff) /\ N \in Nat
    BY LiCounts, FS_CardinalityType
  <1> HIDE DEF N
  <1>3. \E f : Chain(boss, e, N, f)
    BY <1>2, ChainExists
  <1>4. Chain(boss, e, N, Up)
    BY <1>3
  <1> HIDE DEF Up
  <1>5. Chain(boss, e, N, Up) /\ (Li!detect_cycle(boss, e) <=> Up[N] # Li!Nobody)
    BY <1>1, <1>4
  <1> QED BY <1>2, <1>5

\* A set of employees none of whom leaves it going up.
Closed(boss, S) == S \subseteq Staff /\ S # {} /\ \A x \in S : boss[x] \in S
NoneClosed(boss) == \A S : ~Closed(boss, S)

LEMMA ClosedIsCycle ==
  ASSUME IsFiniteSet(Staff), Li!Nobody \notin Staff, NEW boss, NEW S, Closed(boss, S), NEW e \in S
  PROVE  Li!detect_cycle(boss, e)
  <1> DEFINE N == Cardinality(Staff)
  <1>1. N \in Nat
    BY FS_CardinalityType
  <1>2. PICK f : Chain(boss, e, N, f) /\ (Li!detect_cycle(boss, e) <=> f[N] # Li!Nobody)
    BY DetectIs
  <1> HIDE DEF N
  <1>3. \A n \in 0..N : f[n] = IF n = 0 THEN e ELSE IF f[n - 1] = Li!Nobody THEN Li!Nobody ELSE boss[f[n - 1]]
    BY <1>2 DEF Chain
  <1> DEFINE Bad == {n \in 0..N : f[n] \notin S}
  <1>4. ASSUME Bad # {} PROVE FALSE
    <2>1. Bad \in SUBSET Nat
      OBVIOUS
    <2>2. PICK n \in Bad : \A k \in Bad : n <= k
      BY <1>4, <2>1, LeastExists
    <2>3. n # 0 /\ n \in 0..N
      BY <1>1, <1>3, <2>2
    <2>4. n - 1 \in 0..N /\ n - 1 \notin Bad
      BY <1>1, <2>2, <2>3
    <2>5. f[n - 1] \in S /\ f[n - 1] # Li!Nobody
      BY <2>4 DEF Closed
    <2>6. f[n] = boss[f[n - 1]]
      BY <1>3, <2>3, <2>5
    <2> QED BY <2>2, <2>5, <2>6 DEF Closed
  <1>5. f[N] \in S
    BY <1>1, <1>4
  <1> QED BY <1>2, <1>5 DEF Closed

LEMMA CycleIsClosed ==
  ASSUME IsFiniteSet(Staff), Li!Nobody \notin Staff, NEW boss \in [Staff -> Staff \cup {Li!Nobody}],
         NEW e \in Staff, Li!detect_cycle(boss, e)
  PROVE  \E S : Closed(boss, S)
  <1> DEFINE N == Cardinality(Staff)
  <1>1. N \in Nat
    BY FS_CardinalityType
  <1>2. PICK f : Chain(boss, e, N, f) /\ f[N] # Li!Nobody
    BY DetectIs
  <1>3. \A n \in 0..N : f[n] = IF n = 0 THEN e ELSE IF f[n - 1] = Li!Nobody THEN Li!Nobody ELSE boss[f[n - 1]]
    BY <1>2 DEF Chain
  <1>4. \A n \in 0..N : f[n] \in Staff
    <2> DEFINE Left == {n \in 0..N : f[n] \in Staff}
               Bad == {n \in 0..N : f[n] \notin Staff}
    <2>1. ASSUME Bad # {} PROVE FALSE
      <3>1. Bad \in SUBSET Nat
        OBVIOUS
      <3>2. PICK n \in Bad : \A k \in Bad : n <= k
        BY <2>1, <3>1, LeastExists
      <3>3. n \in 0..N /\ n # 0
        BY <1>1, <1>3, <3>2
      <3>4. n - 1 \in 0..N /\ f[n - 1] \in Staff
        BY <1>1, <3>2, <3>3
      <3>5. f[n] = Li!Nobody
        BY <1>3, <3>2, <3>3, <3>4
      <3> DEFINE Some == {k \in n..N : f[k] # Li!Nobody}
      <3>6. Some \in SUBSET Nat /\ N \in Some
        BY <1>1, <1>2, <3>3
      <3>7. PICK k \in Some : \A j \in Some : k <= j
        BY <3>6, LeastExists
      <3>8. k # n /\ k \in 0..N /\ k # 0
        BY <3>3, <3>5, <3>7
      <3>9. k - 1 \in n..N /\ k - 1 \notin Some
        BY <1>1, <3>3, <3>7, <3>8
      <3>10. f[k - 1] = Li!Nobody
        BY <3>9
      <3>11. f[k] = Li!Nobody
        BY <1>3, <3>8, <3>10
      <3> QED BY <3>7, <3>11
    <2> QED BY <2>1
  <1>5. \E i, j \in 0..N : i < j /\ f[i] = f[j]
    <2>1. f \in [0..N -> Staff]
      BY <1>2, <1>4 DEF Chain
    <2>2. IsFiniteSet(0..N) /\ Cardinality(0..N) = N + 1
      BY <1>1, FS_Interval
    <2>3. Cardinality(Staff) < Cardinality(0..N)
      BY <1>1, <2>2
    <2>4. \E x, y \in 0..N : x # y /\ f[x] = f[y]
      BY <2>1, <2>2, <2>3, FS_PigeonHole
    <2> QED BY <1>1, <2>4
  <1>6. PICK i \in 0..N, j \in 0..N : i < j /\ f[i] = f[j]
    BY <1>5
  <1> DEFINE S == {f[k] : k \in i..j - 1}
  <1>7. f[i] \in S
    BY <1>1, <1>6
  <1>8. ASSUME NEW x \in S
        PROVE  x \in Staff /\ boss[x] \in S
    <2>1. PICK k \in i..j - 1 : x = f[k]
      OBVIOUS
    <2>2. PICK m \in 0..N : m = k + 1 /\ m # 0 /\ k \in 0..N /\ m - 1 = k /\ m \in i..j
      BY <1>1, <1>6, <2>1
    <2>3. f[k] # Li!Nobody /\ x \in Staff
      BY <1>4, <2>1, <2>2
    <2>4. f[m] = boss[x]
      BY <1>3, <2>1, <2>2, <2>3
    <2>5. CASE m = j
      <3>1. f[m] = f[i]
        BY <1>6, <2>5
      <3> QED BY <1>7, <2>3, <2>4, <3>1
    <2>6. CASE m # j
      <3>1. m \in i..j - 1
        BY <1>1, <1>6, <2>2, <2>6
      <3>2. f[m] \in S
        BY <3>1
      <3> QED BY <2>3, <2>4, <3>2
    <2> QED BY <2>3, <2>5, <2>6
  <1> HIDE DEF S
  <1>9. Closed(boss, S)
    BY <1>7, <1>8 DEF Closed
  <1> QED BY <1>9

\* Another manager for one employee makes no cycle that he is not in.
LEMMA OneMoves ==
  ASSUME IsFiniteSet(Staff), Li!Nobody \notin Staff, NEW old, NEW new, NEW e \in Staff, NoneClosed(old),
         \A x \in Staff \ {e} : new[x] = old[x],
         new[e] = Li!Nobody \/ ~Li!detect_cycle(new, e)
  PROVE  NoneClosed(new)
  <1> SUFFICES ASSUME NEW S, Closed(new, S) PROVE FALSE
    BY DEF NoneClosed
  <1>1. CASE e \in S
    <2>1. new[e] # Li!Nobody
      BY <1>1 DEF Closed
    <2> QED BY <1>1, <2>1, ClosedIsCycle
  <1>2. CASE e \notin S
    <2>1. Closed(old, S)
      BY <1>2 DEF Closed
    <2> QED BY <2>1 DEF NoneClosed
  <1> QED BY <1>1, <1>2

\* Nor does one whom nobody reports to.
LEMMA OneJoins ==
  ASSUME NEW old, NEW new, NEW e \in Staff, NoneClosed(old), Li!Nobody \notin Staff,
         \A x \in Staff \ {e} : new[x] = old[x] /\ old[x] # e, new[e] # e
  PROVE  NoneClosed(new)
  <1> SUFFICES ASSUME NEW S, Closed(new, S) PROVE FALSE
    BY DEF NoneClosed
  <1>1. CASE e \in S
    <2>1. new[e] \in S \ {e} /\ \A x \in S \ {e} : old[x] \in S \ {e}
      BY <1>1 DEF Closed
    <2>2. Closed(old, S \ {e})
      BY <2>1 DEF Closed
    <2> QED BY <2>2 DEF NoneClosed
  <1>2. CASE e \notin S
    <2>1. Closed(old, S)
      BY <1>2 DEF Closed
    <2> QED BY <2>1 DEF NoneClosed
  <1> QED BY <1>1, <1>2

-----------------------------------------------------------------------------
(* What holds of the staff. *)

\* "None" is nobody's name, and there are finitely many employees.
StaffNames == IsFiniteSet(Staff) /\ Li!Nobody \notin Staff /\ Overlaps \subseteq BOOLEAN

StaffRows == {Li!NoEmp} \cup Li!EmpRows
DayRows == [Days -> {"None", "Empty", "Punched"}]
ShiftStates == {"None", "Active", "Inactive"}
StaffSnapshots ==
  [emp : [Staff -> StaffRows], shift : [Staff -> ShiftStates], day : [Staff -> DayRows],
   draft : SUBSET (Staff \X Days)]
\* Without overlaps no request reads an older snapshot.
StaffBase ==
  /\ StaffNames /\ emp \in [Staff -> StaffRows] /\ shift \in [Staff -> ShiftStates]
  /\ day \in [Staff -> DayRows] /\ draft \subseteq Staff \X Days
  /\ held \subseteq StaffSnapshots /\ overlap \in BOOLEAN /\ (~overlap => held = {})
Bosses == [x \in Staff |-> emp[x].boss]
Rested(e) == shift[e] = "None" /\ \A d \in Days : day[e][d] = "None"
\* Managers are there, and nobody is above himself.
StaffHold ==
  Li!Serial =>
    /\ NoneClosed(Bosses)
    /\ \A e \in Staff : /\ emp[e].boss # Li!Nobody => emp[emp[e].boss] # Li!NoEmp
                        /\ emp[e].is = "Left" => shift[e] # "Active"
                        /\ emp[e] = Li!NoEmp => Rested(e)
StaffInv == StaffBase /\ StaffHold

LEMMA StaffRowIs ==
  /\ Li!NoEmp.is = "None" /\ Li!NoEmp.boss = Li!Nobody /\ \A x \in Li!EmpRows : x.is \in {"Active", "Left"} /\ x # Li!NoEmp
  /\ \A x \in StaffRows : (x.is = "None" <=> x = Li!NoEmp) /\ x.boss \in Staff \cup {Li!Nobody} /\ (x # Li!NoEmp => x \in Li!EmpRows)
  BY DEF Li!NoEmp, Li!EmpRows, StaffRows

LEMMA StaffView ==
  ASSUME StaffBase, NEW v \in Li!Views
  PROVE  v \in StaffSnapshots /\ (~overlap => v = Li!Now)
  <1>1. Li!Now \in StaffSnapshots
    BY DEF StaffBase, StaffSnapshots, Li!Now
  <1> QED BY <1>1 DEF StaffBase, Li!Views

LEMMA StaffEnds ==
  ASSUME StaffBase, NEW v \in Li!Views, Li!Ends(v)
  PROVE  held' \subseteq StaffSnapshots /\ overlap' = overlap /\ faulty' = faulty /\ (~overlap => held' = {})
  <1>1. Li!Views \subseteq StaffSnapshots
    BY StaffView
  <1> QED BY <1>1 DEF StaffBase, Li!Ends, Li!Views

\* The days and the assignments change, of no employee who is not there.
LEMMA DaysChange ==
  ASSUME StaffInv, NEW v \in Li!Views, Li!Ends(v), UNCHANGED emp, shift' \in [Staff -> ShiftStates],
         day' \in [Staff -> DayRows], draft' \subseteq Staff \X Days,
         Li!Serial => \A e \in Staff : /\ emp[e] = Li!NoEmp /\ Rested(e) => Rested(e)'
                                       /\ shift'[e] = "Active" => shift[e] = "Active" \/ emp[e].is = "Active"
  PROVE  StaffInv'
  <1>1. held' \subseteq StaffSnapshots /\ overlap' = overlap /\ faulty' = faulty /\ (~overlap => held' = {})
    BY StaffEnds DEF StaffInv
  <1>2. StaffBase'
    BY <1>1 DEF StaffInv, StaffBase, StaffNames
  <1>3. Bosses' = Bosses /\ Li!Serial' = Li!Serial
    BY <1>1 DEF Bosses, Li!Serial
  <1>4. StaffHold'
    BY <1>3 DEF StaffInv, StaffHold
  <1> QED BY <1>2, <1>4 DEF StaffInv

\* One employee is written.
LEMMA EmployeeChanges ==
  ASSUME StaffInv, NEW v \in Li!Views, Li!Ends(v), NEW e \in Staff, NEW x \in StaffRows, emp' = [emp EXCEPT ![e] = x],
         shift' \in [Staff -> ShiftStates], day' \in [Staff -> DayRows], draft' \subseteq Staff \X Days,
         \A y \in Staff \ {e} : shift'[y] = shift[y] /\ day'[y] = day[y],
         Li!Serial => /\ NoneClosed([y \in Staff |-> IF y = e THEN x.boss ELSE emp[y].boss])
                      /\ x.boss # Li!Nobody => x.boss # e /\ emp[x.boss] # Li!NoEmp
                      /\ x = Li!NoEmp => Rested(e)' /\ \A y \in Staff : emp[y].boss # e
                      /\ x.is = "Left" => shift'[e] # "Active"
  PROVE  StaffInv'
  <1>1. held' \subseteq StaffSnapshots /\ overlap' = overlap /\ faulty' = faulty /\ (~overlap => held' = {})
    BY StaffEnds DEF StaffInv
  <1>2. emp' \in [Staff -> StaffRows] /\ emp'[e] = x /\ \A y \in Staff \ {e} : emp'[y] = emp[y]
    BY DEF StaffInv, StaffBase
  <1>3. StaffBase'
    BY <1>1, <1>2 DEF StaffInv, StaffBase, StaffNames
  <1>4. Bosses' = [y \in Staff |-> IF y = e THEN x.boss ELSE emp[y].boss] /\ Li!Serial' = Li!Serial
    BY <1>1, <1>2 DEF Bosses, Li!Serial
  <1>5. ASSUME Li!Serial, NEW y \in Staff
        PROVE  /\ emp'[y].boss # Li!Nobody => emp'[emp'[y].boss] # Li!NoEmp
               /\ emp'[y].is = "Left" => shift'[y] # "Active"
               /\ emp'[y] = Li!NoEmp => Rested(y)'
    <2>1. CASE y = e
      <3>1. x.boss # Li!Nobody => x.boss \in Staff \ {e}
        BY <1>5, StaffRowIs
      <3>2. x.boss # Li!Nobody => emp'[x.boss] = emp[x.boss]
        BY <1>2, <3>1
      <3> QED BY <1>2, <1>5, <2>1, <3>2
    <2>2. CASE y # e
      <3>1. emp'[y] = emp[y] /\ shift'[y] = shift[y] /\ day'[y] = day[y]
        BY <1>2, <2>2
      <3>2. emp[y] = Li!NoEmp => Rested(y)'
        BY <1>5, <3>1 DEF StaffInv, StaffHold, Rested
      <3>3. emp[y].boss # Li!Nobody => emp'[emp[y].boss] # Li!NoEmp
        <4>1. ASSUME emp[y].boss # Li!Nobody
              PROVE  emp[y].boss \in Staff /\ emp[emp[y].boss] # Li!NoEmp
          BY <1>5, <4>1, StaffRowIs DEF StaffInv, StaffHold, StaffBase
        <4> QED BY <1>2, <1>5, <4>1
      <3>4. emp[y].is = "Left" => shift[y] # "Active"
        BY <1>5 DEF StaffInv, StaffHold
      <3> QED BY <3>1, <3>2, <3>3, <3>4
    <2> QED BY <2>1, <2>2
  <1>6. StaffHold'
    BY <1>4, <1>5 DEF StaffHold
  <1> QED BY <1>3, <1>6 DEF StaffInv

-----------------------------------------------------------------------------
(* One request at a time. *)

LEMMA LeavingIs ==
  ASSUME StaffInv, NEW v \in Li!Views, NEW e \in Staff, NEW end, Li!handle_employee_status_change(v, e, end)
  PROVE  /\ shift' \in [Staff -> ShiftStates] /\ day' \in [Staff -> DayRows] /\ draft' \subseteq Staff \X Days
         /\ \A y \in Staff \ {e} : shift'[y] = shift[y] /\ day'[y] = day[y]
         /\ Li!Serial => /\ shift'[e] # "Active"
                         /\ \A d \in Days : /\ day[e][d] = "Punched" =>
                                                 day'[e][d] = "Punched" /\ (<<e, d>> \in draft => <<e, d>> \in draft')
                                            /\ d > end => day'[e][d] # "Empty" /\ (<<e, d>> \in draft' => day'[e][d] = "Punched")
                         /\ \A y \in Staff \ {e}, d \in Days : <<y, d>> \in draft => <<y, d>> \in draft'
  <1> DEFINE drafts == {d \in Days : d > end /\ <<e, d>> \in v.draft} \ Li!Kept(v, e, end)
             days == Li!Dropped(v, e, end)
             ended == [shift EXCEPT ![e] = IF v.shift[e] = "Active" THEN "Inactive" ELSE @]
             Drops(ds, es) == Li!_drop_shift_data_after(v, e, end, ds, es)
  <1>1. \/ shift' = ended /\ Drops(drafts, days)
        \/ /\ faulty /\ shift' \in {shift, ended}
           /\ \/ \E some \in SUBSET drafts : Drops(some, {})
              \/ \E some \in SUBSET days : Drops(drafts, some)
    BY DEF Li!handle_employee_status_change
  <1>2. ended \in [Staff -> ShiftStates] /\ shift \in [Staff -> ShiftStates]
        /\ \A y \in Staff \ {e} : ended[y] = shift[y]
    BY DEF StaffInv, StaffBase, ShiftStates
  <1>3. drafts \subseteq Days /\ days \subseteq Days
    BY DEF Li!Dropped
  <1>4. ASSUME NEW ds \in SUBSET Days, NEW es \in SUBSET Days, Drops(ds, es)
        PROVE  /\ day' \in [Staff -> DayRows] /\ draft' = draft \ {<<e, d>> : d \in ds}
               /\ \A y \in Staff \ {e} : day'[y] = day[y]
               /\ \A d \in Days : day'[e][d] = IF d \in es THEN "None" ELSE day[e][d]
    <2> DEFINE row == [d \in Days |-> IF d \in es THEN "None" ELSE day[e][d]]
    <2>1. row \in DayRows
      BY DEF DayRows, StaffInv, StaffBase
    <2>2. day' = [day EXCEPT ![e] = row] /\ draft' = draft \ {<<e, d>> : d \in ds}
      BY <1>4 DEF Li!_drop_shift_data_after
    <2>3. \A d \in Days : row[d] = IF d \in es THEN "None" ELSE day[e][d]
      OBVIOUS
    <2> HIDE DEF row
    <2> QED BY <2>1, <2>2, <2>3 DEF StaffInv, StaffBase
  <1>5. PICK ds \in SUBSET Days, es \in SUBSET Days :
          Drops(ds, es) /\ shift' \in {shift, ended} /\ (~faulty => shift' = ended /\ ds = drafts /\ es = days)
    <2>1. {} \in SUBSET Days
      OBVIOUS
    <2> HIDE DEF drafts, days, ended, Drops
    <2>2. CASE shift' = ended /\ Drops(drafts, days)
      BY <1>3, <2>2
    <2>3. CASE faulty /\ shift' \in {shift, ended} /\ \E some \in SUBSET drafts : Drops(some, {})
      BY <1>3, <2>1, <2>3
    <2>4. CASE faulty /\ shift' \in {shift, ended} /\ \E some \in SUBSET days : Drops(drafts, some)
      BY <1>3, <2>4
    <2> QED BY <1>1, <2>2, <2>3, <2>4
  <1>6. /\ day' \in [Staff -> DayRows] /\ draft' = draft \ {<<e, d>> : d \in ds}
        /\ \A y \in Staff \ {e} : day'[y] = day[y]
        /\ \A d \in Days : day'[e][d] = IF d \in es THEN "None" ELSE day[e][d]
    BY <1>4, <1>5
  <1>7. draft' \subseteq Staff \X Days /\ \A y \in Staff \ {e}, d \in Days : <<y, d>> \in draft => <<y, d>> \in draft'
    BY <1>6 DEF StaffInv, StaffBase
  <1>8. ASSUME Li!Serial
        PROVE  /\ shift'[e] # "Active"
               /\ \A d \in Days : /\ day[e][d] = "Punched" =>
                                       day'[e][d] = "Punched" /\ (<<e, d>> \in draft => <<e, d>> \in draft')
                                  /\ d > end => day'[e][d] # "Empty" /\ (<<e, d>> \in draft' => day'[e][d] = "Punched")
    <2>1. v = Li!Now /\ shift' = ended /\ ds = drafts /\ es = days
      BY <1>5, <1>8, StaffView DEF Li!Serial, StaffInv
    <2>2. v.shift = shift /\ v.day = day /\ v.draft = draft
      BY <2>1 DEF Li!Now
    <2>3. ended[e] # "Active"
      BY <1>2, <2>2 DEF StaffInv, StaffBase
    <2>4. \A d \in Days : d \in es <=> d > end /\ day[e][d] = "Empty"
      BY <2>1, <2>2 DEF Li!Dropped
    <2>5. \A d \in Days : d \in ds <=> d > end /\ <<e, d>> \in draft /\ day[e][d] # "Punched"
      BY <2>1, <2>2 DEF Li!Kept
    <2>6. \A d \in Days : day[e][d] \in {"None", "Empty", "Punched"}
      BY DEF StaffInv, StaffBase, DayRows
    <2>7. \A d \in Days : <<e, d>> \in draft' <=> <<e, d>> \in draft /\ d \notin ds
      BY <1>6
    <2> QED BY <1>6, <2>1, <2>3, <2>4, <2>5, <2>6, <2>7
  <1>9. shift' \in [Staff -> ShiftStates] /\ \A y \in Staff \ {e} : shift'[y] = shift[y]
    BY <1>2, <1>5
  <1> QED BY <1>6, <1>7, <1>8, <1>9

LEMMA SavesKeeps ==
  ASSUME StaffInv, NEW v \in Li!Views, NEW e \in Staff, NEW x \in Li!EmpRows, Li!Saves(v, e, x)
  PROVE  StaffInv'
  <1>1. /\ v.emp[e] = emp[e] /\ emp[e].is # "None" /\ ~Li!guard_reports_to_cycle(v, e, x.boss)
        /\ x.boss # Li!Nobody => v.emp[x.boss].is # "None"
        /\ emp' = [emp EXCEPT ![e] = x] /\ Li!Ends(v)
    BY DEF Li!Saves
  <1>2. x \in StaffRows /\ x # Li!NoEmp /\ x.is \in {"Active", "Left"} /\ x.boss \in Staff \cup {Li!Nobody}
    BY StaffRowIs DEF StaffRows
  <1>3. /\ shift' \in [Staff -> ShiftStates] /\ day' \in [Staff -> DayRows] /\ draft' \subseteq Staff \X Days
        /\ \A y \in Staff \ {e} : shift'[y] = shift[y] /\ day'[y] = day[y]
        /\ Li!Serial /\ x.is = "Left" => shift'[e] # "Active"
    <2>1. CASE x.is = "Left" /\ emp[e].is # "Left"
      <3>1. Li!handle_employee_status_change(v, e, x.last)
        BY <2>1 DEF Li!Saves
      <3> QED BY <3>1, LeavingIs
    <2>2. CASE ~(x.is = "Left" /\ emp[e].is # "Left")
      <3>1. Li!Unmoved
        BY <2>2 DEF Li!Saves
      <3> QED BY <2>2, <3>1 DEF Li!Unmoved, StaffInv, StaffBase, StaffHold
    <2> QED BY <2>1, <2>2
  <1>4. ASSUME Li!Serial
        PROVE  /\ NoneClosed([y \in Staff |-> IF y = e THEN x.boss ELSE emp[y].boss])
               /\ x.boss # Li!Nobody => x.boss # e /\ emp[x.boss] # Li!NoEmp
    <2>1. v.emp = emp
      BY <1>4, StaffView DEF Li!Serial, StaffInv, Li!Now
    <2> DEFINE new == [y \in Staff |-> IF y = e THEN x.boss ELSE emp[y].boss]
    <2>2. x.boss # Li!Nobody => x.boss # e /\ ~Li!detect_cycle(new, e)
      BY <1>1, <2>1 DEF Li!guard_reports_to_cycle
    <2>3. NoneClosed(Bosses)
      BY <1>4 DEF StaffInv, StaffHold
    <2>4. new[e] = x.boss /\ \A y \in Staff \ {e} : new[y] = Bosses[y]
      BY DEF Bosses
    <2>5. StaffNames
      BY DEF StaffInv, StaffBase
    <2> HIDE DEF new
    <2>6. NoneClosed(new)
      BY <2>2, <2>3, <2>4, <2>5, OneMoves DEF StaffNames
    <2>7. x.boss # Li!Nobody => emp[x.boss] # Li!NoEmp
      BY <1>1, <2>1, StaffRowIs
    <2> QED BY <2>2, <2>6, <2>7 DEF new
  <1> QED BY <1>1, <1>2, <1>3, <1>4, EmployeeChanges

\* What is saved of the employee who was read.
LEMMA SavedIs ==
  ASSUME StaffInv, NEW v \in Li!Views, NEW e \in Staff, v.emp[e] = emp[e], emp[e].is # "None"
  PROVE  /\ v.emp[e] \in Li!EmpRows
         /\ \A d \in Days : [v.emp[e] EXCEPT !.is = "Left", !.last = d] \in Li!EmpRows
         /\ \A clear \in BOOLEAN : [v.emp[e] EXCEPT !.is = "Active", !.last = IF clear THEN Li!NoDay ELSE @] \in Li!EmpRows
         /\ \A boss \in Staff \cup {Li!Nobody} : [v.emp[e] EXCEPT !.boss = boss] \in Li!EmpRows
  <1>1. v.emp[e] \in Li!EmpRows
    BY StaffRowIs DEF StaffInv, StaffBase
  <1> QED BY <1>1 DEF Li!EmpRows

\* The saves, whatever they write.
Saved(v, e) == \E x \in Li!EmpRows : Li!Saves(v, e, x)
LEMMA AllSaves ==
  ASSUME StaffInv, NEW v \in Li!Views, NEW e \in Staff,
         \/ \E x \in Li!EmpRows : Li!save_employee(v, e, x)
         \/ \E d \in Days : Li!offboard_employee(v, e, d)
         \/ \E clear \in BOOLEAN : Li!reactivate_employee(v, e, clear)
         \/ \E boss \in Staff \cup {Li!Nobody} : Li!create_transfer(v, e, boss)
  PROVE  Saved(v, e)
  <1>1. CASE \E x \in Li!EmpRows : Li!save_employee(v, e, x)
    BY <1>1 DEF Li!save_employee, Saved
  <1>2. CASE \E d \in Days : Li!offboard_employee(v, e, d)
    <2>1. PICK d \in Days : Li!offboard_employee(v, e, d)
      BY <1>2
    <2> DEFINE x == [v.emp[e] EXCEPT !.is = "Left", !.last = d]
    <2>2. Li!Saves(v, e, x) /\ v.emp[e] = emp[e] /\ emp[e].is # "None"
      BY <2>1 DEF Li!offboard_employee, Li!Saves
    <2>3. x \in Li!EmpRows
      BY <2>2, SavedIs
    <2> QED BY <2>2, <2>3 DEF Saved
  <1>3. CASE \E clear \in BOOLEAN : Li!reactivate_employee(v, e, clear)
    <2>1. PICK clear \in BOOLEAN : Li!reactivate_employee(v, e, clear)
      BY <1>3
    <2> DEFINE x == [v.emp[e] EXCEPT !.is = "Active", !.last = IF clear THEN Li!NoDay ELSE @]
    <2>2. Li!Saves(v, e, x) /\ v.emp[e] = emp[e] /\ emp[e].is # "None"
      BY <2>1 DEF Li!reactivate_employee, Li!Saves
    <2>3. x \in Li!EmpRows
      BY <2>2, SavedIs
    <2> QED BY <2>2, <2>3 DEF Saved
  <1>4. CASE \E boss \in Staff \cup {Li!Nobody} : Li!create_transfer(v, e, boss)
    <2>1. PICK boss \in Staff \cup {Li!Nobody} : Li!create_transfer(v, e, boss)
      BY <1>4
    <2> DEFINE x == [v.emp[e] EXCEPT !.boss = boss]
    <2>2. Li!Saves(v, e, x) /\ v.emp[e] = emp[e] /\ emp[e].is # "None"
      BY <2>1 DEF Li!create_transfer, Li!Saves
    <2>3. x \in Li!EmpRows
      BY <2>2, SavedIs
    <2> QED BY <2>2, <2>3 DEF Saved
  <1> QED BY <1>1, <1>2, <1>3, <1>4

LEMMA DeletesKeep ==
  ASSUME StaffInv, NEW v \in Li!Views, NEW e \in Staff, Li!delete_employee(v, e)
  PROVE  StaffInv'
  <1>1. /\ ~Li!guard_employee_delete(v, e) /\ (\A x \in Staff : v.emp[x].boss # e)
        /\ emp' = [emp EXCEPT ![e] = Li!NoEmp] /\ UNCHANGED <<shift, day, draft>> /\ Li!Ends(v)
    BY DEF Li!delete_employee, Li!Unmoved
  <1>2. Li!NoEmp \in StaffRows /\ Li!NoEmp.boss = Li!Nobody /\ Li!NoEmp.is = "None"
    BY StaffRowIs DEF StaffRows
  <1>3. ASSUME Li!Serial
        PROVE  /\ NoneClosed([y \in Staff |-> IF y = e THEN Li!NoEmp.boss ELSE emp[y].boss])
               /\ Rested(e)' /\ \A y \in Staff : emp[y].boss # e
    <2>1. v = Li!Now
      BY <1>3, StaffView DEF Li!Serial, StaffInv
    <2>2. v.emp = emp /\ v.shift = shift /\ v.day = day
      BY <2>1 DEF Li!Now
    <2> DEFINE new == [y \in Staff |-> IF y = e THEN Li!NoEmp.boss ELSE emp[y].boss]
    <2>3. NoneClosed(Bosses) /\ StaffNames
      BY <1>3 DEF StaffInv, StaffHold, StaffBase
    <2>4. new[e] = Li!Nobody /\ \A y \in Staff \ {e} : new[y] = Bosses[y]
      BY <1>2 DEF Bosses
    <2> HIDE DEF new
    <2>5. NoneClosed(new)
      BY <2>3, <2>4, OneMoves DEF StaffNames
    <2>6. Rested(e)'
      BY <1>1, <2>2 DEF Li!guard_employee_delete, Rested
    <2> QED BY <1>1, <2>2, <2>5, <2>6 DEF new
  <1>4. /\ shift' \in [Staff -> ShiftStates] /\ day' \in [Staff -> DayRows] /\ draft' \subseteq Staff \X Days
        /\ \A y \in Staff \ {e} : shift'[y] = shift[y] /\ day'[y] = day[y]
    BY <1>1 DEF StaffInv, StaffBase
  <1> QED BY <1>1, <1>2, <1>3, <1>4, EmployeeChanges

LEMMA JoinsKeeps ==
  ASSUME StaffInv, NEW v \in Li!Views, NEW e \in Staff, NEW boss \in Staff \cup {Li!Nobody}, Li!Joins(v, e, boss)
  PROVE  StaffInv'
  <1> DEFINE x == [Li!NoEmp EXCEPT !.is = "Active", !.boss = boss]
  <1>1. /\ emp[e] = Li!NoEmp /\ boss # e /\ (boss # Li!Nobody => v.emp[boss].is = "Active")
        /\ emp' = [emp EXCEPT ![e] = x] /\ UNCHANGED <<shift, day, draft>> /\ Li!Ends(v)
    BY DEF Li!Joins, Li!Unmoved
  <1>2. x \in Li!EmpRows /\ x.is = "Active" /\ x.boss = boss
    BY DEF Li!EmpRows, Li!NoEmp
  <1> HIDE DEF x
  <1>3. x \in StaffRows /\ x # Li!NoEmp
    BY <1>2, StaffRowIs DEF StaffRows
  <1>4. ASSUME Li!Serial
        PROVE  /\ NoneClosed([y \in Staff |-> IF y = e THEN x.boss ELSE emp[y].boss])
               /\ x.boss # Li!Nobody => x.boss # e /\ emp[x.boss] # Li!NoEmp
    <2>1. v.emp = emp
      BY <1>4, StaffView DEF Li!Serial, StaffInv, Li!Now
    <2> DEFINE new == [y \in Staff |-> IF y = e THEN x.boss ELSE emp[y].boss]
    <2>2. NoneClosed(Bosses) /\ StaffNames
      BY <1>4 DEF StaffInv, StaffHold, StaffBase
    <2>3. ASSUME NEW y \in Staff
          PROVE  emp[y].boss # e
      <3>1. emp[y].boss # Li!Nobody => emp[emp[y].boss] # Li!NoEmp
        BY <1>4 DEF StaffInv, StaffHold
      <3> QED BY <1>1, <2>2, <3>1 DEF StaffNames
    <2>4. new[e] # e /\ \A y \in Staff \ {e} : new[y] = Bosses[y] /\ Bosses[y] # e
      BY <1>1, <1>2, <2>3 DEF Bosses
    <2> HIDE DEF new
    <2>5. NoneClosed(new)
      BY <2>2, <2>4, OneJoins DEF StaffNames
    <2>6. boss # Li!Nobody => emp[boss] # Li!NoEmp
      BY <1>1, <2>1, StaffRowIs
    <2> QED BY <1>1, <1>2, <2>5, <2>6 DEF new
  <1>5. /\ shift' \in [Staff -> ShiftStates] /\ day' \in [Staff -> DayRows] /\ draft' \subseteq Staff \X Days
        /\ \A y \in Staff \ {e} : shift'[y] = shift[y] /\ day'[y] = day[y]
    BY <1>1 DEF StaffInv, StaffBase
  <1> QED BY <1>1, <1>2, <1>3, <1>4, <1>5, EmployeeChanges

LEMMA MaterialiseSteps ==
  ASSUME StaffInv, NEW v \in Li!Views, Li!_materialise_shift_instances(v)
  PROVE  StaffInv' /\ UNCHANGED emp /\ draft \subseteq draft'
         /\ \A y \in Staff, f \in Days : day[y][f] = "Punched" => day'[y][f] = "Punched"
  <1>0. /\ shift \in [Staff -> ShiftStates] /\ day \in [Staff -> DayRows] /\ draft \subseteq Staff \X Days
        /\ Li!Serial => v.emp = emp /\ v.shift = shift /\ v.day = day
    BY StaffView DEF StaffInv, StaffBase, Li!Serial, Li!Now
  <1> DEFINE cell(y, f) == IF v.shift[y] = "Active" /\ v.day[y][f] = "None" /\ day[y][f] = "None" THEN "Empty" ELSE day[y][f]
  <1>1. day' = [y \in Staff |-> [f \in Days |-> cell(y, f)]] /\ UNCHANGED <<emp, shift, draft>> /\ Li!Ends(v)
    BY DEF Li!_materialise_shift_instances
  <1>2. \A y \in Staff, f \in Days : cell(y, f) \in {"None", "Empty", "Punched"}
    BY <1>0 DEF DayRows
  <1>3. ASSUME Li!Serial, NEW y \in Staff
        PROVE  emp[y] = Li!NoEmp /\ Rested(y) => Rested(y)'
    BY <1>0, <1>1, <1>3 DEF Rested
  <1>4. \A y \in Staff, f \in Days : day[y][f] = "Punched" => day'[y][f] = "Punched"
    BY <1>1
  <1> HIDE DEF cell
  <1>5. day' \in [Staff -> DayRows]
    BY <1>1, <1>2 DEF DayRows
  <1>6. StaffInv'
    BY <1>0, <1>1, <1>3, <1>5, DaysChange
  <1> QED BY <1>1, <1>4, <1>6

LEMMA DaySteps ==
  ASSUME StaffInv, NEW v \in Li!Views, NEW e \in Staff, NEW d \in Days,
         Li!create_checkin(v, e, d) \/ Li!sync_attendance(v, e, d)
  PROVE  StaffInv' /\ UNCHANGED emp /\ draft \subseteq draft'
         /\ \A y \in Staff, f \in Days : day[y][f] = "Punched" => day'[y][f] = "Punched"
  <1>0. /\ shift \in [Staff -> ShiftStates] /\ day \in [Staff -> DayRows] /\ draft \subseteq Staff \X Days
        /\ Li!Serial => v.emp = emp /\ v.shift = shift /\ v.day = day
    BY StaffView DEF StaffInv, StaffBase, Li!Serial, Li!Now
  <1>1. CASE Li!create_checkin(v, e, d)
    <2>1. /\ v.emp[e].is = "Active" /\ day' = [day EXCEPT ![e] = [day[e] EXCEPT ![d] = "Punched"]]
          /\ UNCHANGED <<emp, shift, draft>> /\ Li!Ends(v)
      BY <1>1 DEF Li!create_checkin
    <2>2. [day[e] EXCEPT ![d] = "Punched"] \in DayRows
      BY <1>0 DEF DayRows
    <2>3. day' \in [Staff -> DayRows] /\ \A y \in Staff \ {e} : day'[y] = day[y]
      BY <1>0, <2>1, <2>2
    <2>4. \A y \in Staff, f \in Days : day[y][f] = "Punched" => day'[y][f] = "Punched"
      <3>1. day'[e] = [day[e] EXCEPT ![d] = "Punched"]
        BY <1>0, <2>1
      <3> QED BY <1>0, <2>3, <3>1 DEF DayRows
    <2>5. ASSUME Li!Serial, NEW y \in Staff
          PROVE  emp[y] = Li!NoEmp /\ Rested(y) => Rested(y)'
      <3>1. emp[e] # Li!NoEmp
        BY <1>0, <2>1, <2>5, StaffRowIs
      <3> QED BY <2>1, <2>3, <3>1 DEF Rested
    <2>6. StaffInv'
      BY <1>0, <2>1, <2>3, <2>5, DaysChange
    <2> QED BY <2>1, <2>4, <2>6
  <1>2. CASE Li!sync_attendance(v, e, d)
    <2>1. draft' = draft \cup {<<e, d>>} /\ UNCHANGED <<emp, shift, day>> /\ Li!Ends(v)
      BY <1>2 DEF Li!sync_attendance
    <2>2. \A y \in Staff : Rested(y) => Rested(y)'
      BY <2>1 DEF Rested
    <2>3. StaffInv'
      BY <1>0, <2>1, <2>2, DaysChange
    <2> QED BY <2>1, <2>3
  <1> QED BY <1>1, <1>2

-----------------------------------------------------------------------------
LEMMA StaffInit ==
  ASSUME StaffNames, Li!Init
  PROVE  StaffInv
  <1>1. Li!NoEmp \in StaffRows /\ Li!NoEmp.boss = Li!Nobody /\ Li!NoEmp.is = "None"
    BY StaffRowIs DEF StaffRows
  <1>2. StaffBase
    BY <1>1 DEF Li!Init, StaffBase, StaffNames, ShiftStates, DayRows
  <1>3. NoneClosed(Bosses)
    <2>1. \A x \in Staff : Bosses[x] = Li!Nobody
      BY <1>1 DEF Bosses, Li!Init
    <2> QED BY <2>1 DEF NoneClosed, Closed, StaffNames
  <1>4. StaffHold
    BY <1>1, <1>3 DEF Li!Init, StaffHold, Rested
  <1> QED BY <1>2, <1>4 DEF StaffInv

LEMMA StaffRests ==
  ASSUME StaffInv, UNCHANGED <<emp, shift, day, draft, overlap, faulty>>, held' = held \/ (overlap /\ held' = {Li!Now})
  PROVE  StaffInv'
  <1>1. Li!Now \in StaffSnapshots
    BY DEF StaffInv, StaffBase, StaffSnapshots, Li!Now
  <1>2. StaffBase'
    BY <1>1 DEF StaffInv, StaffBase, StaffNames
  <1>3. Bosses' = Bosses /\ Li!Serial' = Li!Serial
    BY DEF Bosses, Li!Serial
  <1>4. StaffHold'
    BY <1>3 DEF StaffInv, StaffHold, Rested
  <1> QED BY <1>2, <1>4 DEF StaffInv

\* What a request does.
LEMMA StaffRequests ==
  ASSUME StaffInv, Li!Next
  PROVE  \/ Li!Hold
         \/ \E v \in Li!Views : \/ Li!_materialise_shift_instances(v)
                                \/ \E e \in Staff : \/ Saved(v, e) \/ Li!delete_employee(v, e)
                                                    \/ \E boss \in Staff \cup {Li!Nobody} : Li!Joins(v, e, boss)
                                                    \/ Li!create_shift_assignment(v, e)
                                                    \/ \E d \in Days : Li!create_checkin(v, e, d) \/ Li!sync_attendance(v, e, d)
  <1> USE DEF Li!Next
  <1>1. ASSUME NEW v \in Li!Views, NEW e \in Staff,
               \/ \E x \in Li!EmpRows : Li!save_employee(v, e, x)
               \/ \E d \in Days : Li!offboard_employee(v, e, d) \/ Li!create_checkin(v, e, d) \/ Li!sync_attendance(v, e, d)
               \/ \E clear \in BOOLEAN : Li!reactivate_employee(v, e, clear)
               \/ \E boss \in Staff \cup {Li!Nobody} : Li!create_transfer(v, e, boss) \/ Li!Joins(v, e, boss)
               \/ Li!delete_employee(v, e) \/ Li!create_shift_assignment(v, e)
        PROVE  \/ Saved(v, e) \/ Li!delete_employee(v, e)
               \/ \E boss \in Staff \cup {Li!Nobody} : Li!Joins(v, e, boss)
               \/ Li!create_shift_assignment(v, e)
               \/ \E d \in Days : Li!create_checkin(v, e, d) \/ Li!sync_attendance(v, e, d)
    BY <1>1, AllSaves
  <1> QED BY <1>1

LEMMA AssignmentSteps ==
  ASSUME StaffInv, NEW v \in Li!Views, NEW e \in Staff, Li!create_shift_assignment(v, e)
  PROVE  StaffInv' /\ UNCHANGED <<emp, day, draft>>
  <1>1. v.emp[e].is = "Active" /\ shift' = [shift EXCEPT ![e] = "Active"] /\ UNCHANGED <<emp, day, draft>> /\ Li!Ends(v)
    BY DEF Li!create_shift_assignment
  <1>2. shift' \in [Staff -> ShiftStates] /\ shift'[e] = "Active" /\ \A y \in Staff \ {e} : shift'[y] = shift[y]
    BY <1>1 DEF ShiftStates, StaffInv, StaffBase
  <1>3. ASSUME Li!Serial, NEW y \in Staff
        PROVE  /\ emp[y] = Li!NoEmp /\ Rested(y) => Rested(y)'
               /\ shift'[y] = "Active" => shift[y] = "Active" \/ emp[y].is = "Active"
    <2>0. v.emp = emp
      BY <1>3, StaffView DEF StaffInv, Li!Serial, Li!Now
    <2>1. emp[e] # Li!NoEmp
      BY <1>1, <1>3, <2>0, StaffRowIs
    <2> QED BY <1>1, <1>2, <2>0, <2>1 DEF Rested
  <1>4. StaffInv'
    BY <1>1, <1>2, <1>3, DaysChange DEF StaffInv, StaffBase
  <1> QED BY <1>1, <1>4

LEMMA StaffSteps ==
  ASSUME StaffInv, [Li!Next]_Li!vars
  PROVE  StaffInv'
  <1>1. CASE Li!Hold
    BY <1>1, StaffRests DEF Li!Hold
  <1>2. CASE UNCHANGED Li!vars
    BY <1>2, StaffRests DEF Li!vars
  <1>3. ASSUME NEW v \in Li!Views, Li!_materialise_shift_instances(v)
        PROVE  StaffInv'
    BY <1>3, MaterialiseSteps
  <1>4. ASSUME NEW v \in Li!Views, NEW e \in Staff,
               \/ Saved(v, e) \/ Li!delete_employee(v, e)
               \/ \E boss \in Staff \cup {Li!Nobody} : Li!Joins(v, e, boss)
               \/ Li!create_shift_assignment(v, e)
               \/ \E d \in Days : Li!create_checkin(v, e, d) \/ Li!sync_attendance(v, e, d)
        PROVE  StaffInv'
    BY <1>4, SavesKeeps, DeletesKeep, JoinsKeeps, AssignmentSteps, DaySteps DEF Saved
  <1> QED BY <1>1, <1>2, <1>3, <1>4, StaffRequests

\* A punched day stays, and a leaving takes the others.
LEMMA DayStaysAlways ==
  ASSUME StaffInv, [Li!Next]_Li!vars
  PROVE  Li!DayStays \/ UNCHANGED Li!vars
  <1>0. day \in [Staff -> DayRows] /\ emp \in [Staff -> StaffRows]
    BY DEF StaffInv, StaffBase
  <1>1. CASE Li!Hold
    BY <1>1 DEF Li!Hold, Li!DayStays
  <1>2. ASSUME UNCHANGED emp, draft \subseteq draft',
               \A y \in Staff, f \in Days : day[y][f] = "Punched" => day'[y][f] = "Punched"
        PROVE  Li!DayStays
    BY <1>2 DEF Li!DayStays
  <1>3. ASSUME NEW v \in Li!Views, Li!_materialise_shift_instances(v)
        PROVE  Li!DayStays
    BY <1>2, <1>3, MaterialiseSteps
  <1>4. ASSUME NEW v \in Li!Views, NEW e \in Staff, Li!create_shift_assignment(v, e)
        PROVE  Li!DayStays
    BY <1>2, <1>4, AssignmentSteps
  <1>5. ASSUME NEW v \in Li!Views, NEW e \in Staff, NEW d \in Days, Li!create_checkin(v, e, d) \/ Li!sync_attendance(v, e, d)
        PROVE  Li!DayStays
    BY <1>2, <1>5, DaySteps
  <1>6. ASSUME UNCHANGED <<day, draft>>, \A e \in Staff : ~(emp[e].is = "Active" /\ emp'[e].is = "Left")
        PROVE  Li!DayStays
    BY <1>6 DEF Li!DayStays
  <1>7. ASSUME NEW v \in Li!Views, NEW e \in Staff, Li!delete_employee(v, e)
        PROVE  Li!DayStays
    <2>1. UNCHANGED <<day, draft>> /\ emp' = [emp EXCEPT ![e] = Li!NoEmp] /\ Li!NoEmp.is = "None"
      BY <1>7, StaffRowIs DEF Li!delete_employee, Li!Unmoved
    <2> QED BY <1>0, <1>6, <2>1
  <1>8. ASSUME NEW v \in Li!Views, NEW e \in Staff, NEW boss \in Staff \cup {Li!Nobody}, Li!Joins(v, e, boss)
        PROVE  Li!DayStays
    <2>1. UNCHANGED <<day, draft>> /\ emp' = [emp EXCEPT ![e] = [Li!NoEmp EXCEPT !.is = "Active", !.boss = boss]]
      BY <1>8 DEF Li!Joins, Li!Unmoved
    <2>2. [Li!NoEmp EXCEPT !.is = "Active", !.boss = boss].is = "Active"
      BY DEF Li!NoEmp
    <2> QED BY <1>0, <1>6, <2>1, <2>2
  <1>9. ASSUME NEW v \in Li!Views, NEW e \in Staff, NEW x \in Li!EmpRows, Li!Saves(v, e, x)
        PROVE  Li!DayStays
    <2>1. emp' = [emp EXCEPT ![e] = x]
      BY <1>9 DEF Li!Saves
    <2>2. emp'[e] = x /\ \A y \in Staff \ {e} : emp'[y] = emp[y]
      BY <1>0, <2>1
    <2>3. CASE x.is = "Left" /\ emp[e].is # "Left"
      <3>1. Li!handle_employee_status_change(v, e, x.last)
        BY <1>9, <2>3 DEF Li!Saves
      <3>2. /\ \A y \in Staff \ {e} : day'[y] = day[y]
            /\ Li!Serial => /\ \A d \in Days : /\ day[e][d] = "Punched" =>
                                                    day'[e][d] = "Punched" /\ (<<e, d>> \in draft => <<e, d>> \in draft')
                                               /\ d > x.last => day'[e][d] # "Empty" /\ (<<e, d>> \in draft' => day'[e][d] = "Punched")
                            /\ \A y \in Staff \ {e}, d \in Days : <<y, d>> \in draft => <<y, d>> \in draft'
        BY <3>1, LeavingIs
      <3>3. ASSUME Li!Serial, NEW y \in Staff
            PROVE  /\ \A d \in Days : day[y][d] = "Punched" =>
                        day'[y][d] = "Punched" /\ (<<y, d>> \in draft => <<y, d>> \in draft')
                   /\ emp[y].is = "Active" /\ emp'[y].is = "Left" =>
                        \A d \in Days : d > emp'[y].last => day'[y][d] # "Empty" /\ (<<y, d>> \in draft' => day'[y][d] = "Punched")
        <4>1. CASE y = e
          BY <2>2, <3>2, <3>3, <4>1
        <4>2. CASE y # e
          BY <2>2, <3>2, <3>3, <4>2
        <4> QED BY <4>1, <4>2
      <3> QED BY <3>3 DEF Li!DayStays
    <2>4. CASE ~(x.is = "Left" /\ emp[e].is # "Left")
      <3>1. UNCHANGED <<day, draft>>
        BY <1>9, <2>4 DEF Li!Saves, Li!Unmoved
      <3> QED BY <1>6, <2>2, <2>4, <3>1
    <2> QED BY <2>3, <2>4
  <1>10. CASE Li!Next
    BY <1>1, <1>3, <1>4, <1>5, <1>7, <1>8, <1>9, <1>10, StaffRequests DEF Saved
  <1> QED BY <1>10

\* Without a closed set there is no cycle.
LEMMA StaffHoldIs ==
  ASSUME StaffInv
  PROVE  Li!LeftHasNoShift
  <1> SUFFICES ASSUME Li!Serial, NEW e \in Staff
               PROVE  /\ emp[e].is = "Left" => shift[e] # "Active"
                      /\ ~Li!detect_cycle([x \in Staff |-> emp[x].boss], e)
                      /\ emp[e].is = "None" => shift[e] = "None" /\ \A d \in Days : day[e][d] = "None"
    BY DEF Li!LeftHasNoShift
  <1>1. NoneClosed(Bosses) /\ StaffNames
    BY DEF StaffInv, StaffHold, StaffBase
  <1>2. Bosses \in [Staff -> Staff \cup {Li!Nobody}]
    BY StaffRowIs DEF Bosses, StaffInv, StaffBase
  <1>3. ~Li!detect_cycle(Bosses, e)
    BY <1>1, <1>2, CycleIsClosed DEF NoneClosed, StaffNames
  <1>4. emp[e].is = "None" => emp[e] = Li!NoEmp
    BY StaffRowIs DEF StaffInv, StaffBase
  <1> QED BY <1>3, <1>4 DEF Bosses, StaffInv, StaffHold, Rested

\* The rows of the staff are of their kinds, whoever else writes and whatever fails.
THEOREM StaffTyped ==
  ASSUME StaffNames
  PROVE  Li!Spec => []Li!TypeOK
  <1>1. Li!Init => StaffInv
    BY StaffInit
  <1>2. StaffInv /\ [Li!Next]_Li!vars => StaffInv'
    BY StaffSteps
  <1>3. StaffInv => Li!TypeOK
    BY DEF StaffInv, StaffBase, Li!TypeOK, StaffRows, ShiftStates, DayRows
  <1> QED BY <1>1, <1>2, <1>3, PTL DEF Li!Spec

\* LeftHasNoShift: one request after another, who has left has no shift, no manager is above himself, and nothing is
\* left of an employee who was deleted.
THEOREM LeftHaveNoShift ==
  ASSUME StaffNames
  PROVE  Li!Spec => []Li!LeftHasNoShift
  <1>1. Li!Init => StaffInv
    BY StaffInit
  <1>2. StaffInv /\ [Li!Next]_Li!vars => StaffInv'
    BY StaffSteps
  <1>3. StaffInv => Li!LeftHasNoShift
    BY StaffHoldIs
  <1> QED BY <1>1, <1>2, <1>3, PTL DEF Li!Spec

\* PunchedDayStays: one request after another, a punched day stays with its attendance, and a leaving leaves none
\* without a punch after the last day.
THEOREM PunchedDaysStay ==
  ASSUME StaffNames
  PROVE  Li!Spec => Li!PunchedDayStays
  <1>1. Li!Init => StaffInv
    BY StaffInit
  <1>2. StaffInv /\ [Li!Next]_Li!vars => StaffInv'
    BY StaffSteps
  <1>3. StaffInv /\ [Li!Next]_Li!vars => [Li!DayStays]_Li!vars
    BY DayStaysAlways
  <1> QED BY <1>1, <1>2, <1>3, PTL DEF Li!Spec, Li!PunchedDayStays

-----------------------------------------------------------------------------
(* Accounts. *)

\* The employee's role is one of the portal's, and so are those of the profile.
AccountRoles ==
  /\ "None" \notin Users /\ "Employee" \in PORTAL_ROLES /\ ProfileRoles \subseteq PORTAL_ROLES
  /\ Overlaps \subseteq BOOLEAN /\ Faults \subseteq BOOLEAN

Account == [is : BOOLEAN, enabled : BOOLEAN, profile : BOOLEAN, roles : SUBSET PORTAL_ROLES]
\* An account with the role profile has no role but of the profile, and misses the employee's role only if the
\* profile does and HR chose it.
ByProfile(x, u, w) == x.profile => x.roles \subseteq ProfileRoles /\ (u \in w \/ "Employee" \in ProfileRoles)
AccountViews ==
  /\ \A v \in held : v.link \in [Holders -> Users \cup {Ac!Nobody}]
  /\ ~overlap => held = {}
  /\ overlap \in BOOLEAN /\ faulty \in BOOLEAN
Profiles == ~overlap /\ ~faulty => \A u \in Users : ByProfile(user[u], u, waived)
AccountInv == AccountRoles /\ Ac!TypeOK /\ AccountViews /\ Profiles /\ Ac!LinkedHasRole

LEMMA AccountView ==
  ASSUME AccountInv, NEW v \in Ac!Views
  PROVE  v.link \in [Holders -> Users \cup {Ac!Nobody}] /\ (~overlap => v = Ac!Now)
  BY DEF AccountInv, AccountViews, Ac!Views, Ac!Now, Ac!TypeOK

LEMMA AccountEnds ==
  ASSUME AccountInv, NEW v \in Ac!Views, Ac!Ends(v)
  PROVE  AccountViews' /\ overlap' = overlap /\ faulty' = faulty
  <1>1. overlap' = overlap /\ faulty' = faulty /\ \A w \in held' : w \in held
    BY DEF Ac!Ends
  <1>2. held = {} => held' = {}
    BY <1>1
  <1> QED BY <1>1, <1>2 DEF AccountInv, AccountViews

\* One account is written, and what the roles of those that belong to an employee are.
LEMMA AccountKeeps ==
  ASSUME AccountInv, NEW v \in Ac!Views, Ac!Ends(v), UNCHANGED <<link, asked>>, NEW u \in Users, NEW x \in Account,
         user' = [user EXCEPT ![u] = x], waived' \subseteq Users, \A w \in Users \ {u} : w \in waived <=> w \in waived',
         ~overlap /\ ~faulty => /\ ByProfile(x, u, waived')
                                /\ x.is /\ Ac!has_employee(Ac!Now, u) => "Employee" \in x.roles \/ u \in waived'
  PROVE  AccountInv'
  <1>1. AccountViews' /\ overlap' = overlap /\ faulty' = faulty
    BY AccountEnds
  <1>2. user' \in [Users -> Account] /\ user'[u] = x /\ \A w \in Users \ {u} : user'[w] = user[w]
    BY DEF AccountInv, Ac!TypeOK, Account
  <1>3. Ac!TypeOK'
    BY <1>2 DEF AccountInv, Ac!TypeOK, Account
  <1>4. Profiles'
    BY <1>1, <1>2 DEF AccountInv, Profiles, ByProfile
  <1>5. Ac!LinkedHasRole'
    <2> SUFFICES ASSUME ~overlap, ~faulty, NEW e \in Holders
                 PROVE  /\ \A y \in Holders \ {e} : link[e] = link[y] => link[e] = Ac!Nobody
                        /\ link[e] # Ac!Nobody /\ user'[link[e]].is => "Employee" \in user'[link[e]].roles \/ link[e] \in waived'
      BY <1>1 DEF Ac!LinkedHasRole
    <2>1. \A y \in Holders \ {e} : link[e] = link[y] => link[e] = Ac!Nobody
      BY DEF AccountInv, Ac!LinkedHasRole
    <2>2. ASSUME link[e] # Ac!Nobody, user'[link[e]].is PROVE "Employee" \in user'[link[e]].roles \/ link[e] \in waived'
      <3>1. link[e] \in Users
        BY <2>2 DEF AccountInv, Ac!TypeOK
      <3>2. CASE link[e] = u
        BY <1>2, <2>2, <3>2 DEF Ac!has_employee, Ac!Now
      <3>3. CASE link[e] # u
        BY <1>2, <2>2, <3>1, <3>3 DEF AccountInv, Ac!LinkedHasRole
      <3> QED BY <3>2, <3>3
    <2> QED BY <2>1, <2>2
  <1> QED BY <1>1, <1>3, <1>4, <1>5 DEF AccountInv, AccountRoles

\* No account is written.
LEMMA AccountRests ==
  ASSUME AccountInv, NEW v \in Ac!Views, Ac!Ends(v), UNCHANGED <<user, link>>, asked' \in [Holders -> SUBSET Users],
         waived' \subseteq Users, waived \subseteq waived'
  PROVE  AccountInv'
  <1>1. AccountViews' /\ overlap' = overlap /\ faulty' = faulty
    BY AccountEnds
  <1>2. Ac!TypeOK' /\ Profiles'
    BY <1>1 DEF AccountInv, Ac!TypeOK, Profiles, ByProfile
  <1>3. Ac!LinkedHasRole'
    BY <1>1 DEF AccountInv, Ac!LinkedHasRole
  <1> QED BY <1>1, <1>2, <1>3 DEF AccountInv, AccountRoles

\* What the save makes of an account.
LEMMA SettledIs ==
  ASSUME AccountRoles, NEW v, NEW u, NEW x \in Account
  PROVE  /\ Ac!Settled(v, u, x) \in Account
         /\ Ac!Settled(v, u, x).is = x.is /\ Ac!Settled(v, u, x).profile = x.profile
         /\ x.profile => Ac!Settled(v, u, x).roles \subseteq ProfileRoles
         /\ Ac!has_employee(v, u) => Ac!Settled(v, u, x).roles = IF x.profile THEN ProfileRoles ELSE x.roles
  <1> DEFINE roles == IF x.profile THEN ProfileRoles ELSE x.roles
             s == IF Ac!has_employee(v, u) THEN roles ELSE roles \ {"Employee"}
  <1>1. roles \in SUBSET PORTAL_ROLES /\ s \in SUBSET PORTAL_ROLES /\ s \subseteq roles
    BY DEF AccountRoles, Account
  <1>2. Ac!Settled(v, u, x) = [x EXCEPT !.roles = s]
    BY DEF Ac!Settled
  <1>3. Ac!has_employee(v, u) => s = roles
    OBVIOUS
  <1> HIDE DEF s
  <1>4. /\ [x EXCEPT !.roles = s] \in Account /\ [x EXCEPT !.roles = s].is = x.is
        /\ [x EXCEPT !.roles = s].profile = x.profile /\ [x EXCEPT !.roles = s].roles = s
    BY <1>1 DEF Account
  <1> QED BY <1>1, <1>2, <1>3, <1>4

LEMMA AccountIs ==
  ASSUME AccountInv, NEW u \in Users
  PROVE  /\ user \in [Users -> Account] /\ user[u] \in Account
         /\ ~overlap /\ ~faulty => ByProfile(user[u], u, waived)
         /\ ~overlap /\ ~faulty /\ user[u].is /\ Ac!has_employee(Ac!Now, u) => "Employee" \in user[u].roles \/ u \in waived
  <1>1. user \in [Users -> Account] /\ user[u] \in Account
    BY DEF AccountInv, Ac!TypeOK, Account
  <1>2. ~overlap /\ ~faulty => ByProfile(user[u], u, waived)
    BY DEF AccountInv, Profiles
  <1>3. ASSUME ~overlap, ~faulty, user[u].is, Ac!has_employee(Ac!Now, u)
        PROVE  "Employee" \in user[u].roles \/ u \in waived
    <2>1. PICK e \in Holders : link[e] = u
      BY <1>3 DEF Ac!has_employee, Ac!Now
    <2>2. u # Ac!Nobody
      BY DEF AccountInv, AccountRoles, Ac!Nobody
    <2> QED BY <1>3, <2>1, <2>2 DEF AccountInv, Ac!LinkedHasRole
  <1> QED BY <1>1, <1>2, <1>3

\* A save of the account as it is with other roles, profile or switch.
LEMMA SaveKeeps ==
  ASSUME AccountInv, NEW v \in Ac!Views, NEW u \in Users, NEW x \in Account, Ac!Save(v, u, x), Ac!Rest(v), waived' \subseteq Users,
         \A w \in Users \ {u} : w \in waived <=> w \in waived',
         x.profile => u \in waived' \/ (~overlap /\ ~faulty => "Employee" \in ProfileRoles),
         ~overlap /\ ~faulty /\ ~x.profile /\ Ac!has_employee(Ac!Now, u) => "Employee" \in x.roles \/ u \in waived'
  PROVE  AccountInv'
  <1> DEFINE y == Ac!Settled(v, u, x)
  <1>1. /\ y \in Account /\ y.is = x.is /\ y.profile = x.profile /\ (x.profile => y.roles \subseteq ProfileRoles)
        /\ Ac!has_employee(v, u) => y.roles = IF x.profile THEN ProfileRoles ELSE x.roles
    BY SettledIs DEF AccountInv
  <1>2. user' = [user EXCEPT ![u] = y] /\ Ac!Ends(v) /\ UNCHANGED <<link, asked>>
    BY DEF Ac!Save, Ac!Rest
  <1> HIDE DEF y
  <1>3. ~overlap => v = Ac!Now
    BY AccountView
  <1>4. ~overlap /\ ~faulty => /\ ByProfile(y, u, waived')
                               /\ y.is /\ Ac!has_employee(Ac!Now, u) => "Employee" \in y.roles \/ u \in waived'
    BY <1>1, <1>3 DEF ByProfile
  <1> QED BY <1>1, <1>2, <1>4, AccountKeeps

-----------------------------------------------------------------------------
(* One request at a time. *)

LEMMA CreateSteps ==
  ASSUME AccountInv, NEW v \in Ac!Views, NEW u \in Users, NEW roles \in SUBSET PORTAL_ROLES, Ac!create_user(v, u, roles)
  PROVE  AccountInv'
  <1> DEFINE r == Ac!assigned(v, u, roles)
             x == [is |-> TRUE, enabled |-> TRUE, profile |-> FALSE, roles |-> r]
  <1>1. r \in SUBSET PORTAL_ROLES /\ (Ac!has_employee(v, u) => r = roles)
    BY DEF Ac!assigned
  <1>2. Ac!Save(v, u, x) /\ Ac!Rest(v) /\ waived' = IF "Employee" \in roles THEN waived \ {u} ELSE waived \cup {u}
    BY DEF Ac!create_user
  <1> HIDE DEF r
  <1>3. x \in Account /\ ~x.profile /\ x.roles = r
    BY <1>1 DEF Account
  <1> HIDE DEF x
  <1>4. ~overlap => v = Ac!Now
    BY AccountView
  <1>5. waived' \subseteq Users /\ \A w \in Users \ {u} : w \in waived <=> w \in waived'
    BY <1>2 DEF AccountInv, Ac!TypeOK
  <1>6. ~overlap /\ Ac!has_employee(Ac!Now, u) => "Employee" \in x.roles \/ u \in waived'
    BY <1>1, <1>2, <1>3, <1>4
  <1> QED BY <1>2, <1>3, <1>5, <1>6, SaveKeeps

LEMMA AssignRolesSteps ==
  ASSUME AccountInv, NEW v \in Ac!Views, NEW u \in Users, NEW roles \in SUBSET PORTAL_ROLES, Ac!assign_roles(v, u, roles)
  PROVE  AccountInv'
  <1>1. Ac!Rest(v) /\ UNCHANGED waived
    BY DEF Ac!assign_roles
  <1>2. CASE UNCHANGED user
    BY <1>1, <1>2, AccountRests DEF Ac!Rest, AccountInv, Ac!TypeOK
  <1>3. CASE Ac!Save(v, u, [v.user[u] EXCEPT !.roles = @ \cup roles])
    <2> DEFINE x == [user[u] EXCEPT !.roles = user[u].roles \cup roles]
    <2>1. user[u] \in Account
      BY AccountIs
    <2>2. x \in Account /\ x.profile = user[u].profile /\ x.roles = user[u].roles \cup roles
      BY <2>1 DEF Account
    <2>3. Ac!Save(v, u, x)
      BY <1>3, <2>1 DEF Ac!Save, Account
    <2> HIDE DEF x
    <2>4. user[u].is
      BY <1>3 DEF Ac!assign_roles, Ac!Exists
    <2>5. waived' \subseteq Users
      BY <1>1 DEF AccountInv, Ac!TypeOK
    <2>6. /\ x.profile => u \in waived' \/ (~overlap /\ ~faulty => "Employee" \in ProfileRoles)
          /\ ~overlap /\ ~faulty /\ Ac!has_employee(Ac!Now, u) => "Employee" \in x.roles \/ u \in waived'
      BY <1>1, <2>2, <2>4, AccountIs DEF ByProfile
    <2> QED BY <1>1, <2>2, <2>3, <2>5, <2>6, SaveKeeps
  <1> QED BY <1>2, <1>3 DEF Ac!assign_roles

LEMMA RemoveRolesSteps ==
  ASSUME AccountInv, NEW v \in Ac!Views, NEW u \in Users, NEW roles \in SUBSET PORTAL_ROLES, Ac!remove_roles(v, u, roles)
  PROVE  AccountInv'
  <1>1. Ac!Rest(v) /\ waived' = IF "Employee" \in roles THEN waived \cup {u} ELSE waived
    BY DEF Ac!remove_roles
  <1>1a. waived' \subseteq Users /\ waived \subseteq waived' /\ \A w \in Users \ {u} : w \in waived <=> w \in waived'
    BY <1>1 DEF AccountInv, Ac!TypeOK
  <1>2. CASE UNCHANGED user
    BY <1>1, <1>1a, <1>2, AccountRests DEF Ac!Rest, AccountInv, Ac!TypeOK
  <1>3. CASE Ac!Save(v, u, [v.user[u] EXCEPT !.roles = @ \ roles])
    <2> DEFINE x == [user[u] EXCEPT !.roles = user[u].roles \ roles]
    <2>1. user[u] \in Account
      BY AccountIs
    <2>2. x \in Account /\ x.profile = user[u].profile /\ x.roles = user[u].roles \ roles
      BY <2>1 DEF Account
    <2>3. Ac!Save(v, u, x)
      BY <1>3, <2>1 DEF Ac!Save, Account
    <2> HIDE DEF x
    <2>4. user[u].is
      BY <1>3 DEF Ac!remove_roles, Ac!Exists
    <2>6. /\ x.profile => u \in waived' \/ (~overlap /\ ~faulty => "Employee" \in ProfileRoles)
          /\ ~overlap /\ ~faulty /\ Ac!has_employee(Ac!Now, u) => "Employee" \in x.roles \/ u \in waived'
      BY <1>1, <1>1a, <2>2, <2>4, AccountIs DEF ByProfile
    <2> QED BY <1>1, <1>1a, <2>2, <2>3, <2>6, SaveKeeps
  <1> QED BY <1>2, <1>3 DEF Ac!remove_roles

LEMMA ProfileSteps ==
  ASSUME AccountInv, NEW v \in Ac!Views, NEW u \in Users, NEW on \in BOOLEAN, Ac!set_user_role_profile(v, u, on)
  PROVE  AccountInv'
  <1> DEFINE x == [user[u] EXCEPT !.profile = on]
  <1>1. user[u] \in Account
    BY AccountIs
  <1>2. x \in Account /\ x.profile = on /\ x.roles = user[u].roles
    BY <1>1 DEF Account
  <1>3. Ac!Save(v, u, x) /\ Ac!Rest(v) /\ waived' = IF on THEN waived \cup {u} ELSE waived
    BY DEF Ac!set_user_role_profile, Ac!Save
  <1> HIDE DEF x
  <1>4. waived' \subseteq Users /\ waived \subseteq waived' /\ \A w \in Users \ {u} : w \in waived <=> w \in waived'
    BY <1>3 DEF AccountInv, Ac!TypeOK
  <1>5. user[u].is
    BY DEF Ac!set_user_role_profile, Ac!Exists
  <1>6. /\ x.profile => u \in waived'
        /\ ~overlap /\ ~faulty /\ Ac!has_employee(Ac!Now, u) => "Employee" \in x.roles \/ u \in waived'
    BY <1>2, <1>3, <1>4, <1>5, AccountIs
  <1> QED BY <1>2, <1>3, <1>4, <1>6, SaveKeeps

LEMMA EnableSteps ==
  ASSUME AccountInv, NEW v \in Ac!Views, NEW u \in Users, NEW on \in BOOLEAN, Ac!set_user_enabled(v, u, on)
  PROVE  AccountInv'
  <1> DEFINE x == [user[u] EXCEPT !.enabled = on]
  <1>1. user[u] \in Account
    BY AccountIs
  <1>2. x \in Account /\ x.profile = user[u].profile /\ x.roles = user[u].roles
    BY <1>1 DEF Account
  <1>3. Ac!Save(v, u, x) /\ Ac!Rest(v) /\ waived' = waived
    BY DEF Ac!set_user_enabled, Ac!Save
  <1> HIDE DEF x
  <1>4. waived' \subseteq Users
    BY <1>3 DEF AccountInv, Ac!TypeOK
  <1>5. user[u].is
    BY DEF Ac!set_user_enabled, Ac!Exists
  <1>6. /\ x.profile => u \in waived' \/ (~overlap /\ ~faulty => "Employee" \in ProfileRoles)
        /\ ~overlap /\ ~faulty /\ Ac!has_employee(Ac!Now, u) => "Employee" \in x.roles \/ u \in waived'
    BY <1>2, <1>3, <1>5, AccountIs DEF ByProfile
  <1> QED BY <1>2, <1>3, <1>4, <1>6, SaveKeeps

LEMMA DeleteUserSteps ==
  ASSUME AccountInv, NEW v \in Ac!Views, NEW u \in Users, Ac!delete_user(v, u)
  PROVE  AccountInv'
  <1>1. Ac!NoUser \in Account /\ ~Ac!NoUser.is /\ ~Ac!NoUser.profile
    BY DEF Ac!NoUser, Account
  <1>2. user' = [user EXCEPT ![u] = Ac!NoUser] /\ Ac!Ends(v) /\ UNCHANGED <<link, asked, waived>>
    BY DEF Ac!delete_user, Ac!Rest
  <1>3. waived' \subseteq Users
    BY <1>2 DEF AccountInv, Ac!TypeOK
  <1> QED BY <1>1, <1>2, <1>3, AccountKeeps DEF ByProfile

LEMMA LeaverSteps ==
  ASSUME AccountInv, NEW v \in Ac!Views, NEW e \in Holders, Ac!DeactivateLeaver(v, e)
  PROVE  AccountInv'
  <1> DEFINE u == v.link[e]
             x == [user[u] EXCEPT !.enabled = FALSE]
  <1>1. u \in Users /\ user[u].is
    BY AccountView DEF Ac!DeactivateLeaver, Ac!Exists
  <1>2. user' = [user EXCEPT ![u].enabled = FALSE] /\ Ac!Ends(v) /\ UNCHANGED <<link, asked, waived>>
    BY DEF Ac!DeactivateLeaver, Ac!Rest
  <1> HIDE DEF u
  <1>3. user \in [Users -> Account] /\ user[u] \in Account
    BY <1>1, AccountIs
  <1>4. x \in Account /\ x.profile = user[u].profile /\ x.roles = user[u].roles /\ x.is = user[u].is
    BY <1>3 DEF Account
  <1>5. user' = [user EXCEPT ![u] = x]
    BY <1>1, <1>2, <1>3
  <1> HIDE DEF x
  <1>6. waived' \subseteq Users
    BY <1>2 DEF AccountInv, Ac!TypeOK
  <1>7. ~overlap /\ ~faulty => /\ ByProfile(x, u, waived')
                               /\ x.is /\ Ac!has_employee(Ac!Now, u) => "Employee" \in x.roles \/ u \in waived'
    BY <1>1, <1>2, <1>4, AccountIs DEF ByProfile
  <1> QED BY <1>1, <1>2, <1>4, <1>5, <1>6, <1>7, AccountKeeps

LEMMA LinkSteps ==
  ASSUME AccountInv, NEW v \in Ac!Views, NEW e \in Holders, NEW u \in Users, NEW failing \in BOOLEAN,
         Ac!link_user_to_employee(v, e, u, failing)
  PROVE  AccountInv'
  <1> DEFINE w == [v EXCEPT !.link[e] = u]
             z == [user[u] EXCEPT !.roles = user[u].roles \cup {"Employee"}]
             x == IF "Employee" \in v.user[u].roles \/ v.user[u] # user[u] \/ failing THEN user[u] ELSE Ac!Settled(w, u, z)
  <1>1. user \in [Users -> Account] /\ user[u] \in Account
    BY AccountIs
  <1>2. z \in Account /\ z.is = user[u].is /\ z.profile = user[u].profile /\ z.roles = user[u].roles \cup {"Employee"}
    BY <1>1 DEF Account, AccountInv, AccountRoles
  <1>3. user' = [user EXCEPT ![u] = x]
    <2>1. Ac!WithRole(v, e, u) = Ac!Settled(w, u, [v.user[u] EXCEPT !.roles = v.user[u].roles \cup {"Employee"}])
      BY DEF Ac!WithRole
    <2>2. v.user[u] = user[u] => Ac!WithRole(v, e, u) = Ac!Settled(w, u, z)
      BY <2>1
    <2> HIDE DEF w, z
    <2> QED BY <1>1, <2>2 DEF Ac!link_user_to_employee
  <1>4. /\ link' = [link EXCEPT ![e] = u] /\ UNCHANGED asked /\ Ac!Ends(v)
        /\ waived' = IF "Employee" \in v.user[u].roles \/ ~v.user[u].profile THEN waived \ {u} ELSE waived
    BY DEF Ac!link_user_to_employee
  <1>5. /\ Ac!Settled(w, u, z) \in Account
        /\ Ac!Settled(w, u, z).is = z.is /\ Ac!Settled(w, u, z).profile = z.profile
        /\ z.profile => Ac!Settled(w, u, z).roles \subseteq ProfileRoles
        /\ Ac!has_employee(w, u) => Ac!Settled(w, u, z).roles = IF z.profile THEN ProfileRoles ELSE z.roles
    <2> HIDE DEF w, z
    <2>1. AccountRoles /\ z \in Account
      BY <1>2 DEF AccountInv
    <2> QED BY <2>1, SettledIs
  <1>6. ~overlap => v = Ac!Now /\ Ac!has_employee(w, u)
    <2> SUFFICES ASSUME ~overlap PROVE v = Ac!Now /\ Ac!has_employee(w, u)
      OBVIOUS
    <2>1. v = Ac!Now
      BY AccountView
    <2>2. w.link[e] = u
      BY <2>1 DEF Ac!Now, AccountInv, Ac!TypeOK
    <2> HIDE DEF w
    <2> QED BY <2>1, <2>2 DEF Ac!has_employee
  <1>7. ~overlap /\ ~faulty => ~failing /\ v.user[u] = user[u] /\ \A y \in Holders \ {e} : link[y] # u
    BY <1>6 DEF Ac!link_user_to_employee, Ac!Now
  <1> HIDE DEF w, z
  <1>8. x \in Account
    BY <1>1, <1>5
  <1>9. ~overlap /\ ~faulty => /\ ByProfile(x, u, waived')
                               /\ "Employee" \in x.roles \/ u \in waived'
    BY <1>1, <1>2, <1>4, <1>5, <1>6, <1>7, AccountIs DEF ByProfile
  <1> HIDE DEF x
  <1>10. AccountViews' /\ overlap' = overlap /\ faulty' = faulty
    BY <1>4, AccountEnds
  <1>11. /\ user' \in [Users -> Account] /\ user'[u] = x /\ \A y \in Users \ {u} : user'[y] = user[y]
         /\ link' \in [Holders -> Users \cup {Ac!Nobody}] /\ link'[e] = u /\ \A y \in Holders \ {e} : link'[y] = link[y]
    BY <1>1, <1>3, <1>4, <1>8 DEF AccountInv, Ac!TypeOK
  <1>12. waived' \subseteq Users /\ \A y \in Users \ {u} : y \in waived <=> y \in waived'
    BY <1>4 DEF AccountInv, Ac!TypeOK
  <1>13. Ac!TypeOK'
    BY <1>4, <1>11, <1>12 DEF AccountInv, Ac!TypeOK, Account
  <1>14. Profiles'
    BY <1>9, <1>10, <1>11, <1>12 DEF AccountInv, Profiles, ByProfile
  <1>15. Ac!LinkedHasRole'
    <2> SUFFICES ASSUME ~overlap, ~faulty, NEW d \in Holders
                 PROVE  /\ \A y \in Holders \ {d} : link'[d] = link'[y] => link'[d] = Ac!Nobody
                        /\ link'[d] # Ac!Nobody /\ user'[link'[d]].is
                             => "Employee" \in user'[link'[d]].roles \/ link'[d] \in waived'
      BY <1>10 DEF Ac!LinkedHasRole
    <2>1. \A y \in Holders \ {d} : link'[d] = link'[y] => link'[d] = Ac!Nobody
      BY <1>7, <1>11 DEF AccountInv, Ac!LinkedHasRole
    <2>2. ASSUME link'[d] # Ac!Nobody, user'[link'[d]].is
          PROVE  "Employee" \in user'[link'[d]].roles \/ link'[d] \in waived'
      <3>1. CASE link'[d] = u
        BY <1>9, <1>11, <3>1
      <3>2. CASE link'[d] # u
        <4>1. link'[d] = link[d] /\ link[d] \in Users
          BY <1>11, <2>2, <3>2 DEF AccountInv, Ac!TypeOK
        <4> QED BY <1>11, <1>12, <2>2, <3>2, <4>1 DEF AccountInv, Ac!LinkedHasRole
      <3> QED BY <3>1, <3>2
    <2> QED BY <2>1, <2>2
  <1> QED BY <1>10, <1>13, <1>14, <1>15 DEF AccountInv, AccountRoles

LEMMA AskedSteps ==
  ASSUME AccountInv, NEW v \in Ac!Views, NEW e \in Holders,
         Ac!request_profile_change(v, e) \/ \E m \in Users : Ac!cancel_profile_request(v, e, m)
  PROVE  AccountInv'
  <1>1. UNCHANGED <<user, link, waived>> /\ Ac!Ends(v)
    BY DEF Ac!request_profile_change, Ac!cancel_profile_request
  <1>2. asked' \in [Holders -> SUBSET Users]
    BY DEF Ac!request_profile_change, Ac!cancel_profile_request, Ac!_hr_manager_users, AccountInv, Ac!TypeOK
  <1> QED BY <1>1, <1>2, AccountRests DEF AccountInv, Ac!TypeOK

LEMMA AccountHolds ==
  ASSUME AccountInv, Ac!Hold \/ UNCHANGED Ac!vars
  PROVE  AccountInv'
  <1>1. UNCHANGED <<user, link, asked, waived, overlap, faulty>> /\ (held' = held \/ (overlap /\ held' = {Ac!Now}))
    BY DEF Ac!Hold, Ac!vars
  <1>2. AccountViews'
    BY <1>1 DEF AccountInv, AccountViews, Ac!Now, Ac!TypeOK
  <1> QED BY <1>1, <1>2 DEF AccountInv, AccountRoles, Ac!TypeOK, Profiles, Ac!LinkedHasRole

LEMMA AccountNext ==
  ASSUME AccountInv, [Ac!Next]_Ac!vars
  PROVE  AccountInv'
  <1>1. CASE Ac!Hold \/ UNCHANGED Ac!vars
    BY <1>1, AccountHolds
  <1>2. ASSUME NEW v \in Ac!Views,
               \E u \in Users, roles \in SUBSET PORTAL_ROLES :
                 Ac!create_user(v, u, roles) \/ Ac!assign_roles(v, u, roles) \/ Ac!remove_roles(v, u, roles)
        PROVE  AccountInv'
    BY <1>2, CreateSteps, AssignRolesSteps, RemoveRolesSteps
  <1>3. ASSUME NEW v \in Ac!Views,
               \E u \in Users, on \in BOOLEAN : Ac!set_user_role_profile(v, u, on) \/ Ac!set_user_enabled(v, u, on)
        PROVE  AccountInv'
    BY <1>3, ProfileSteps, EnableSteps
  <1>4. ASSUME NEW v \in Ac!Views, \E u \in Users : Ac!reset_user_password(v, u) \/ Ac!delete_user(v, u)
        PROVE  AccountInv'
    BY <1>4, EnableSteps, DeleteUserSteps DEF Ac!reset_user_password
  <1>5. ASSUME NEW v \in Ac!Views,
               \E e \in Holders, u \in Users :
                 \/ Ac!cancel_profile_request(v, e, u)
                 \/ \E failing \in BOOLEAN : Ac!link_user_to_employee(v, e, u, failing)
        PROVE  AccountInv'
    BY <1>5, AskedSteps, LinkSteps
  <1>6. ASSUME NEW v \in Ac!Views, \E e \in Holders : Ac!DeactivateLeaver(v, e) \/ Ac!request_profile_change(v, e)
        PROVE  AccountInv'
    BY <1>6, LeaverSteps, AskedSteps
  <1> QED BY <1>1, <1>2, <1>3, <1>4, <1>5, <1>6 DEF Ac!Next

LEMMA AccountInit == AccountRoles /\ Ac!Init => AccountInv
  <1> SUFFICES ASSUME AccountRoles, Ac!Init PROVE AccountInv
    OBVIOUS
  <1>1. Ac!NoUser \in Account /\ ~Ac!NoUser.profile
    BY DEF Ac!NoUser, Account
  <1>2. Ac!TypeOK /\ AccountViews /\ Profiles
    BY <1>1 DEF Ac!Init, Ac!TypeOK, AccountViews, Profiles, ByProfile, Account, AccountRoles
  <1> QED BY <1>2 DEF AccountInv, Ac!LinkedHasRole, Ac!Init

\* The rows of accounts, their links and what is asked of managers are of their kinds, whoever else writes and whatever
\* fails.
THEOREM AccountsTyped ==
  ASSUME AccountRoles
  PROVE  Ac!Spec => []Ac!TypeOK
  <1>1. AccountInv => Ac!TypeOK
    BY DEF AccountInv
  <1>2. Ac!Init => AccountInv
    BY AccountInit
  <1>3. AccountInv /\ [Ac!Next]_Ac!vars => AccountInv'
    BY AccountNext
  <1> QED BY <1>1, <1>2, <1>3, PTL DEF Ac!Spec

\* LinkedHasRole: one request after another and no save failing, an account is of one employee, and has his role
\* unless HR took it.
THEOREM LinkedAlwaysHasRole ==
  ASSUME AccountRoles
  PROVE  Ac!Spec => []Ac!LinkedHasRole
  <1>1. AccountInv => Ac!LinkedHasRole
    BY DEF AccountInv
  <1>2. Ac!Init => AccountInv
    BY AccountInit
  <1>3. AccountInv /\ [Ac!Next]_Ac!vars => AccountInv'
    BY AccountNext
  <1> QED BY <1>1, <1>2, <1>3, PTL DEF Ac!Spec
=============================================================================
