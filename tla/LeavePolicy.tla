---------------------------- MODULE LeavePolicy ----------------------------
(***************************************************************************)
(* Leave periods, leave policies and their assignment to employees, with    *)
(* the leave allocations an assignment grants.                               *)
(*                                                                          *)
(* A request reads its snapshot: the present one, or the one `held' since    *)
(* another request was let through; a row that has changed since cannot be   *)
(* saved, submitted or cancelled.                                            *)
(***************************************************************************)
EXTENDS Integers, FiniteSets

CONSTANTS
  Employees, Policies, Periods,
  Slots,     \* the names of assignments; the allocations of one go with it
  LeaveTypes,
  Days,      \* days, from 1
  Overlaps,  \* the values of `overlap' to look at
  Faults     \* the values of `faulty' to look at

VARIABLES
  period, policy, assignment,
  granted,  \* of each assignment, what its submitted allocations grant
  held,     \* the snapshot a request still reads, if any
  overlap,  \* whether requests overlap
  faulty    \* whether a submit may fail after the row was written
rows == <<period, policy, assignment, granted>>
vars == <<period, policy, assignment, granted, held, overlap, faulty>>

NoPeriod == [from |-> 0, to |-> 0]
NoPolicy == [ds |-> -1, lines |-> {}]
NoRow    == [ds |-> -1, emp |-> "None", policy |-> "None", period |-> "None", from |-> 0, to |-> 0]
NoGrant  == [lines |-> {}, from |-> 0, to |-> 0]
Joining  == "Joining Date"   \* in the place of a period
Now == [period |-> period, policy |-> policy, assignment |-> assignment, granted |-> granted]
Views == {Now} \cup held
\* A request begins before another and ends after it.
Hold == overlap /\ held = {} /\ held' = {Now} /\ UNCHANGED <<rows, overlap, faulty>>
Ends(v) == held' \in {held \ {v}, held \ ({v} \ {Now})} /\ UNCHANGED <<overlap, faulty>>

-----------------------------------------------------------------------------
(* Periods. *)

create_leave_period(v, p, from, to) ==
  /\ period[p] = NoPeriod /\ from <= to
  /\ period' = [period EXCEPT ![p] = [from |-> from, to |-> to]]
  /\ Ends(v) /\ UNCHANGED <<policy, assignment, granted>>
InForce(v) == {l \in Slots : v.assignment[l].ds = 1}
\* Mutant: the dates are never frozen.
NotFrozen(v, p) == FALSE
Frozen(v, p) == \E l \in InForce(v) : v.assignment[l].period = p
update_leave_period(v, p, from, to) ==
  /\ v.period[p] # NoPeriod /\ v.period[p] = period[p] /\ from <= to
  /\ Frozen(v, p) => v.period[p] = [from |-> from, to |-> to]
  /\ period' = [period EXCEPT ![p] = [from |-> from, to |-> to]]
  /\ Ends(v) /\ UNCHANGED <<policy, assignment, granted>>
delete_leave_period(v, p) ==
  /\ v.period[p] # NoPeriod /\ \A l \in Slots : v.assignment[l].period # p
  /\ period' = [period EXCEPT ![p] = NoPeriod]
  /\ Ends(v) /\ UNCHANGED <<policy, assignment, granted>>

-----------------------------------------------------------------------------
(* Policies. *)

Draft(lines) == [ds |-> 0, lines |-> lines]
PolicyBecomes(v, k, x) ==
  policy' = [policy EXCEPT ![k] = x] /\ Ends(v) /\ UNCHANGED <<period, assignment, granted>>
save_leave_policy(v, k, lines) ==
  /\ lines # {} /\ v.policy[k] = policy[k] /\ policy[k].ds \in {-1, 0}
  /\ PolicyBecomes(v, k, Draft(lines))
submit_leave_policy(v, k) ==
  /\ v.policy[k] = policy[k] /\ policy[k].ds = 0
  /\ PolicyBecomes(v, k, [policy[k] EXCEPT !.ds = 1])
Linked(v, k, states) == \E l \in Slots : v.assignment[l].policy = k /\ v.assignment[l].ds \in states
\* Mutant: assignments in force are not looked for.
CanCancelAnyPolicy(v, k) == v.policy[k] = policy[k] /\ policy[k].ds = 1
_assert_policy_cancel(v, k) == v.policy[k] = policy[k] /\ policy[k].ds = 1 /\ ~Linked(v, k, {1})
cancel_leave_policy(v, k) ==
  _assert_policy_cancel(v, k) /\ PolicyBecomes(v, k, [policy[k] EXCEPT !.ds = 2])
\* The replacement is a draft named n.
amend_leave_policy(v, k, n, lines) ==
  /\ policy[n] = NoPolicy /\ v.policy[k].ds \in {1, 2}
  /\ v.policy[k].ds = 1 => _assert_policy_cancel(v, k)
  /\ policy' = [policy EXCEPT ![k] = IF v.policy[k].ds = 1 THEN [@ EXCEPT !.ds = 2] ELSE @,
                             ![n] = Draft(IF lines = {} THEN v.policy[k].lines ELSE lines)]
  /\ Ends(v) /\ UNCHANGED <<period, assignment, granted>>
delete_leave_policy(v, k) ==
  /\ v.policy[k].ds \in {0, 2} /\ v.policy[k] = policy[k] /\ ~Linked(v, k, {0, 1})
  /\ PolicyBecomes(v, k, NoPolicy)
duplicate_leave_policy(v, k, n) ==
  /\ policy[n] = NoPolicy /\ v.policy[k].ds >= 0
  /\ PolicyBecomes(v, n, Draft(v.policy[k].lines))

-----------------------------------------------------------------------------
(* Assignments. *)

\* The row that is made; of a period its dates, of a joining date the days given.
_assignment_payload(v, e, k, p, from, to) ==
  [ds |-> 1, emp |-> e, policy |-> k, period |-> p,
   from |-> IF p = Joining THEN from ELSE v.period[p].from,
   to   |-> IF p = Joining THEN to ELSE v.period[p].to]
Meets(x, from, to) == x.from <= to /\ x.to >= from
\* The last guard is HRMS's: no two assignments of an employee in force at a time.
Assignable(v, e, k, p, x, gone) ==
  /\ v.policy[k].ds = 1 /\ (p # Joining => v.period[p] # NoPeriod) /\ x.from <= x.to
  /\ \A l \in InForce(v) \ gone : v.assignment[l].emp = e => ~Meets(v.assignment[l], x.from, x.to)
Grants(v, x) == [lines |-> v.policy[x.policy].lines, from |-> x.from, to |-> x.to]

assign_leave_policy(v, l, e, k, p, from, to) ==
  LET x == _assignment_payload(v, e, k, p, from, to)
  IN /\ assignment[l] = NoRow /\ Assignable(v, e, k, p, x, {})
     /\ assignment' = [assignment EXCEPT ![l] = x] /\ granted' = [granted EXCEPT ![l] = Grants(v, x)]
     /\ Ends(v) /\ UNCHANGED <<period, policy>>

\* Mutant: a failed row is not taken back.
KeepsFailed(made, failing) == made
KeptOf(made, failing) == made \ failing
\* Each employee under a savepoint.
bulk_assign_leave_policy(v, slot, k, p, from, to, failing) ==
  LET row(e) == _assignment_payload(v, e, k, p, from, to)
      made   == {e \in DOMAIN slot : Assignable(v, e, k, p, row(e), {})}
      kept   == KeptOf(made, failing)
      at(l)  == CHOOSE e \in kept : slot[e] = l
  IN /\ \A e, f \in DOMAIN slot : assignment[slot[e]] = NoRow /\ (slot[e] = slot[f] => e = f)
     /\ failing \subseteq made /\ (failing # {} => faulty)
     /\ assignment' = [l \in Slots |-> IF \E e \in kept : slot[e] = l THEN row(at(l)) ELSE assignment[l]]
     /\ granted' = [l \in Slots |-> IF \E e \in kept \ failing : slot[e] = l THEN Grants(v, row(at(l))) ELSE granted[l]]
     /\ Ends(v) /\ UNCHANGED <<period, policy>>

\* Mutant: the allocations stay.
KeepAllocations(l) == granted
_cancel_live_allocations(l) == [granted EXCEPT ![l] = NoGrant]
cancel_leave_policy_assignment(v, l) ==
  /\ v.assignment[l].ds = 1 /\ assignment[l].ds = 1  \* read again, then cancelled
  /\ granted' = _cancel_live_allocations(l) /\ assignment' = [assignment EXCEPT ![l].ds = 2]
  /\ Ends(v) /\ UNCHANGED <<period, policy>>
\* One transaction: when the replacement is refused the old one stays in force. What is
\* not given anew is as it was.
amend_leave_policy_assignment(v, l, n, k, p) ==
  LET old == v.assignment[l]
      x   == _assignment_payload(v, old.emp, k, p, old.from, old.to)
  IN /\ assignment[n] = NoRow /\ n # l /\ old.ds \in {1, 2}
     /\ old.ds = 1 => assignment[l].ds = 1
     /\ Assignable(v, old.emp, k, p, x, {l})
     /\ assignment' = [assignment EXCEPT ![l].ds = 2, ![n] = x]
     /\ granted' = [_cancel_live_allocations(l) EXCEPT ![n] = Grants(v, x)]
     /\ Ends(v) /\ UNCHANGED <<period, policy>>

-----------------------------------------------------------------------------
Init ==
  /\ period = [p \in Periods |-> NoPeriod] /\ policy = [k \in Policies |-> NoPolicy]
  /\ assignment = [l \in Slots |-> NoRow] /\ granted = [l \in Slots |-> NoGrant]
  /\ held = {} /\ overlap \in Overlaps /\ faulty \in Faults

Next ==
  \/ Hold
  \/ \E v \in Views :
       \/ \E p \in Periods, from, to \in Days : create_leave_period(v, p, from, to) \/ update_leave_period(v, p, from, to)
       \/ \E p \in Periods : delete_leave_period(v, p)
       \/ \E k \in Policies, lines \in SUBSET LeaveTypes : save_leave_policy(v, k, lines)
       \/ \E k \in Policies : submit_leave_policy(v, k) \/ cancel_leave_policy(v, k) \/ delete_leave_policy(v, k)
       \/ \E k, n \in Policies, lines \in SUBSET LeaveTypes : amend_leave_policy(v, k, n, lines)
       \/ \E k, n \in Policies : duplicate_leave_policy(v, k, n)
       \/ \E k \in Policies, p \in Periods \cup {Joining}, from, to \in Days :
            \/ \E l \in Slots, e \in Employees : assign_leave_policy(v, l, e, k, p, from, to)
            \/ \E es \in SUBSET Employees : \E slot \in [es -> Slots], failing \in SUBSET es :
                 es # {} /\ bulk_assign_leave_policy(v, slot, k, p, from, to, failing)
       \/ \E l \in Slots : cancel_leave_policy_assignment(v, l)
       \/ \E l, n \in Slots, k \in Policies, p \in Periods \cup {Joining} : amend_leave_policy_assignment(v, l, n, k, p)

Spec == Init /\ [][Next]_vars

-----------------------------------------------------------------------------
TypeOK ==
  /\ period \in [Periods -> [from : Days \cup {0}, to : Days \cup {0}]]
  /\ policy \in [Policies -> [ds : -1..2, lines : SUBSET LeaveTypes]]
  /\ \A l \in Slots :
       assignment[l] # NoRow => assignment[l] \in
         [ds : 1..2, emp : Employees, policy : Policies, period : Periods \cup {Joining}, from : Days, to : Days]
  /\ granted \in [Slots -> [lines : SUBSET LeaveTypes, from : Days \cup {0}, to : Days \cup {0}]]

\* An assignment in force has granted its allocations for its window, and one that is not in force
\* grants nothing, whatever fails and whoever else writes (assign, cancel, amend and bulk_assign of
\* leave policies).
GrantsFollow ==
  \A l \in Slots :
    IF assignment[l].ds = 1
    THEN granted[l].lines # {} /\ granted[l].from = assignment[l].from /\ granted[l].to = assignment[l].to
    ELSE granted[l] = NoGrant
\* When requests do not overlap: the policy of an assignment in force is submitted and its lines are
\* what was granted, its window is that of its period (update_leave_period: ``changing them would
\* silently drift live assignments' effective windows''), and no employee is granted twice for a day.
AssignmentsHold ==
  ~overlap => \A l \in InForce(Now) :
    LET x == assignment[l]
    IN /\ policy[x.policy].ds = 1 /\ policy[x.policy].lines = granted[l].lines
       /\ x.period # Joining => period[x.period] = [from |-> x.from, to |-> x.to]
       /\ \A n \in InForce(Now) \ {l} : assignment[n].emp = x.emp => ~Meets(assignment[n], x.from, x.to)
=============================================================================
