------------------------------ MODULE Blackout ------------------------------
(***************************************************************************)
(* Blackout periods of leave: the rules HR keeps, the guard against two     *)
(* rules for one thing, and the mark a leave application gets when a rule   *)
(* restricts its days.  (What becomes of the application is in Leave.)      *)
(*                                                                          *)
(* A request reads its snapshot: the present one, or the one `held' since   *)
(* another request was let through.                                          *)
(***************************************************************************)
EXTENDS Integers, FiniteSets

CONSTANTS
  Rules, Leaves,
  Branches,   \* the branches of the company; an application has the branch of its employee
  LeaveTypes,
  Days,       \* days, from 1
  Forms,      \* the rules to look at: branch, leave type, first and last day, action
  PageSize,   \* how many rules are read at most (200)
  Overlaps    \* the values of `overlap' to look at

VARIABLES
  rule, leave,
  waived,    \* the rules that were forced or switched on without the guard
  held,      \* the snapshot a request still reads, if any
  overlap    \* whether requests overlap
vars == <<rule, leave, waived, held, overlap>>

Every == "every"  \* in the place of a branch or a leave type
BLACKOUT_ACTIONS == {"Warning", "Block", "Require HR Approval"}
_ACTION_RANK == [a \in BLACKOUT_ACTIONS |-> CASE a = "Block" -> 3 [] a = "Require HR Approval" -> 2 [] OTHER -> 1]
NoRule  == [branch |-> "None", type |-> "None", from |-> 0, to |-> 0, active |-> FALSE, action |-> "None"]
NoLeave == [branch |-> "None", type |-> "None", from |-> 0, to |-> 0, mark |-> "None"]
RuleRows ==
  {[branch |-> f.branch, type |-> f.type, from |-> f.from, to |-> f.to, active |-> on, action |-> f.action] :
     f \in {g \in Forms : g.from <= g.to}, on \in BOOLEAN}
Applications ==
  {x \in [branch : Branches, type : LeaveTypes, from : Days, to : Days, mark : {"None"}] : x.from <= x.to}

Now == [rule |-> rule, leave |-> leave]
Views == {Now} \cup held
\* A request begins before another and ends after it.
Hold == overlap /\ held = {} /\ held' = {Now} /\ UNCHANGED <<rule, leave, waived, overlap>>
Ends(v) == held' \in {held \ {v}, held \ ({v} \ {Now})} /\ UNCHANGED overlap

-----------------------------------------------------------------------------
(* What a rule restricts. *)

date_overlaps(af, at, bf, bt) == af <= bt /\ bf <= at
window_days(from, to) == {d \in Days : from <= d /\ d <= to}
\* Mutant: the last day of a rule is free.
MatchesBeforeEnd(x, d, type) == x.active /\ x.type \in {Every, type} /\ x.from <= d /\ d < x.to
\* The branch of a rule plays no part.
_rule_matches(x, d, type) == x.active /\ x.type \in {Every, type} /\ x.from <= d /\ d <= x.to

\* The active rules, the latest first, as many as a page takes.
_list_blackouts(v) ==
  LET active == {r \in Rules : v.rule[r] # NoRule /\ v.rule[r].active}
  IN CHOOSE page \in SUBSET active :
       /\ Cardinality(page) = IF Cardinality(active) < PageSize THEN Cardinality(active) ELSE PageSize
       /\ \A r \in page, s \in active \ page : v.rule[r].from >= v.rule[s].from
evaluate_blackout(v, from, to, type) ==
  {r \in _list_blackouts(v) : \E d \in window_days(from, to) : _rule_matches(v.rule[r], d, type)}
strongest_action(v, matched) ==
  LET r == CHOOSE x \in matched : \A y \in matched : _ACTION_RANK[v.rule[x].action] >= _ACTION_RANK[v.rule[y].action]
  IN v.rule[r].action
\* A warning leaves no mark.
blackout_decision_fields(v, matched) ==
  IF \A r \in matched : v.rule[r].action = "Warning" THEN "None" ELSE strongest_action(v, matched)

\* An application gets the mark of its days; one that already has a mark keeps it when nothing
\* restricts the days it has now.
_stamp_blackout_decision(v, x) ==
  LET mark == blackout_decision_fields(v, evaluate_blackout(v, x.from, x.to, x.type))
  IN IF mark = "None" THEN x ELSE [x EXCEPT !.mark = mark]
apply_leave(v, l, x) ==
  /\ leave[l] = NoLeave /\ leave' = [leave EXCEPT ![l] = _stamp_blackout_decision(v, x)]
  /\ Ends(v) /\ UNCHANGED <<rule, waived>>
update_draft(v, l, x) ==
  /\ v.leave[l] # NoLeave /\ leave[l] # NoLeave /\ x.branch = leave[l].branch
  /\ leave' = [leave EXCEPT ![l] = _stamp_blackout_decision(v, [x EXCEPT !.mark = leave[l].mark])]
  /\ Ends(v) /\ UNCHANGED <<rule, waived>>
delete_draft(v, l) ==
  /\ v.leave[l] # NoLeave /\ leave' = [leave EXCEPT ![l] = NoLeave]
  /\ Ends(v) /\ UNCHANGED <<rule, waived>>

\* The applications a rule is shown with: of every leave type.
blackout_impact(v, r) ==
  {l \in Leaves : v.leave[l] # NoLeave
     /\ date_overlaps(v.leave[l].from, v.leave[l].to, v.rule[r].from, v.rule[r].to)}

-----------------------------------------------------------------------------
(* The rules. *)

Compatible(a, b) == a = Every \/ b = Every \/ a = b
\* Mutant: the rule that is edited is not its own obstacle, nor is any other of its type.
OtherTypes(v, x, exclude) ==
  {r \in _list_blackouts(v) \ exclude : v.rule[r].type # x.type /\ Compatible(v.rule[r].branch, x.branch)
     /\ Compatible(v.rule[r].type, x.type) /\ date_overlaps(v.rule[r].from, v.rule[r].to, x.from, x.to)}
overlapping_rules(v, x, exclude) ==
  {r \in _list_blackouts(v) \ exclude :
     /\ Compatible(v.rule[r].branch, x.branch) /\ Compatible(v.rule[r].type, x.type)
     /\ date_overlaps(v.rule[r].from, v.rule[r].to, x.from, x.to)}
_guard_overlap(v, x, exclude, force) == force \/ overlapping_rules(v, x, exclude) = {}
Waives(r, force) == waived' = IF force THEN waived \cup {r} ELSE waived \ {r}

create_blackout(v, r, x, force) ==
  /\ rule[r] = NoRule /\ v.rule[r] = NoRule /\ _guard_overlap(v, x, {}, force)
  /\ rule' = [rule EXCEPT ![r] = x] /\ Waives(r, force)
  /\ Ends(v) /\ UNCHANGED leave
update_blackout(v, r, x, force) ==
  /\ v.rule[r] # NoRule /\ v.rule[r] = rule[r] /\ _guard_overlap(v, x, {r}, force)
  /\ rule' = [rule EXCEPT ![r] = x] /\ Waives(r, force)
  /\ Ends(v) /\ UNCHANGED leave
Deletes(v, rs) ==
  /\ \E r \in rs : v.rule[r] # NoRule
  /\ rule' = [r \in Rules |-> IF r \in rs THEN NoRule ELSE rule[r]] /\ waived' = waived \ rs
  /\ Ends(v) /\ UNCHANGED leave
delete_blackout(v, r) == Deletes(v, {r})
bulk_delete_blackouts(v, rs) == Deletes(v, rs)
\* No guard; a rule that has changed since is left out of it.
bulk_update_blackouts(v, rs, active, action) ==
  LET done == {r \in rs : v.rule[r] # NoRule /\ v.rule[r] = rule[r]}
  IN /\ done # {}
     /\ rule' = [r \in Rules |-> IF r \in done THEN [rule[r] EXCEPT !.active = active, !.action = action] ELSE rule[r]]
     /\ waived' = IF active THEN waived \cup {r \in done : ~rule[r].active} ELSE waived
     /\ Ends(v) /\ UNCHANGED leave

-----------------------------------------------------------------------------
Init ==
  /\ rule = [r \in Rules |-> NoRule] /\ leave = [l \in Leaves |-> NoLeave]
  /\ waived = {} /\ held = {} /\ overlap \in Overlaps

Next ==
  \/ Hold
  \/ \E v \in Views :
       \/ \E l \in Leaves, x \in Applications : apply_leave(v, l, x) \/ update_draft(v, l, x)
       \/ \E l \in Leaves : delete_draft(v, l)
       \/ \E r \in Rules, x \in RuleRows, force \in BOOLEAN : create_blackout(v, r, x, force) \/ update_blackout(v, r, x, force)
       \/ \E r \in Rules : delete_blackout(v, r)
       \/ \E rs \in SUBSET Rules : bulk_delete_blackouts(v, rs)
       \/ \E rs \in SUBSET Rules, active \in BOOLEAN, action \in BLACKOUT_ACTIONS :
            bulk_update_blackouts(v, rs, active, action)

Spec == Init /\ [][Next]_vars

-----------------------------------------------------------------------------
TypeOK ==
  /\ \A r \in Rules : rule[r] # NoRule => rule[r].from <= rule[r].to /\ rule[r].action \in BLACKOUT_ACTIONS /\ waived \subseteq Rules
  /\ \A l \in Leaves : leave[l] # NoLeave =>
       leave[l].mark \in BLACKOUT_ACTIONS \cup {"None"} /\ [leave[l] EXCEPT !.mark = "None"] \in Applications

\* When requests do not overlap, two active rules that could be about one application overlap in
\* time only when one of them was forced or switched on in bulk (_guard_overlap).
RulesApart ==
  ~overlap => \A r, s \in Rules :
    r # s /\ rule[r].active /\ rule[s].active
      /\ Compatible(rule[r].branch, rule[s].branch) /\ Compatible(rule[r].type, rule[s].type)
      /\ date_overlaps(rule[r].from, rule[r].to, rule[s].from, rule[s].to)
    => {r, s} \cap waived # {}
\* The mark an application would get today, the guard's notion of an overlap and the list of what a
\* rule restricts agree on every rule (evaluate_blackout, overlapping_rules, blackout_impact).
ReadersAgree ==
  \A l \in Leaves : leave[l] # NoLeave =>
    LET x == leave[l]
        hit == evaluate_blackout(Now, x.from, x.to, x.type)
    IN /\ hit = overlapping_rules(Now, [x EXCEPT !.branch = Every], {})
       /\ \A r \in hit : l \in blackout_impact(Now, r)
\* The mark of an application is about the days it has (_stamp_blackout_decision: ``so HR
\* reviewing the document knows it overlapped a restriction window''), and no rule of another
\* branch gives one.
MarkIsCurrent ==
  [][\A l \in Leaves : leave'[l] # leave[l] /\ leave'[l].mark # "None" =>
       \E r \in Rules : rule[r].active /\ rule[r].action = leave'[l].mark
         /\ date_overlaps(rule[r].from, rule[r].to, leave'[l].from, leave'[l].to)]_vars
RuleIsForItsBranch ==
  [][\A l \in Leaves : leave[l] = NoLeave /\ leave'[l] # NoLeave /\ leave'[l].mark # "None" =>
       \E r \in Rules : rule[r].active /\ rule[r].branch \in {Every, leave'[l].branch}]_vars
=============================================================================
