------------------------------ MODULE Accounts ------------------------------
(***************************************************************************)
(* User accounts as HR keeps them in the portal: their roles, the employee   *)
(* an account belongs to, and whether it is enabled; and what an employee    *)
(* asks HR to correct in his file.                                           *)
(*                                                                          *)
(* A request reads its snapshot: the present one, or the one `held' since    *)
(* another request was let through.                                          *)
(***************************************************************************)
EXTENDS Integers, FiniteSets

CONSTANTS
  Users, Employees,
  PORTAL_ROLES,  \* "Employee" among them, and the managers' role "HR"
  ProfileRoles,  \* the roles of the role profile
  Overlaps,      \* the values of `overlap' to look at
  Faults         \* the values of `faulty' to look at

VARIABLES
  user,     \* the accounts
  link,     \* the account of an employee
  asked,    \* the managers that have an open ToDo to correct the file of an employee
  waived,   \* the accounts HR took the employee's role from, or made without it
  held,     \* the snapshot a request still reads, if any
  overlap,  \* whether requests overlap
  faulty    \* whether the save of an account may fail
vars == <<user, link, asked, waived, held, overlap, faulty>>

Nobody == "None"
NoUser == [is |-> FALSE, enabled |-> FALSE, profile |-> FALSE, roles |-> {}]
Now == [user |-> user, link |-> link, asked |-> asked]
Views == {Now} \cup held
Hold == overlap /\ held = {} /\ held' = {Now} /\ UNCHANGED <<user, link, asked, waived, overlap, faulty>>
Ends(v) == held' \in {held \ {v}, held \ ({v} \ {Now})} /\ UNCHANGED <<overlap, faulty>>

-----------------------------------------------------------------------------
(* The save of an account: Frappe gives an account with a role profile the   *)
(* roles of the profile, ERPNext takes the employee's role from an account   *)
(* without an employee.                                                      *)

has_employee(v, u) == \E e \in Employees : v.link[e] = u
Settled(v, u, x) ==
  LET roles == IF x.profile THEN ProfileRoles ELSE x.roles
  IN [x EXCEPT !.roles = IF has_employee(v, u) THEN roles ELSE roles \ {"Employee"}]
Exists(v, u) == v.user[u].is /\ user[u].is
Save(v, u, x) == v.user[u] = user[u] /\ user' = [user EXCEPT ![u] = Settled(v, u, x)]
Rest(v) == UNCHANGED <<link, asked>> /\ Ends(v)

\* Mutant: the role is kept for later whatever the account is.
AlwaysDeferred(v, u, roles) == roles \ {"Employee"}
assigned(v, u, roles) == IF has_employee(v, u) THEN roles ELSE roles \ {"Employee"}
create_user(v, u, roles) ==
  /\ ~v.user[u].is /\ ~user[u].is
  /\ Save(v, u, [is |-> TRUE, enabled |-> TRUE, profile |-> FALSE, roles |-> assigned(v, u, roles)])
  /\ waived' = IF "Employee" \in roles THEN waived \ {u} ELSE waived \cup {u}
  /\ Rest(v)
\* Nothing is saved when nothing is new.
assign_roles(v, u, roles) ==
  /\ Exists(v, u)
  /\ IF roles \subseteq v.user[u].roles THEN UNCHANGED user
     ELSE Save(v, u, [v.user[u] EXCEPT !.roles = @ \cup roles])
  /\ UNCHANGED waived /\ Rest(v)
remove_roles(v, u, roles) ==
  /\ Exists(v, u)
  /\ IF roles \cap v.user[u].roles = {} THEN UNCHANGED user
     ELSE Save(v, u, [v.user[u] EXCEPT !.roles = @ \ roles])
  /\ waived' = IF "Employee" \in roles THEN waived \cup {u} ELSE waived
  /\ Rest(v)
set_user_role_profile(v, u, on) ==
  /\ Exists(v, u) /\ Save(v, u, [v.user[u] EXCEPT !.profile = on])
  /\ waived' = IF on THEN waived \cup {u} ELSE waived
  /\ Rest(v)
\* Of an account alone or of a list; what fails in a list is passed over.
set_user_enabled(v, u, enabled) ==
  /\ Exists(v, u) /\ Save(v, u, [v.user[u] EXCEPT !.enabled = enabled])
  /\ UNCHANGED waived /\ Rest(v)
\* A new password opens a locked account.
reset_user_password(v, u) == set_user_enabled(v, u, TRUE)
\* By force: the employee keeps the name of the account.
delete_user(v, u) ==
  /\ Exists(v, u) /\ user' = [user EXCEPT ![u] = NoUser] /\ UNCHANGED waived /\ Rest(v)
\* Written past the save.
DeactivateLeaver(v, e) ==
  LET u == v.link[e]
  IN /\ u # Nobody /\ Exists(v, u) /\ user' = [user EXCEPT ![u].enabled = FALSE] /\ UNCHANGED waived /\ Rest(v)

\* Mutant: the role is given before the account belongs to the employee.
LinkLast(v, e, u) == Settled(v, u, [v.user[u] EXCEPT !.roles = @ \cup {"Employee"}])
WithRole(v, e, u) ==
  Settled([v EXCEPT !.link[e] = u], u, [v.user[u] EXCEPT !.roles = @ \cup {"Employee"}])
\* The link is written; the role that was deferred is given if it can be.
link_user_to_employee(v, e, u, failing) ==
  /\ failing => faulty
  /\ Exists(v, u) /\ \A x \in Employees \ {e} : v.link[x] # u
  /\ link' = [link EXCEPT ![e] = u]
  /\ user' = IF "Employee" \in v.user[u].roles \/ v.user[u] # user[u] \/ failing THEN user
             ELSE [user EXCEPT ![u] = WithRole(v, e, u)]
  /\ waived' = IF "Employee" \in v.user[u].roles \/ ~v.user[u].profile THEN waived \ {u} ELSE waived
  /\ UNCHANGED asked /\ Ends(v)

-----------------------------------------------------------------------------
(* Corrections of the file. *)

_hr_manager_users(v) == {u \in Users : v.user[u].is /\ "HR" \in v.user[u].roles}
\* A bound: one request of an employee at a time. Each manager gets a ToDo.
request_profile_change(v, e) ==
  /\ asked[e] = {} /\ v.link[e] # Nobody
  /\ asked' = [asked EXCEPT ![e] = _hr_manager_users(v)] /\ UNCHANGED <<user, link, waived>> /\ Ends(v)
\* The ToDo that is named is closed.
cancel_profile_request(v, e, m) ==
  /\ m \in v.asked[e] /\ m \in asked[e]
  /\ asked' = [asked EXCEPT ![e] = @ \ {m}] /\ UNCHANGED <<user, link, waived>> /\ Ends(v)

-----------------------------------------------------------------------------
Init ==
  /\ user = [u \in Users |-> NoUser] /\ link = [e \in Employees |-> Nobody]
  /\ asked = [e \in Employees |-> {}] /\ waived = {}
  /\ held = {} /\ overlap \in Overlaps /\ faulty \in Faults
Next ==
  \/ Hold
  \/ \E v \in Views :
       \/ \E u \in Users, roles \in SUBSET PORTAL_ROLES :
            create_user(v, u, roles) \/ assign_roles(v, u, roles) \/ remove_roles(v, u, roles)
       \/ \E u \in Users, on \in BOOLEAN : set_user_role_profile(v, u, on) \/ set_user_enabled(v, u, on)
       \/ \E u \in Users : reset_user_password(v, u) \/ delete_user(v, u)
       \/ \E e \in Employees, u \in Users :
            \/ cancel_profile_request(v, e, u)
            \/ \E failing \in BOOLEAN : link_user_to_employee(v, e, u, failing)
       \/ \E e \in Employees : DeactivateLeaver(v, e) \/ request_profile_change(v, e)
Spec == Init /\ [][Next]_vars

-----------------------------------------------------------------------------
TypeOK ==
  /\ user \in [Users -> [is : BOOLEAN, enabled : BOOLEAN, profile : BOOLEAN, roles : SUBSET PORTAL_ROLES]]
  /\ link \in [Employees -> Users \cup {Nobody}] /\ asked \in [Employees -> SUBSET Users] /\ waived \subseteq Users

\* One request after another, and no save failing: an account is of one employee, and one that belongs
\* to an employee has his role unless HR took it, in whatever order the account, the employee and his
\* role were made (create_user: ``link_user_to_employee re-adds it once the Employee exists'').
LinkedHasRole ==
  ~overlap /\ ~faulty => \A e \in Employees :
    /\ \A x \in Employees \ {e} : link[e] = link[x] => link[e] = Nobody
    /\ link[e] # Nobody /\ user[link[e]].is => "Employee" \in user[link[e]].roles \/ link[e] \in waived
\* What the answer of assign_roles lists as added is there.
AssignedIsThere ==
  [][\A u \in Users, roles \in SUBSET (PORTAL_ROLES \ {"Employee"}) :
       assign_roles(Now, u, roles) => roles \subseteq user'[u].roles]_vars
\* A request that is cancelled is with no manager any more (cancel_profile_request).
CancelledIsGone ==
  [][\A e \in Employees, m \in Users : cancel_profile_request(Now, e, m) => asked'[e] = {}]_vars
=============================================================================
