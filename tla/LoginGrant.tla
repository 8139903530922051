----------------------------- MODULE LoginGrant -----------------------------
(***************************************************************************)
(* What a QR login promises, without saying how: a code shown on a login    *)
(* page waits, one employee confirms it, and the browser that shows it gets *)
(* in once, as that employee.  WebQr implements it.                         *)
(***************************************************************************)
CONSTANTS Codes, Users, NoUser

VARIABLE grant

Waiting     == [state |-> "waiting",  user |-> NoUser]
Approved(u) == [state |-> "approved", user |-> u]
Entered(u)  == [state |-> "in",       user |-> u]

Init == grant = [c \in Codes |-> Waiting]

Confirm(c, u) == /\ grant[c] = Waiting
                 /\ grant' = [grant EXCEPT ![c] = Approved(u)]

Enter(c, u) == /\ grant[c] = Approved(u)
               /\ grant' = [grant EXCEPT ![c] = Entered(u)]

Next == \E c \in Codes, u \in Users : Confirm(c, u) \/ Enter(c, u)

Spec == Init /\ [][Next]_grant
=============================================================================
