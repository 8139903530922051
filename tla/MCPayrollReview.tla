-------------------------- MODULE MCPayrollReview --------------------------
(* Instances of PayrollReview for TLC. *)
EXTENDS PayrollReview, TLC

CONSTANTS e1, e2, r1, r2, j1

\* In a run whose employees all have the same rights they are interchangeable.
EmployeeSymmetry == Permutations(Employees)
RequestSymmetry  == Permutations(Requests)

\* The endpoints called in a run ("claim" is calculate_payroll_review).
HROps  == {"claim", "approve", "generate", "retry", "publish", "update", "delete",
           "cancel", "reopen"}
AckOps == {"request", "reject", "confirm", "pay"}
SlipOps == HROps \cup {"confirm"}
AllOps  == HROps \cup AckOps \cup {"adjust"}
AutoOps == {"claim", "approve", "generate", "publish", "reopen"} \cup AckOps
=============================================================================
