--------------------------- MODULE MCSalaryAdvance ---------------------------
(* SalaryAdvance for TLC and for the proofs: an instance under names of its own, and what the run checks of it. *)
EXTENDS Naturals, TLC

CONSTANTS Advances, Deductions, Callers, Days, Sums, Eligibles, Quota, CutoffDay, Steps, Endpoints, AtOnce
VARIABLES advance, deduction, signed, eligible, window, inflight

Sa == INSTANCE SalaryAdvance WITH
  Requests <- Callers, Amounts <- Sums, Ops <- Endpoints, MaxInFlight <- AtOnce, period <- window, req <- inflight

ASSUME AdvanceNumbers == Sa!AdvancePlan

AdvanceSpec == Sa!Spec

\* Every request slot behaves alike.
RequestSymmetry == Permutations(Callers)

AllOps == {"submit", "update", "cancel", "approve", "reject", "return", "pay", "reverse", "calculate", "desk"}

-----------------------------------------------------------------------------
(* What the run checks. *)

\* Types of the requests, the deductions, the policy's cap, the payroll period.
AdvancesTyped == Sa!TypeOK

\* However often a payment is recorded, reversed and recorded again, and by whom, at most
\* one of the Additional Salaries the request was ever linked with takes it back from the
\* slip, whatever others its payments lost.
OneLiveDeduction == Sa!OneLiveDeduction

\* What the Additional Salary deducts is what employee_advance_deductions puts on the
\* payroll line.
AmountsAgree == Sa!AmountsAgree

\* Nobody sanctions more than was asked for, whatever the employee edits meanwhile.
ApprovedWithinAsked == Sa!ApprovedWithinAsked

\* An approved request has been approved at every step of the matrix since it was sent.
AllStepsSigned == Sa!AllStepsSigned

\* An approved request is not edited, withdrawn, returned or taken back to a pending state
\* by a request that was under way when it was approved.
ApprovedStands == Sa!ApprovedStands
=============================================================================
