----------------------------- MODULE MCCheckout -----------------------------
(* CheckoutMiss for TLC, three ways in one run, told by `story': check-ins, the hourly job, HR and the employee two
at a time (the constants of the configuration); every operation, one at a time; and HR around a payroll
calculation.  HourlySpec is the hourly job and what can hold it up, with the fairness of the scheduler. *)
EXTENDS CheckoutMiss, TLC
CONSTANTS r1, r2, j1
VARIABLE story
storyVars == <<story, vars>>

Symmetry == Permutations(Requests)
Serial == INSTANCE CheckoutMiss WITH MaxInFlight <- 1,
  Ops <- {"waive", "penalise", "close", "explain", "appeal", "autoclose", "checkin", "recalc", "create", "delete"}
Payroll == INSTANCE CheckoutMiss WITH MaxInFlight <- 1,
  Ops <- {"create", "waive", "penalise", "reopen", "appeal", "explain", "calculate"}

\* A bound: one request at a time, only the first shift ends, and a second ticket follows one that was deleted
\* before anybody explained it or appealed.
First == story = "serial" => /\ shift[2] = [due |-> FALSE, flag |-> FALSE, out |-> "none", real |-> "none", autos |-> 0]
                             /\ \A r \in Requests : req[r].session # 2
Second == story = "serial" /\ Status(2) # "None" =>
            appeals[1] = 0 /\ Status(1) \in {"Deleted", "Pending", "Closed"}

StoryInit == story \in {"serial", "overlap", "payroll"} /\ Init
StoryNext ==
  /\ story' = story
  /\ \/ story = "overlap" /\ Next
     \/ story = "serial"  /\ Serial!Next /\ First'
     \/ story = "payroll" /\ Payroll!Next
StorySpec == StoryInit /\ [][StoryNext]_storyVars
HourlySpec == story = "hourly" /\ Init /\ [][story' = story /\ Next]_storyVars /\ SchedulerFairness

-----------------------------------------------------------------------------
\* One request at a time: a decided ticket changes by HR or by its one appeal only (appeal_checkout_miss).
StandsAlone == [][story # "overlap" => Stands /\ OneAppeal']_storyVars
=============================================================================
