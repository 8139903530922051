----------------------------- MODULE MCPayCalc -----------------------------
(* Instances of PayCalc for TLC: a day of twelve ticks, two to the hour. *)
EXTENDS PayCalc, TLC
MCShift  == [start |-> 4, end |-> 8, pre |-> TRUE, post |-> TRUE]
MCPolicy == [graceLate |-> 1, graceEarly |-> 0, tolerance |-> 1, full |-> 4, half |-> 2, perMinute |-> FALSE,
             compLate |-> FALSE, compEarly |-> FALSE, minOvertime |-> 0, approval |-> TRUE,
             rounding |-> "No Rounding", unit |-> 2, maxTotal |-> 10, maxOvertime |-> 4]
MCBand   == <<10, 2>>
MCBrackets == <<[from |-> 4, to |-> 9, coeff |-> 10], [from |-> 9, to |-> 4, coeff |-> 15]>>
MCRules  == <<[from |-> 1, to |-> 2, type |-> "Per Minute", value |-> 30],
              [from |-> 3, to |-> 9, type |-> "Half Day", value |-> 0]>>
MCDays ==
  [in : {NoLog, 4, 6, 7}, out : {NoLog, 8, 11}, leave : {"None", "Approved", "Rejected"}, holiday : BOOLEAN]
Unapproved == [MCPolicy EXCEPT !.approval = FALSE]
=============================================================================
