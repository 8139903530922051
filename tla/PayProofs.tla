----------------------------- MODULE PayProofs -----------------------------
(* Theorems about PayrollReview, for every number of employees, requests,   *)
(* slips and amounts, and about SalaryAdvance, for any number of advances,  *)
(* deductions, requests, steps and amounts.                                 *)
EXTENDS PayrollReview, MCSalaryAdvance, SequenceTheorems, FiniteSetTheorems, TLAPS

Workers == Requests \cup Jobs

\* What a request is going to write still exists when it writes it: a deletion takes
\* the slip out of the reads of every other request (Disturbed).
RefsExist ==
  \A r \in Workers : /\ req[r].slip \in Existing \cup {NoSlip}
                     /\ req[r].drafts \subseteq Existing
                     /\ req[r].filed \subseteq Existing

Typed == TypeOK /\ RefsExist

-----------------------------------------------------------------------------
(* Lemmas about the building blocks of the actions. *)

\* A commit leaves the other requests well typed.
LEMMA DisturbedType ==
  ASSUME TypeOK, NEW q \in Workers, NEW period \in BOOLEAN, NEW E, NEW S, NEW D
  PROVE  Disturbed(q, period, E, S, D) \in Request
  <1> DEFINE fresh  == Disturbed(q, period, E, S, D).fresh
             slip   == IF req[q].slip \in D THEN NoSlip ELSE req[q].slip
             drafts == req[q].drafts \ D
             filed  == req[q].filed \ ((S \ {req[q].slip}) \cup D)
  <1>1. req[q] \in Request
    BY DEF TypeOK, Workers
  <1>2. req[q].fresh \in BOOLEAN
    BY <1>1 DEF Request
  <1>3. fresh \in BOOLEAN
    BY <1>1, <1>2 DEF Disturbed, Request
  <1>4. slip \in Slips \cup {NoSlip} /\ drafts \subseteq Slips /\ filed \subseteq Slips
    BY <1>1 DEF Request
  <1>5. Disturbed(q, period, E, S, D)
        = [req[q] EXCEPT !.fresh = fresh, !.slip = slip, !.drafts = drafts, !.filed = filed]
    BY <1>1 DEF Disturbed, Request
  <1> HIDE DEF fresh, slip, drafts, filed
  <1> QED BY <1>1, <1>3, <1>4, <1>5 DEF Request

\* An idle request is a request.
LEMMA IdleType == Idle \in Request
  BY DEF Idle, Request, Statuses, OpNames

\* A commit types the requests in flight.
LEMMA CommitType ==
  ASSUME TypeOK, NEW r \in Workers, NEW period \in BOOLEAN, NEW E, NEW S, NEW D,
         Commit(r, period, E, S, D)
  PROVE  req' \in [Requests \cup Jobs -> Request]
  BY DisturbedType, IdleType DEF Commit, Workers

\* An element of a sequence of lines is a line.
LEMMA LineOf ==
  ASSUME TypeOK, NEW e \in Employees, NEW i \in DOMAIN lines[e]
  PROVE  lines[e][i] \in Line
  <1>1. lines[e] \in Seq(Line) BY DEF TypeOK
  <1> QED BY <1>1

\* Rewriting the lines of an employee one by one leaves a sequence of lines.
LEMMA LinesRewritten ==
  ASSUME NEW q \in Seq(Line), NEW f, f \in [DOMAIN q -> Line]
  PROVE  f \in Seq(Line)
  <1>1. DOMAIN q = 1..Len(q) /\ Len(q) \in Nat
    BY LenProperties
  <1>2. f \in [1..Len(q) -> Line]
    BY <1>1
  <1> QED BY <1>1, <1>2, SeqDef

\* A manual adjustment leaves a sequence of lines.
LEMMA FirstLineRewritten ==
  ASSUME NEW q \in Seq(Line), NEW net \in Amounts
  PROVE  [q EXCEPT ![1].net = net] \in Seq(Line)
  <1>1. q \in [DOMAIN q -> Line]
    BY LenProperties
  <1>2. [q EXCEPT ![1].net = net] \in [DOMAIN q -> Line]
    BY <1>1 DEF Line
  <1> QED BY <1>2, LinesRewritten

\* A generated slip is a complete one.
LEMMA NewSlipType == \A net \in Amounts : NewSlip(net) \in Slip
  BY DEF NewSlip, Slip, AckStates

\* An existing slip is a complete one.
LEMMA ExistingType ==
  ASSUME TypeOK, NEW s \in Existing
  PROVE  s \in Slips /\ slips[s] \in Slip
  BY DEF TypeOK, Existing

\* A request that begins refers to slips it has just read.
LEMMA StartTyped ==
  ASSUME Typed, NEW r \in Workers, NEW call \in Request, Start(r, call),
         call.slip \in Existing \cup {NoSlip},
         call.drafts \subseteq Existing, call.filed \subseteq Existing
  PROVE  Typed'
  <1>1. UNCHANGED db
    BY DEF Start
  <1>2. req' = [req EXCEPT ![r] = call]
    BY DEF Start
  <1>3. req' \in [Requests \cup Jobs -> Request]
    BY <1>2 DEF Typed, TypeOK, Workers
  <1>4. TypeOK'
    BY <1>1, <1>3 DEF Typed, TypeOK, db
  <1>5. Existing' = Existing
    BY <1>1 DEF Existing, db
  <1>6. RefsExist'
    BY <1>2, <1>5 DEF Typed, TypeOK, RefsExist, Workers
  <1> QED BY <1>4, <1>6 DEF Typed

\* A commit that deletes no other slips than those it takes out of the others' reads.
LEMMA CommitTyped ==
  ASSUME Typed, NEW r \in Workers, NEW period \in BOOLEAN, NEW E, NEW S, NEW D,
         Commit(r, period, E, S, D), Existing \ D \subseteq Existing'
  PROVE  RefsExist' /\ req' \in [Requests \cup Jobs -> Request]
  <1>1. req' \in [Requests \cup Jobs -> Request]
    BY CommitType DEF Typed
  <1>2. ASSUME NEW q \in Workers
        PROVE  /\ req'[q].slip \in Existing' \cup {NoSlip}
               /\ req'[q].drafts \subseteq Existing'
               /\ req'[q].filed \subseteq Existing'
    <2>1. CASE q = r
      <3>1. req'[q] = Idle
        BY <2>1 DEF Commit, Workers
      <3> QED BY <3>1 DEF Idle
    <2>2. CASE q # r
      <3>1. req'[q] = Disturbed(q, period, E, S, D)
        BY <2>2 DEF Commit, Workers
      <3>2. req[q] \in Request
        BY DEF Typed, TypeOK, Workers
      <3>3. /\ req'[q].slip = IF req[q].slip \in D THEN NoSlip ELSE req[q].slip
            /\ req'[q].drafts = req[q].drafts \ D
            /\ req'[q].filed = req[q].filed \ ((S \ {req[q].slip}) \cup D)
        BY <3>1, <3>2 DEF Disturbed, Request
      <3> QED BY <3>3 DEF Typed, RefsExist
    <2> QED BY <2>1, <2>2
  <1> QED BY <1>1, <1>2 DEF RefsExist

\* A step that only empties a request slot.
LEMMA IdleTyped ==
  ASSUME Typed, NEW r \in Workers, req' = [req EXCEPT ![r] = Idle], UNCHANGED db
  PROVE  Typed'
  <1>1. req' \in [Requests \cup Jobs -> Request]
    BY IdleType DEF Typed, TypeOK, Workers
  <1>2. TypeOK'
    BY <1>1 DEF Typed, TypeOK, db
  <1>3. Existing' = Existing
    BY DEF Existing, db
  <1>4. RefsExist'
    BY <1>3 DEF Typed, TypeOK, RefsExist, Workers, Idle
  <1> QED BY <1>2, <1>4 DEF Typed

-----------------------------------------------------------------------------
(* Every step keeps the types and the references. *)

\* Every query of slips returns existing ones.
LEMMA DraftsExist == Drafts \subseteq Existing /\ Submitted \subseteq Existing
                     /\ LinkedSlips \subseteq Existing /\ VisibleLive \subseteq Existing
                     /\ Live \subseteq Existing /\ Existing \subseteq Slips
  BY DEF Drafts, Submitted, LinkedSlips, VisibleLive, Live, Existing

\* HR's requests begin with existing slips.
LEMMA HRBeginTyped ==
  ASSUME Typed, NEW r \in Workers, HRBegin(r)
  PROVE  Typed'
  <1> USE DEF Idle, Request, OpNames, PeriodSavers
  <1>1. CASE CalculateBegin(r)
    <2> DEFINE call == [Idle EXCEPT !.op = "claim",
                 !.seen = IF \/ status = "Calculating"
                             \/ status = "Published" /\ period_has_adjustment_requests
                          THEN status ELSE "None"]
    <2>1. call \in Request
      BY IdleType, ZenonT(30) DEF Typed, TypeOK, Statuses
    <2>2. call.slip = NoSlip /\ call.drafts = {} /\ call.filed = {}
      OBVIOUS
    <2>3. Start(r, call)
      BY <1>1 DEF CalculateBegin
    <2> HIDE DEF call
    <2> QED BY <2>1, <2>2, <2>3, StartTyped
  <1>2. CASE ApproveBegin(r)
    <2> DEFINE call == [Idle EXCEPT !.op = "approve", !.fresh = TRUE]
    <2>1. call \in Request
      BY IdleType
    <2>2. call.slip = NoSlip /\ call.drafts = {} /\ call.filed = {}
      OBVIOUS
    <2>3. Start(r, call)
      BY <1>2 DEF ApproveBegin
    <2> HIDE DEF call
    <2> QED BY <2>1, <2>2, <2>3, StartTyped
  <1>3. ASSUME NEW op \in {"generate", "retry"}, GenerateBegin(r, op)
        PROVE  Typed'
    <2> DEFINE call == [Idle EXCEPT !.op = op, !.fresh = TRUE, !.drafts = Drafts,
                          !.emps = {s[1] : s \in Submitted}]
    <2>1. Drafts \subseteq Slips /\ {s[1] : s \in Submitted} \subseteq Employees
      BY DraftsExist DEF Slips
    <2>2. call \in Request
      BY <2>1, IdleType
    <2>3. call.slip = NoSlip /\ call.drafts = Drafts /\ call.filed = {}
      OBVIOUS
    <2>4. Start(r, call)
      BY <1>3 DEF GenerateBegin
    <2> HIDE DEF call
    <2> QED BY <2>2, <2>3, <2>4, StartTyped, DraftsExist
  <1>4. CASE PublishBegin(r)
    <2> DEFINE call == [Idle EXCEPT !.op = "publish", !.fresh = TRUE]
    <2>1. call \in Request
      BY IdleType
    <2>2. call.slip = NoSlip /\ call.drafts = {} /\ call.filed = {}
      OBVIOUS
    <2>3. Start(r, call)
      BY <1>4 DEF PublishBegin
    <2> HIDE DEF call
    <2> QED BY <2>1, <2>2, <2>3, StartTyped
  <1>5. CASE UpdateBegin(r)
    <2> DEFINE call == [Idle EXCEPT !.op = "update", !.fresh = TRUE]
    <2>1. call \in Request
      BY IdleType
    <2>2. call.slip = NoSlip /\ call.drafts = {} /\ call.filed = {}
      OBVIOUS
    <2>3. Start(r, call)
      BY <1>5 DEF UpdateBegin
    <2> HIDE DEF call
    <2> QED BY <2>1, <2>2, <2>3, StartTyped
  <1>6. CASE DeleteBegin(r)
    <2> DEFINE call == [Idle EXCEPT !.op = "delete"]
    <2>1. call \in Request
      BY IdleType
    <2>2. call.slip = NoSlip /\ call.drafts = {} /\ call.filed = {}
      OBVIOUS
    <2>3. Start(r, call)
      BY <1>6 DEF DeleteBegin
    <2> HIDE DEF call
    <2> QED BY <2>1, <2>2, <2>3, StartTyped
  <1>7. CASE CancelBegin(r)
    <2> DEFINE call == [Idle EXCEPT !.op = "cancel", !.drafts = LinkedSlips,
                          !.emps = LinkedEmployees]
    <2>1. LinkedSlips \subseteq Slips /\ LinkedEmployees \subseteq Employees
      BY DraftsExist DEF LinkedEmployees
    <2>2. call \in Request
      BY <2>1, IdleType
    <2>3. call.slip = NoSlip /\ call.drafts = LinkedSlips /\ call.filed = {}
      OBVIOUS
    <2>4. Start(r, call)
      BY <1>7 DEF CancelBegin
    <2> HIDE DEF call
    <2> QED BY <2>2, <2>3, <2>4, StartTyped, DraftsExist
  <1>8. ASSUME NEW e \in Employees, AdjustBegin(r, e)
        PROVE  Typed'
    <2> DEFINE call == [Idle EXCEPT !.op = "adjust", !.emp = e, !.fresh = TRUE]
    <2>1. call \in Request
      BY IdleType
    <2>2. call.slip = NoSlip /\ call.drafts = {} /\ call.filed = {}
      OBVIOUS
    <2>3. Start(r, call)
      BY <1>8 DEF AdjustBegin
    <2> HIDE DEF call
    <2> QED BY <2>1, <2>2, <2>3, StartTyped
  <1>9. CASE ReopenBegin(r)
    <2> DEFINE call == [Idle EXCEPT !.op = "reopen", !.drafts = Drafts, !.filed = Submitted]
    <2>1. call \in Request
      BY DraftsExist, IdleType
    <2>2. call.slip = NoSlip /\ call.drafts = Drafts /\ call.filed = Submitted
      OBVIOUS
    <2>3. Start(r, call)
      BY <1>9 DEF ReopenBegin
    <2> HIDE DEF call
    <2> QED BY <2>1, <2>2, <2>3, StartTyped, DraftsExist
  <1> QED
    BY <1>1, <1>2, <1>3, <1>4, <1>5, <1>6, <1>7, <1>8, <1>9 DEF HRBegin

\* The confirmation of a slip, by its employee or by the job.
LEMMA ConfirmTyped ==
  ASSUME Typed, NEW r \in Workers, NEW s \in Slips, Confirm(r, s)
  PROVE  Typed'
  <1> DEFINE call == [Idle EXCEPT !.op = "confirm", !.slip = s, !.full = AllConfirmedWith(s),
                        !.filed = VisibleLive \cap Drafts]
  <1>1. AllConfirmedWith(s) \in BOOLEAN
    BY DEF AllConfirmedWith
  <1>2. VisibleLive \cap Drafts \subseteq Slips
    BY DraftsExist
  <1>3. call \in Request
    BY <1>1, <1>2, IdleType DEF Idle, Request, OpNames
  <1>4. call.slip = s /\ call.drafts = {} /\ call.filed = VisibleLive \cap Drafts
    BY DEF Idle
  <1>5. Start(r, call) /\ s \in Existing
    BY DEF Confirm
  <1> HIDE DEF call
  <1> QED BY <1>3, <1>4, <1>5, StartTyped, DraftsExist

\* Requests about one slip begin with an existing one.
LEMMA SlipBeginTyped ==
  ASSUME Typed, NEW r \in Workers, SlipBegin(r)
  PROVE  Typed'
  <1> USE DEF Idle, Request, OpNames
  <1>1. PICK s \in Slips : \/ RequestBegin(r, s) \/ RejectBegin(r, s)
                           \/ ConfirmBegin(r, s) \/ PayBegin(r, s)
    BY DEF SlipBegin
  <1>2. CASE ConfirmBegin(r, s)
    BY <1>2, ConfirmTyped DEF ConfirmBegin
  <1>3. CASE RequestBegin(r, s)
    <2> DEFINE call == [Idle EXCEPT !.op = "request", !.slip = s]
    <2>1. call \in Request
      BY IdleType
    <2>2. call.slip = s /\ call.drafts = {} /\ call.filed = {}
      OBVIOUS
    <2>3. Start(r, call) /\ s \in Existing
      BY <1>3 DEF RequestBegin
    <2> HIDE DEF call
    <2> QED BY <2>1, <2>2, <2>3, StartTyped
  <1>4. CASE RejectBegin(r, s)
    <2> DEFINE call == [Idle EXCEPT !.op = "reject", !.slip = s]
    <2>1. call \in Request
      BY IdleType
    <2>2. call.slip = s /\ call.drafts = {} /\ call.filed = {}
      OBVIOUS
    <2>3. Start(r, call) /\ s \in Existing
      BY <1>4 DEF RejectBegin
    <2> HIDE DEF call
    <2> QED BY <2>1, <2>2, <2>3, StartTyped
  <1>5. CASE PayBegin(r, s)
    <2> DEFINE call == [Idle EXCEPT !.op = "pay", !.slip = s]
    <2>1. call \in Request
      BY IdleType
    <2>2. call.slip = s /\ call.drafts = {} /\ call.filed = {}
      OBVIOUS
    <2>3. Start(r, call) /\ s \in Existing
      BY <1>5 DEF PayBegin
    <2> HIDE DEF call
    <2> QED BY <2>1, <2>2, <2>3, StartTyped
  <1> QED BY <1>1, <1>2, <1>3, <1>4, <1>5

\* The steps that leave the slips alone.
LEMMA NoSlipStep ==
  ASSUME Typed, NEW r \in Workers, NEW period \in BOOLEAN, NEW E,
         Commit(r, period, E, {}, {}), UNCHANGED slips
  PROVE  /\ slips' \in [Slips -> Slip \cup {NoSlip}]
         /\ req' \in [Requests \cup Jobs -> Request]
         /\ RefsExist'
  <1>1. Existing' = Existing
    BY DEF Existing
  <1>2. slips' \in [Slips -> Slip \cup {NoSlip}]
    BY DEF Typed, TypeOK
  <1> QED BY <1>1, <1>2, CommitTyped

\* A calculation claims the period.
LEMMA ClaimTyped ==
  ASSUME Typed, NEW r \in Workers, Claim(r)
  PROVE  Typed'
  <1> DEFINE calc == [Idle EXCEPT !.op = "calculating",
                        !.fresh = \A e \in Employees : Len(lines[e]) <= 1,
                        !.emps = {e \in Employees : lines[e] = <<>>}]
  <1>1. (\A e \in Employees : Len(lines[e]) <= 1) \in BOOLEAN
    OBVIOUS
  <1>2. calc \in Request /\ calc.slip = NoSlip /\ calc.drafts = {} /\ calc.filed = {}
    BY <1>1, IdleType DEF Idle, Request, OpNames
  <1>3. \E call \in {calc, Idle} : req' = [req EXCEPT ![r] = call]
    BY DEF Claim
  <1> HIDE DEF calc
  <1>4. PICK call \in Request : /\ req' = [req EXCEPT ![r] = call]
                                /\ call.slip = NoSlip /\ call.drafts = {} /\ call.filed = {}
    BY <1>2, <1>3, IdleType DEF Idle
  <1>5. req' \in [Requests \cup Jobs -> Request]
    BY <1>4 DEF Typed, TypeOK, Workers
  <1>6. status' \in Statuses
    BY DEF Claim, Typed, TypeOK, Statuses
  <1>7. TypeOK'
    BY <1>5, <1>6 DEF Claim, Typed, TypeOK
  <1>8. Existing' = Existing
    BY DEF Claim, Existing
  <1>9. RefsExist'
    BY <1>4, <1>8 DEF Typed, TypeOK, RefsExist, Workers
  <1> QED BY <1>7, <1>9 DEF Typed

\* A calculation.
LEMMA CalculateTyped ==
  ASSUME Typed, NEW r \in Workers, CalculateFinish(r)
  PROVE  Typed'
  <1>1. PICK net \in [Employees -> Amounts] :
          lines' = [e \in Employees |->
                     IF e \in req[r].emps THEN Append(lines[e], [net |-> net[e], slip |-> NoSlip])
                     ELSE [lines[e] EXCEPT ![1].net = net[e]]]
    BY DEF CalculateFinish
  <1>2. ASSUME NEW e \in Employees
        PROVE  lines'[e] \in Seq(Line)
    <2>1. lines[e] \in Seq(Line) /\ net[e] \in Amounts
      BY DEF Typed, TypeOK
    <2>2. [net |-> net[e], slip |-> NoSlip] \in Line
      BY <2>1 DEF Line, Link
    <2>3. Append(lines[e], [net |-> net[e], slip |-> NoSlip]) \in Seq(Line)
      BY <2>1, <2>2, AppendProperties
    <2>4. [lines[e] EXCEPT ![1].net = net[e]] \in Seq(Line)
      BY <2>1, FirstLineRewritten
    <2> QED BY <1>1, <2>3, <2>4
  <1>3. lines' \in [Employees -> Seq(Line)]
    BY <1>1, <1>2
  <1>4. /\ status' \in Statuses /\ errors' \subseteq Employees
        /\ reviewed' \in [Employees -> SUBSET Amounts]
    BY DEF CalculateFinish, Typed, TypeOK, Statuses
  <1>5. Commit(r, TRUE, Employees, {}, {}) /\ UNCHANGED slips
    BY DEF CalculateFinish
  <1> QED BY <1>3, <1>4, <1>5, NoSlipStep DEF Typed, TypeOK

\* The approval of the lines.
LEMMA ApproveTyped ==
  ASSUME Typed, NEW r \in Workers, ApproveCommit(r)
  PROVE  Typed'
  <1>1. ASSUME NEW e \in Employees
        PROVE  {lines[e][i].net : i \in DOMAIN lines[e]} \subseteq Amounts
    BY LineOf DEF Typed, Line
  <1>2. reviewed' \in [Employees -> SUBSET Amounts]
    BY <1>1 DEF ApproveCommit
  <1>3. /\ status' \in Statuses /\ errors' \subseteq Employees
        /\ lines' \in [Employees -> Seq(Line)]
    BY DEF ApproveCommit, Typed, TypeOK, Statuses
  <1>4. Commit(r, TRUE, {}, {}, {}) /\ UNCHANGED slips
    BY DEF ApproveCommit
  <1> QED BY <1>2, <1>3, <1>4, NoSlipStep DEF Typed, TypeOK

\* An edit of the period.
LEMMA UpdateTyped ==
  ASSUME Typed, NEW r \in Workers, UpdateCommit(r)
  PROVE  Typed'
  <1>1. /\ status' \in Statuses /\ errors' \subseteq Employees
        /\ lines' \in [Employees -> Seq(Line)]
        /\ reviewed' \in [Employees -> SUBSET Amounts]
    BY DEF UpdateCommit, Typed, TypeOK, Statuses
  <1>2. Commit(r, TRUE, {}, {}, {}) /\ UNCHANGED slips
    BY DEF UpdateCommit
  <1> QED BY <1>1, <1>2, NoSlipStep DEF Typed, TypeOK

\* A deletion takes the slip out of the reads of the others.
LEMMA DeleteTyped ==
  ASSUME Typed, NEW r \in Workers, DeleteCommit(r)
  PROVE  Typed'
  <1>1. <<>> \in Seq(Line)
    BY EmptySeq
  <1>2. /\ status' \in Statuses /\ errors' \subseteq Employees
        /\ lines' \in [Employees -> Seq(Line)]
        /\ reviewed' \in [Employees -> SUBSET Amounts]
    BY <1>1 DEF DeleteCommit, Typed, TypeOK, Statuses
  <1>3. Commit(r, TRUE, Employees, {}, {}) /\ UNCHANGED slips
    BY DEF DeleteCommit
  <1> QED BY <1>2, <1>3, NoSlipStep DEF Typed, TypeOK

\* A manual adjustment.
LEMMA AdjustTyped ==
  ASSUME Typed, NEW r \in Workers, AdjustCommit(r)
  PROVE  Typed'
  <1>1. PICK net \in Amounts : lines' = [lines EXCEPT ![req[r].emp][1].net = net]
    BY DEF AdjustCommit
  <1>2. ASSUME NEW e \in Employees
        PROVE  lines'[e] \in Seq(Line)
    <2>1. lines[e] \in Seq(Line)
      BY DEF Typed, TypeOK
    <2>2. [lines[e] EXCEPT ![1].net = net] \in Seq(Line)
      BY <2>1, FirstLineRewritten
    <2>3. lines'[e] = lines[e] \/ lines'[e] = [lines[e] EXCEPT ![1].net = net]
      BY <1>1 DEF Typed, TypeOK
    <2> QED BY <2>1, <2>2, <2>3
  <1>3. lines' \in [Employees -> Seq(Line)]
    BY <1>1, <1>2 DEF Typed, TypeOK
  <1>4. /\ status' \in Statuses /\ errors' \subseteq Employees
        /\ reviewed' \in [Employees -> SUBSET Amounts]
    BY DEF AdjustCommit, Typed, TypeOK
  <1>5. Commit(r, TRUE, {req[r].emp}, {}, {}) /\ UNCHANGED slips
    BY DEF AdjustCommit
  <1> QED BY <1>3, <1>4, <1>5, NoSlipStep DEF Typed, TypeOK

\* Updating a field of a slip leaves a slip.
LEMMA SlipUpdated ==
  ASSUME NEW old \in Slip
  PROVE  /\ [old EXCEPT !.visible = TRUE] \in Slip
         /\ [old EXCEPT !.overdue = TRUE] \in Slip
         /\ [old EXCEPT !.doc = "submitted"] \in Slip
         /\ [old EXCEPT !.ack = "Requested"] \in Slip
         /\ [old EXCEPT !.ack = "Awaiting Payment"] \in Slip
         /\ [old EXCEPT !.ack = "Paid"] \in Slip
         /\ [old EXCEPT !.ack = "", !.rejected = TRUE] \in Slip
         /\ AckReset(old) \in Slip
         /\ [AckReset(old) EXCEPT !.doc = "cancelled"] \in Slip
  BY DEF Slip, AckReset, AckStates

\* The steps that rewrite slips and delete none but those in D.
LEMMA SlipsTyped ==
  ASSUME Typed, NEW r \in Workers, NEW period \in BOOLEAN, NEW E, NEW S, NEW D,
         Commit(r, period, E, S, D),
         NEW f, slips' = [s \in Slips |-> f[s]],
         \A s \in Slips : f[s] \in Slip \cup {NoSlip},
         \A s \in Existing \ D : f[s] \in Slip
  PROVE  /\ slips' \in [Slips -> Slip \cup {NoSlip}]
         /\ req' \in [Requests \cup Jobs -> Request]
         /\ RefsExist'
  <1>1. slips' \in [Slips -> Slip \cup {NoSlip}]
    OBVIOUS
  <1>2. Existing \ D \subseteq Existing'
    BY NoSlipAssumption DEF Existing
  <1> QED BY <1>1, <1>2, CommitTyped

\* The slips of an employee are replaced by a new one.
LEMMA ReplaceTyped ==
  ASSUME Typed, NEW r \in Workers, NEW made \in SUBSET Employees, NEW D,
         NEW slot \in [made -> 1..MaxSlips],
         NEW kept \in [made -> UNION {Todo(r, e) : e \in made}],
         Replace(r, made, D, slot, kept)
  PROVE  /\ slips' \in [Slips -> Slip \cup {NoSlip}]
         /\ lines' \in [Employees -> Seq(Line)]
         /\ errors' \subseteq Employees
         /\ req' \in [Requests \cup Jobs -> Request]
         /\ RefsExist'
  <1> DEFINE f == [s \in Slips |->
       IF s[1] \in made /\ s[2] = slot[s[1]] THEN NewSlip(lines[s[1]][kept[s[1]]].net)
       ELSE IF s \in D THEN NoSlip ELSE slips[s]]
  <1>1. ASSUME NEW e \in made
        PROVE  NewSlip(lines[e][kept[e]].net) \in Slip
    <2>1. e \in Employees /\ kept[e] \in DOMAIN lines[e]
      BY DEF Replace, Todo
    <2>2. lines[e][kept[e]].net \in Amounts
      BY <2>1, LineOf DEF Typed, Line
    <2> QED BY <2>2, NewSlipType
  <1>2. \A s \in Slips : f[s] \in Slip \cup {NoSlip}
    BY <1>1 DEF Typed, TypeOK
  <1>3. \A s \in Existing \ D : f[s] \in Slip
    BY <1>1, ExistingType DEF Typed
  <1>4. ASSUME NEW e \in Employees
        PROVE  lines'[e] \in Seq(Line)
    <2> DEFINE row(i) == [lines[e][i] EXCEPT !.slip =
                    IF e \in made /\ i \in Todo(r, e)
                    THEN IF i = kept[e] THEN <<e, slot[e]>> ELSE Gone
                    ELSE IF @ \in D THEN Gone ELSE @]
    <2>1. ASSUME NEW i \in DOMAIN lines[e]
          PROVE  row(i) \in Line
      <3>1. lines[e][i] \in Line
        BY LineOf DEF Typed
      <3>2. e \in made => <<e, slot[e]>> \in Slips
        BY DEF Slips
      <3> QED BY <3>1, <3>2 DEF Line, Link
    <2>2. lines'[e] = [i \in DOMAIN lines[e] |-> row(i)]
      BY DEF Replace
    <2> HIDE DEF row
    <2>3. lines'[e] \in [DOMAIN lines[e] -> Line]
      BY <2>1, <2>2
    <2>4. lines[e] \in Seq(Line)
      BY DEF Typed, TypeOK
    <2> QED BY <2>3, <2>4, LinesRewritten
  <1>5. lines' \in [Employees -> Seq(Line)] /\ errors' \subseteq Employees
    BY <1>4 DEF Replace, ToGenerate
  <1>6. slips' = [s \in Slips |-> f[s]] /\ Commit(r, TRUE, made, {}, D)
    BY DEF Replace
  <1> HIDE DEF f
  <1> QED BY <1>2, <1>3, <1>5, <1>6, SlipsTyped

\* A generation.
LEMMA GenerateTyped ==
  ASSUME Typed, NEW r \in Workers, GenerateCommit(r)
  PROVE  Typed'
  <1>1. PICK made \in SUBSET (ToGenerate(r) \ req[r].emps) :
          \E broken \in SUBSET (ToGenerate(r) \ made),
             slot \in [made -> 1..MaxSlips], kept \in [made -> UNION {Todo(r, e) : e \in made}] :
            Replace(r, made, Deleted(r, made \cup broken), slot, kept)
    BY DEF GenerateCommit
  <1>2. made \in SUBSET Employees
    BY DEF ToGenerate
  <1>3. /\ status' \in Statuses /\ reviewed' \in [Employees -> SUBSET Amounts]
    BY DEF GenerateCommit, Typed, TypeOK, Statuses
  <1> QED BY <1>1, <1>2, <1>3, ReplaceTyped DEF Typed, TypeOK

\* The publication.
LEMMA PublishTyped ==
  ASSUME Typed, NEW r \in Workers, PublishCommit(r)
  PROVE  Typed'
  <1> DEFINE shown == {s \in LinkedSlips : s[1] \notin Withheld}
             f == [s \in Slips |-> IF s \in shown THEN [slips[s] EXCEPT !.visible = TRUE]
                                                 ELSE slips[s]]
  <1>1. slips' = [s \in Slips |-> f[s]] /\ Commit(r, TRUE, {}, shown, {})
    BY DEF PublishCommit
  <1>2. \A s \in Existing : f[s] \in Slip
    BY ExistingType, SlipUpdated DEF Typed
  <1>3. \A s \in Slips \ Existing : f[s] = NoSlip
    BY DraftsExist DEF Existing
  <1>4. /\ status' \in Statuses /\ errors' \subseteq Employees
        /\ lines' \in [Employees -> Seq(Line)]
        /\ reviewed' \in [Employees -> SUBSET Amounts]
    BY DEF PublishCommit, Typed, TypeOK, Statuses
  <1> HIDE DEF f, shown
  <1> QED BY <1>1, <1>2, <1>3, <1>4, SlipsTyped DEF Typed, TypeOK

\* A slip is cancelled.
LEMMA CancelTyped ==
  ASSUME Typed, NEW r \in Workers, CancelCommit(r)
  PROVE  Typed'
  <1> DEFINE D == req[r].drafts
             E == req[r].emps
             f == [s \in Slips |-> IF s \in D THEN NoSlip ELSE slips[s]]
  <1>1. slips' = [s \in Slips |-> f[s]] /\ Commit(r, TRUE, E, {}, D)
    BY DEF CancelCommit
  <1>2. \A s \in Slips : f[s] \in Slip \cup {NoSlip}
    BY DEF Typed, TypeOK
  <1>3. \A s \in Existing \ D : f[s] \in Slip
    BY ExistingType DEF Typed
  <1>4. ASSUME NEW e \in Employees
        PROVE  lines'[e] \in Seq(Line)
    <2>1. lines[e] \in Seq(Line) /\ \A i \in DOMAIN lines[e] : lines[e][i] \in Line
      BY LineOf DEF Typed, TypeOK
    <2>2. \A i \in DOMAIN lines[e] : [lines[e][i] EXCEPT !.slip = NoSlip] \in Line
      BY <2>1 DEF Line, Link
    <2>3. lines'[e] = [i \in DOMAIN lines[e] |->
            IF e \in req[r].emps THEN [lines[e][i] EXCEPT !.slip = NoSlip] ELSE lines[e][i]]
      BY DEF CancelCommit
    <2>4. lines'[e] \in [DOMAIN lines[e] -> Line]
      BY <2>1, <2>2, <2>3
    <2> QED BY <2>1, <2>4, LinesRewritten
  <1>5. lines' \in [Employees -> Seq(Line)]
    BY <1>4 DEF CancelCommit
  <1>6. /\ status' \in Statuses /\ errors' \subseteq Employees
        /\ reviewed' \in [Employees -> SUBSET Amounts]
    BY DEF CancelCommit, Typed, TypeOK, Statuses
  <1> HIDE DEF f, D, E
  <1>7. /\ slips' \in [Slips -> Slip \cup {NoSlip}]
        /\ req' \in [Requests \cup Jobs -> Request]
        /\ RefsExist'
    BY <1>1, <1>2, <1>3, SlipsTyped
  <1> QED BY <1>5, <1>6, <1>7 DEF Typed, TypeOK

\* The reopening.
LEMMA ReopenTyped ==
  ASSUME Typed, NEW r \in Workers, ReopenCommit(r)
  PROVE  Typed'
  <1>1. PICK cancelled \in SUBSET req[r].filed :
       /\ slips' = [s \in Slips |->
            IF s \in cancelled THEN [AckReset(slips[s]) EXCEPT !.doc = "cancelled"]
            ELSE IF s \in req[r].drafts THEN AckReset(slips[s]) ELSE slips[s]]
       /\ Commit(r, TRUE, {}, req[r].drafts \cup cancelled, {})
    BY DEF ReopenCommit
  <1> DEFINE f == [s \in Slips |->
            IF s \in cancelled THEN [AckReset(slips[s]) EXCEPT !.doc = "cancelled"]
            ELSE IF s \in req[r].drafts THEN AckReset(slips[s]) ELSE slips[s]]
  <1>2. cancelled \subseteq Existing /\ req[r].drafts \subseteq Existing
    BY DEF Typed, RefsExist
  <1>3. \A s \in Existing : f[s] \in Slip
    BY ExistingType, SlipUpdated DEF Typed
  <1>4. \A s \in Slips \ Existing : f[s] = NoSlip
    BY <1>2 DEF Existing
  <1>5. /\ status' \in Statuses /\ errors' \subseteq Employees
        /\ lines' \in [Employees -> Seq(Line)]
        /\ reviewed' \in [Employees -> SUBSET Amounts]
    BY DEF ReopenCommit, Typed, TypeOK, Statuses
  <1>6. slips' = [s \in Slips |-> f[s]] /\ Commit(r, TRUE, {}, req[r].drafts \cup cancelled, {})
    BY <1>1
  <1> HIDE DEF f
  <1> QED BY <1>3, <1>4, <1>5, <1>6, SlipsTyped DEF Typed, TypeOK

\* The blind set_value of a slip.
LEMMA StampTyped ==
  ASSUME Typed, NEW r \in Workers, NEW op, NEW stamped, StampAck(r, op, stamped),
         req[r].slip \in Existing => stamped \in Slip
  PROVE  Typed'
  <1> DEFINE f == [slips EXCEPT ![req[r].slip] = stamped]
  <1>1. req[r].slip \in Existing
    BY DEF Typed, RefsExist, StampAck
  <1>2. slips' = [s \in Slips |-> f[s]] /\ Commit(r, FALSE, {}, {req[r].slip}, {})
    BY DEF StampAck, Typed, TypeOK
  <1>3. \A s \in Existing : f[s] \in Slip
    BY <1>1, ExistingType DEF Typed, TypeOK
  <1>4. \A s \in Slips \ Existing : f[s] = NoSlip
    BY <1>1 DEF Existing, Typed, TypeOK
  <1>5. /\ status' \in Statuses /\ errors' \subseteq Employees
        /\ lines' \in [Employees -> Seq(Line)]
        /\ reviewed' \in [Employees -> SUBSET Amounts]
    BY DEF StampAck, Typed, TypeOK
  <1> HIDE DEF f
  <1> QED BY <1>2, <1>3, <1>4, <1>5, SlipsTyped DEF Typed, TypeOK

\* A confirmation, and the lock that comes with the last one.
LEMMA ConfirmCommitTyped ==
  ASSUME Typed, NEW r \in Workers, ConfirmCommit(r)
  PROVE  Typed'
  <1> DEFINE s == req[r].slip
             confirmed == [slips[s] EXCEPT !.ack = "Awaiting Payment"]
  <1>1. s \in Existing /\ confirmed \in Slip
    BY ExistingType, SlipUpdated DEF Typed, RefsExist, ConfirmCommit
  <1>2. /\ status' \in Statuses /\ errors' \subseteq Employees
        /\ lines' \in [Employees -> Seq(Line)]
        /\ reviewed' \in [Employees -> SUBSET Amounts]
    BY DEF ConfirmCommit, Typed, TypeOK, Statuses
  <1>3. CASE ~req[r].full
    <2> DEFINE f == [slips EXCEPT ![s] = confirmed]
    <2>1. slips' = [o \in Slips |-> f[o]] /\ Commit(r, FALSE, {}, {s}, {})
      BY <1>3 DEF ConfirmCommit, Typed, TypeOK
    <2>2. \A o \in Existing : f[o] \in Slip
      BY <1>1, ExistingType DEF Typed, TypeOK
    <2>3. \A o \in Slips \ Existing : f[o] = NoSlip
      BY <1>1 DEF Existing, Typed, TypeOK
    <2> HIDE DEF f
    <2> QED BY <1>2, <2>1, <2>2, <2>3, SlipsTyped DEF Typed, TypeOK
  <1>4. CASE req[r].full
    <2>1. PICK done \in SUBSET (req[r].filed \cap Drafts) :
                /\ slips' = [o \in Slips |->
                     LET now == IF o = s THEN confirmed ELSE slips[o]
                     IN  IF o \in done THEN [now EXCEPT !.doc = "submitted"] ELSE now]
                /\ Commit(r, TRUE, {}, done \cup {s}, {})
      BY <1>4 DEF ConfirmCommit
    <2> DEFINE now(o) == IF o = s THEN confirmed ELSE slips[o]
               f == [o \in Slips |-> IF o \in done THEN [now(o) EXCEPT !.doc = "submitted"]
                                                   ELSE now(o)]
    <2>2. \A o \in Existing : now(o) \in Slip
      BY <1>1, ExistingType DEF Typed
    <2>3. \A o \in Existing : f[o] \in Slip
      BY <2>2, SlipUpdated, DraftsExist
    <2>4. \A o \in Slips \ Existing : f[o] = NoSlip
      BY <1>1, <2>1, DraftsExist DEF Existing
    <2>5. slips' = [o \in Slips |-> f[o]] /\ Commit(r, TRUE, {}, done \cup {s}, {})
      BY <2>1
    <2> HIDE DEF f
    <2> QED BY <1>2, <2>3, <2>4, <2>5, SlipsTyped DEF Typed, TypeOK
  <1> QED BY <1>3, <1>4

\* Time.
LEMMA DaysPassTyped ==
  ASSUME Typed, NEW s \in Slips, DaysPass(s)
  PROVE  Typed'
  <1>1. s \in Existing /\ slips' = [slips EXCEPT ![s] = [slips[s] EXCEPT !.overdue = TRUE]]
    BY DEF DaysPass, Typed, TypeOK
  <1>2. [slips[s] EXCEPT !.overdue = TRUE] \in Slip
    BY <1>1, ExistingType, SlipUpdated DEF Typed
  <1>3. TypeOK'
    BY <1>1, <1>2 DEF DaysPass, Typed, TypeOK
  <1>4. Existing' = Existing
    BY <1>1, <1>2, NoSlipAssumption DEF Existing, Typed, TypeOK
  <1>5. RefsExist'
    BY <1>4 DEF DaysPass, Typed, RefsExist
  <1> QED BY <1>3, <1>5 DEF Typed

\* Commits of HR.
LEMMA PeriodStepTyped ==
  ASSUME Typed, NEW r \in Workers, PeriodStep(r)
  PROVE  Typed'
  BY ClaimTyped, CalculateTyped, ApproveTyped, GenerateTyped, PublishTyped, UpdateTyped,
     DeleteTyped, CancelTyped, AdjustTyped, ReopenTyped
  DEF PeriodStep

\* Commits about one slip.
LEMMA SlipStepTyped ==
  ASSUME Typed, NEW r \in Workers, SlipStep(r)
  PROVE  Typed'
  <1>1. \A s \in Existing : slips[s] \in Slip
    BY ExistingType DEF Typed
  <1>2. CASE RequestCommit(r)
    BY <1>1, <1>2, SlipUpdated, StampTyped DEF RequestCommit
  <1>3. CASE RejectCommit(r)
    BY <1>1, <1>3, SlipUpdated, StampTyped DEF RejectCommit
  <1>4. CASE PayCommit(r)
    BY <1>1, <1>4, SlipUpdated, StampTyped DEF PayCommit
  <1>5. CASE ConfirmCommit(r)
    BY <1>5, ConfirmCommitTyped
  <1>6. CASE StampGone(r)
    BY <1>6, IdleTyped DEF StampGone
  <1> QED BY <1>2, <1>3, <1>4, <1>5, <1>6 DEF SlipStep

\* The initial state is typed.
LEMMA TypedInit == Init => Typed
  <1> SUFFICES ASSUME Init PROVE Typed
    OBVIOUS
  <1>1. \A e \in Employees : lines[e] = <<>>
    BY DEF Init
  <1>2. TypeOK
    BY <1>1, IdleType, EmptySeq DEF Init, TypeOK, Statuses
  <1>3. RefsExist
    BY DEF Init, RefsExist, Idle, Workers
  <1> QED BY <1>2, <1>3 DEF Typed

\* Every step keeps the state typed.
LEMMA TypedStep == Typed /\ [Next]_vars => Typed'
  <1> SUFFICES ASSUME Typed, [Next]_vars PROVE Typed'
    OBVIOUS
  <1>1. CASE UNCHANGED vars
    BY <1>1 DEF vars, Typed, TypeOK, RefsExist, Existing
  <1>2. ASSUME NEW r \in Requests, HRBegin(r) \/ SlipBegin(r)
        PROVE  Typed'
    BY <1>2, HRBeginTyped, SlipBeginTyped DEF Workers
  <1>3. ASSUME NEW j \in Jobs, NEW s \in Slips, AutoConfirmBegin(j, s)
        PROVE  Typed'
    BY <1>3, ConfirmTyped DEF AutoConfirmBegin, Workers
  <1>4. ASSUME NEW r \in Requests \cup Jobs, PeriodStep(r) \/ SlipStep(r) \/ Abort(r)
        PROVE  Typed'
    BY <1>4, PeriodStepTyped, SlipStepTyped, IdleTyped DEF Workers, Abort
  <1>5. ASSUME NEW s \in Slips, DaysPass(s)
        PROVE  Typed'
    BY <1>5, DaysPassTyped
  <1> QED BY <1>1, <1>2, <1>3, <1>4, <1>5 DEF Next

\* The state is well typed and no request writes a slip that is gone.
THEOREM TypeCorrect == Spec => []TypeOK
  <1>1. Spec => []Typed
    BY TypedInit, TypedStep, PTL DEF Spec
  <1>2. Typed => TypeOK
    BY DEF Typed
  <1> QED BY <1>1, <1>2, PTL

-----------------------------------------------------------------------------
(* Only a generation puts an amount on a slip or makes a slip live. *)

SlipsKept ==
  \A s \in Slips :
    slips'[s] # NoSlip => /\ slips[s] # NoSlip
                          /\ slips'[s].net = slips[s].net
                          /\ slips'[s].doc # "cancelled" => slips[s].doc # "cancelled"

\* A step that writes no slip.
LEMMA UnchangedKept == ASSUME UNCHANGED slips PROVE SlipsKept
  BY DEF SlipsKept

\* A request for review, its rejection and a payment make no slip live either.
LEMMA StampKept ==
  ASSUME Typed, NEW r \in Workers, RequestCommit(r) \/ RejectCommit(r) \/ PayCommit(r)
  PROVE  SlipsKept
  <1> DEFINE s == req[r].slip
  <1>1. s \in Existing /\ s \in Slips /\ slips[s] \in Slip
    BY ExistingType
    DEF Typed, RefsExist, StampAck, RequestCommit, RejectCommit, PayCommit
  <1>2. PICK stamped \in {[slips[s] EXCEPT !.ack = "Requested"], [slips[s] EXCEPT !.ack = "Paid"],
                          [slips[s] EXCEPT !.ack = "", !.rejected = TRUE]} :
          slips' = [slips EXCEPT ![s] = stamped]
    BY DEF StampAck, RequestCommit, RejectCommit, PayCommit
  <1>3. stamped.net = slips[s].net /\ stamped.doc = slips[s].doc
    BY <1>1 DEF Slip
  <1>4. slips \in [Slips -> Slip \cup {NoSlip}] /\ slips[s] # NoSlip
    BY <1>1 DEF Typed, TypeOK, Existing
  <1> HIDE DEF s
  <1> QED BY <1>1, <1>2, <1>3, <1>4 DEF SlipsKept

\* A confirmation makes no slip live and changes no amount.
LEMMA ConfirmKept ==
  ASSUME Typed, NEW r \in Workers, ConfirmCommit(r)
  PROVE  SlipsKept
  <1> DEFINE s == req[r].slip
             confirmed == [slips[s] EXCEPT !.ack = "Awaiting Payment"]
  <1>1. s \in Existing /\ s \in Slips /\ slips[s] \in Slip
    BY ExistingType DEF Typed, RefsExist, ConfirmCommit
  <1>2. confirmed \in Slip /\ confirmed.net = slips[s].net /\ confirmed.doc = slips[s].doc
    BY <1>1, SlipUpdated DEF Slip
  <1>3. slips \in [Slips -> Slip \cup {NoSlip}] /\ slips[s] # NoSlip
    BY <1>1 DEF Typed, TypeOK, Existing
  <1>4. CASE ~req[r].full
    <2>1. slips' = [slips EXCEPT ![s] = confirmed]
      BY <1>4 DEF ConfirmCommit
    <2> HIDE DEF s, confirmed
    <2> QED BY <1>1, <1>2, <1>3, <2>1 DEF SlipsKept
  <1>5. CASE req[r].full
    <2> DEFINE now(o) == IF o = s THEN confirmed ELSE slips[o]
    <2>1. PICK done \in SUBSET (req[r].filed \cap Drafts) :
            slips' = [o \in Slips |-> IF o \in done THEN [now(o) EXCEPT !.doc = "submitted"]
                                                    ELSE now(o)]
      BY <1>5 DEF ConfirmCommit
    <2>2. ASSUME NEW o \in Slips, slips'[o] # NoSlip
          PROVE  /\ slips[o] # NoSlip
                 /\ slips'[o].net = slips[o].net
                 /\ slips'[o].doc # "cancelled" => slips[o].doc # "cancelled"
      <3>1. o \in done => slips[o] \in Slip /\ slips[o] # NoSlip /\ slips[o].doc = "draft"
        BY ExistingType DEF Typed, Drafts, Existing
      <3>2. now(o).net = slips[o].net /\ now(o).doc = slips[o].doc
        BY <1>2
      <3>3. slips[o] # NoSlip
        BY <1>3, <2>1, <2>2, <3>1
      <3>4. slips[o] \in Slip /\ now(o) \in Slip
        BY <1>2, <3>3 DEF Typed, TypeOK
      <3> HIDE DEF now
      <3>5. slips'[o].net = slips[o].net
        BY <2>1, <3>2, <3>4 DEF Slip
      <3>6. slips'[o].doc # "cancelled" => slips[o].doc # "cancelled"
        BY <2>1, <3>1, <3>2
      <3> QED BY <3>3, <3>5, <3>6
    <2> QED BY <2>2 DEF SlipsKept
  <1> QED BY <1>4, <1>5

\* Nor does the publication, which only makes slips visible.
LEMMA PublishKept ==
  ASSUME Typed, NEW r \in Workers, PublishCommit(r)
  PROVE  SlipsKept
  <1>1. ASSUME NEW s \in Slips
        PROVE  \/ slips'[s] = slips[s]
               \/ slips[s] # NoSlip /\ slips'[s] = [slips[s] EXCEPT !.visible = TRUE]
    BY DEF PublishCommit, LinkedSlips, Existing
  <1>2. \A s \in Slips : slips[s] # NoSlip => slips[s] \in Slip
    BY DEF Typed, TypeOK
  <1> QED BY <1>1, <1>2 DEF SlipsKept, Slip

\* Nor does the reopening, which only cancels and deletes.
LEMMA ReopenKept ==
  ASSUME Typed, NEW r \in Workers, ReopenCommit(r)
  PROVE  SlipsKept
  <1>1. req[r].drafts \subseteq Existing /\ req[r].filed \subseteq Existing
    BY DEF Typed, RefsExist
  <1>2. ASSUME NEW s \in Slips
        PROVE  \/ slips'[s] = slips[s]
               \/ s \in Existing /\ slips'[s] = AckReset(slips[s])
               \/ s \in Existing /\ slips'[s] = [AckReset(slips[s]) EXCEPT !.doc = "cancelled"]
    BY <1>1 DEF ReopenCommit
  <1>3. ASSUME NEW s \in Existing
        PROVE  /\ AckReset(slips[s]).net = slips[s].net
               /\ AckReset(slips[s]).doc = slips[s].doc
               /\ [AckReset(slips[s]) EXCEPT !.doc = "cancelled"].net = slips[s].net
               /\ [AckReset(slips[s]) EXCEPT !.doc = "cancelled"].doc = "cancelled"
               /\ slips[s] # NoSlip
    BY ExistingType DEF Typed, Slip, AckReset, Existing
  <1> QED BY <1>2, <1>3 DEF SlipsKept

\* A cancelled slip is not live any more.
LEMMA CancelKept ==
  ASSUME Typed, NEW r \in Workers, CancelCommit(r)
  PROVE  SlipsKept
  BY DEF CancelCommit, SlipsKept

\* Time writes no slip.
LEMMA DaysKept ==
  ASSUME Typed, NEW s \in Slips, DaysPass(s)
  PROVE  SlipsKept
  <1>1. s \in Existing /\ slips' = [slips EXCEPT ![s] = [slips[s] EXCEPT !.overdue = TRUE]]
    BY DEF DaysPass, Typed, TypeOK
  <1>2. slips[s] \in Slip /\ slips[s] # NoSlip
    BY <1>1, ExistingType DEF Typed, Existing
  <1> QED BY <1>1, <1>2 DEF SlipsKept, Slip, Typed, TypeOK

\* A request that begins writes no slip.
LEMMA BeginKept ==
  ASSUME NEW r \in Workers, HRBegin(r) \/ SlipBegin(r) \/ \E s \in Slips : AutoConfirmBegin(r, s)
  PROVE  UNCHANGED db
  BY DEF HRBegin, SlipBegin, AutoConfirmBegin, CalculateBegin, ApproveBegin, GenerateBegin,
         PublishBegin, UpdateBegin, DeleteBegin, CancelBegin, AdjustBegin, ReopenBegin,
         RequestBegin, RejectBegin, ConfirmBegin, Confirm, PayBegin, Start

\* Every step but a generation keeps the slips.
LEMMA KeptStep ==
  ASSUME Typed, [Next]_vars, \A r \in Workers : ~GenerateCommit(r)
  PROVE  SlipsKept
  <1>1. CASE UNCHANGED vars
    BY <1>1, UnchangedKept DEF vars
  <1>2. ASSUME NEW r \in Requests, HRBegin(r) \/ SlipBegin(r)
        PROVE  SlipsKept
    BY <1>2, BeginKept, UnchangedKept DEF Workers, db
  <1>3. ASSUME NEW j \in Jobs, NEW s \in Slips, AutoConfirmBegin(j, s)
        PROVE  SlipsKept
    BY <1>3, BeginKept, UnchangedKept DEF Workers, db
  <1>4. ASSUME NEW r \in Workers, PeriodStep(r)
        PROVE  SlipsKept
    BY <1>4, PublishKept, ReopenKept, CancelKept, UnchangedKept
    DEF PeriodStep, Claim, CalculateFinish, ApproveCommit, UpdateCommit, DeleteCommit,
        AdjustCommit
  <1>5. ASSUME NEW r \in Workers, SlipStep(r) \/ Abort(r)
        PROVE  SlipsKept
    BY <1>5, StampKept, ConfirmKept, UnchangedKept DEF SlipStep, StampGone, Abort, db
  <1>6. ASSUME NEW s \in Slips, DaysPass(s)
        PROVE  SlipsKept
    BY <1>6, DaysKept
  <1> QED BY <1>1, <1>2, <1>3, <1>4, <1>5, <1>6 DEF Next, Workers

-----------------------------------------------------------------------------
(* One live slip per employee.  The strengthening: as long as the period keeps the    *)
(* stamp a generation loaded it with, the drafts and submitted slips the generation   *)
(* read are those there are, because every step that makes, deletes, submits or       *)
(* cancels a slip gives the period a new stamp.                                       *)

GenerationSees ==
  \A r \in Workers :
    req[r].op \in {"generate", "retry"} /\ req[r].fresh
    => req[r].drafts = Drafts /\ req[r].emps = {s[1] : s \in Submitted}

\* A commit that stamps the period makes every other generation fail.
LEMMA StampedSees ==
  ASSUME Typed, NEW r \in Workers, NEW E, NEW S, NEW D, Commit(r, TRUE, E, S, D)
  PROVE  GenerationSees'
  <1>1. ASSUME NEW q \in Workers, q # r
        PROVE  req'[q].op = req[q].op /\ (req[q].op \in PeriodSavers => ~req'[q].fresh)
    BY <1>1 DEF Commit, Disturbed, Typed, TypeOK, Request, Workers
  <1>2. req'[r].op = "idle"
    BY DEF Commit, Idle, Workers
  <1> QED BY <1>1, <1>2 DEF GenerationSees, PeriodSavers

\* The others leave the document status of every slip as it is.
DocsKept ==
  \A s \in Slips : /\ slips'[s] = NoSlip <=> slips[s] = NoSlip
                   /\ slips[s] # NoSlip => slips'[s].doc = slips[s].doc

\* What a generation reads depends on the document status alone.
LEMMA DocsKeptQueries == ASSUME DocsKept PROVE Drafts' = Drafts /\ Submitted' = Submitted
  BY DEF DocsKept, Drafts, Submitted, Existing

\* A commit that keeps the document status needs no stamp.
LEMMA UnstampedSees ==
  ASSUME Typed, GenerationSees, DocsKept, NEW r \in Workers, NEW S,
         Commit(r, FALSE, {}, S, {})
  PROVE  GenerationSees'
  <1>1. ASSUME NEW q \in Workers, q # r
        PROVE  /\ req'[q].op = req[q].op /\ req'[q].emps = req[q].emps
               /\ req'[q].drafts = req[q].drafts /\ (req'[q].fresh => req[q].fresh)
    BY <1>1, ZenonT(30) DEF Commit, Disturbed, Typed, TypeOK, Request, Workers
  <1>2. req'[r].op = "idle"
    BY DEF Commit, Idle, Workers
  <1> QED BY <1>1, <1>2, DocsKeptQueries DEF GenerationSees

\* A request that begins, or goes on, without touching the slips.
LEMMA CallSees ==
  ASSUME GenerationSees, UNCHANGED slips, NEW r \in Workers,
         \A q \in Workers \ {r} : req'[q] = req[q],
         req'[r].op \in {"generate", "retry"}
         => req'[r].drafts = Drafts /\ req'[r].emps = {s[1] : s \in Submitted}
  PROVE  GenerationSees'
  <1>1. Drafts' = Drafts /\ Submitted' = Submitted
    BY DEF Drafts, Submitted, Existing
  <1> QED BY <1>1 DEF GenerationSees

\* A request that starts reads, and leaves slips and the others alone.
LEMMA StartSees ==
  ASSUME Typed, NEW r \in Workers, NEW call, Start(r, call)
  PROVE  /\ UNCHANGED slips
         /\ req'[r] = call
         /\ \A q \in Workers \ {r} : req'[q] = req[q]
  BY DEF Start, db, Typed, TypeOK, Workers

\* A generation that begins sees the slips there are.
LEMMA HRBeginSees ==
  ASSUME Typed, GenerationSees, NEW r \in Workers, HRBegin(r)
  PROVE  GenerationSees'
  <1>1. ASSUME NEW op \in {"generate", "retry"}, GenerateBegin(r, op)
        PROVE  GenerationSees'
    <2> DEFINE call == [Idle EXCEPT !.op = op, !.fresh = TRUE, !.drafts = Drafts,
                          !.emps = {s[1] : s \in Submitted}]
    <2>1. Start(r, call)
      BY <1>1 DEF GenerateBegin
    <2>2. call.drafts = Drafts /\ call.emps = {s[1] : s \in Submitted}
      BY DEF Idle
    <2> HIDE DEF call
    <2> QED BY <2>1, <2>2, StartSees, CallSees
  <1>2. ASSUME NEW call, Start(r, call), call.op \notin {"generate", "retry"}
        PROVE  GenerationSees'
    BY <1>2, StartSees, CallSees
  <1>3. CASE CalculateBegin(r)
    BY <1>2, <1>3 DEF CalculateBegin, Idle
  <1>4. CASE ApproveBegin(r)
    BY <1>2, <1>4 DEF ApproveBegin, Idle
  <1>5. CASE PublishBegin(r)
    BY <1>2, <1>5 DEF PublishBegin, Idle
  <1>6. CASE UpdateBegin(r)
    BY <1>2, <1>6 DEF UpdateBegin, Idle
  <1>7. CASE DeleteBegin(r)
    BY <1>2, <1>7 DEF DeleteBegin, Idle
  <1>8. CASE CancelBegin(r)
    BY <1>2, <1>8 DEF CancelBegin, Idle
  <1>9. ASSUME NEW e \in Employees, AdjustBegin(r, e)
        PROVE  GenerationSees'
    BY <1>2, <1>9 DEF AdjustBegin, Idle
  <1>10. CASE ReopenBegin(r)
    BY <1>2, <1>10 DEF ReopenBegin, Idle
  <1> QED
    BY <1>1, <1>3, <1>4, <1>5, <1>6, <1>7, <1>8, <1>9, <1>10 DEF HRBegin

\* A confirmation keeps the document status.
LEMMA ConfirmSees ==
  ASSUME Typed, GenerationSees, NEW r \in Workers, NEW s \in Slips, Confirm(r, s)
  PROVE  GenerationSees'
  <1>1. ASSUME NEW call, Start(r, call), call.op = "confirm"
        PROVE  GenerationSees'
    BY <1>1, StartSees, CallSees
  <1> QED BY <1>1 DEF Confirm, Idle

\* Requests about one slip are no generations.
LEMMA SlipBeginSees ==
  ASSUME Typed, GenerationSees, NEW r \in Workers, SlipBegin(r)
  PROVE  GenerationSees'
  <1>1. ASSUME NEW call, Start(r, call), call.op \in {"request", "reject", "pay"}
        PROVE  GenerationSees'
    BY <1>1, StartSees, CallSees
  <1>2. PICK s \in Slips : \/ RequestBegin(r, s) \/ RejectBegin(r, s)
                           \/ ConfirmBegin(r, s) \/ PayBegin(r, s)
    BY DEF SlipBegin
  <1>3. CASE RequestBegin(r, s)
    BY <1>1, <1>3 DEF RequestBegin, Idle
  <1>4. CASE RejectBegin(r, s)
    BY <1>1, <1>4 DEF RejectBegin, Idle
  <1>5. CASE ConfirmBegin(r, s)
    BY <1>5, ConfirmSees DEF ConfirmBegin
  <1>6. CASE PayBegin(r, s)
    BY <1>1, <1>6 DEF PayBegin, Idle
  <1> QED BY <1>2, <1>3, <1>4, <1>5, <1>6

\* Commits of HR.
LEMMA PeriodStepSees ==
  ASSUME Typed, GenerationSees, NEW r \in Workers, PeriodStep(r)
  PROVE  GenerationSees'
  <1>1. CASE Claim(r)
    <2>1. req'[r].op \in {"calculating", "idle"} /\ \A q \in Workers \ {r} : req'[q] = req[q]
      BY <1>1 DEF Claim, Idle, Typed, TypeOK, Workers
    <2>2. UNCHANGED slips
      BY <1>1 DEF Claim
    <2> QED BY <2>1, <2>2, CallSees
  <1>2. ASSUME NEW E, NEW S, NEW D, Commit(r, TRUE, E, S, D)
        PROVE  GenerationSees'
    BY <1>2, StampedSees
  <1>3. CASE CalculateFinish(r) \/ ApproveCommit(r) \/ UpdateCommit(r) \/ DeleteCommit(r)
    BY <1>2, <1>3 DEF CalculateFinish, ApproveCommit, UpdateCommit, DeleteCommit
  <1>4. CASE GenerateCommit(r)
    BY <1>2, <1>4 DEF GenerateCommit, Replace
  <1>5. CASE PublishCommit(r) \/ CancelCommit(r)
    BY <1>2, <1>5 DEF PublishCommit, CancelCommit
  <1>6. CASE AdjustCommit(r) \/ ReopenCommit(r)
    BY <1>2, <1>6 DEF AdjustCommit, ReopenCommit
  <1> QED BY <1>1, <1>3, <1>4, <1>5, <1>6 DEF PeriodStep

\* An acknowledgement field is not the document status.
LEMMA StampDocs ==
  ASSUME Typed, NEW r \in Workers, NEW op, NEW stamped, StampAck(r, op, stamped),
         req[r].slip \in Existing => stamped \in Slip /\ stamped.doc = slips[req[r].slip].doc
  PROVE  DocsKept
  <1>1. req[r].slip \in Existing
    BY DEF Typed, RefsExist, StampAck
  <1>2. slips' = [slips EXCEPT ![req[r].slip] = stamped]
    BY DEF StampAck
  <1>3. stamped # NoSlip
    BY <1>1, NoSlipAssumption
  <1> QED BY <1>1, <1>2, <1>3 DEF DocsKept, Existing, Typed, TypeOK

\* Commits about one slip.
LEMMA SlipStepSees ==
  ASSUME Typed, GenerationSees, NEW r \in Workers, SlipStep(r)
  PROVE  GenerationSees'
  <1>1. \A s \in Existing : slips[s] \in Slip
    BY ExistingType DEF Typed
  <1>2. ASSUME NEW op, NEW stamped, StampAck(r, op, stamped),
               req[r].slip \in Existing => stamped \in Slip /\ stamped.doc = slips[req[r].slip].doc
        PROVE  GenerationSees'
    BY <1>2, StampDocs, UnstampedSees DEF StampAck
  <1>3. \A old \in Slip : /\ [old EXCEPT !.ack = "Requested"].doc = old.doc
                          /\ [old EXCEPT !.ack = "Paid"].doc = old.doc
                          /\ [old EXCEPT !.ack = "Awaiting Payment"].doc = old.doc
                          /\ [old EXCEPT !.ack = "", !.rejected = TRUE].doc = old.doc
    BY DEF Slip
  <1>4. CASE RequestCommit(r)
    BY <1>1, <1>2, <1>3, <1>4, SlipUpdated DEF RequestCommit
  <1>5. CASE RejectCommit(r)
    BY <1>1, <1>2, <1>3, <1>5, SlipUpdated DEF RejectCommit
  <1>6. CASE PayCommit(r)
    BY <1>1, <1>2, <1>3, <1>6, SlipUpdated DEF PayCommit
  <1>7. CASE ConfirmCommit(r)
    <2>1. CASE req[r].full
      BY <1>7, <2>1, StampedSees DEF ConfirmCommit
    <2>2. CASE ~req[r].full
      <3>1. StampAck(r, "confirm", [slips[req[r].slip] EXCEPT !.ack = "Awaiting Payment"])
        BY <1>7, <2>2 DEF ConfirmCommit, StampAck
      <3> QED BY <1>1, <1>2, <1>3, <3>1, SlipUpdated
    <2> QED BY <2>1, <2>2
  <1>8. CASE StampGone(r)
    <2>1. req' = [req EXCEPT ![r] = Idle] /\ UNCHANGED slips
      BY <1>8 DEF StampGone, db
    <2>2. req'[r].op = "idle" /\ \A q \in Workers \ {r} : req'[q] = req[q]
      BY <2>1 DEF Idle, Typed, TypeOK, Workers
    <2> QED BY <2>1, <2>2, CallSees
  <1> QED BY <1>4, <1>5, <1>6, <1>7, <1>8 DEF SlipStep

\* Every step.
LEMMA SeesStep ==
  ASSUME Typed, GenerationSees, [Next]_vars
  PROVE  GenerationSees'
  <1>1. CASE UNCHANGED vars
    BY <1>1 DEF vars, GenerationSees, Drafts, Submitted, Existing
  <1>2. ASSUME NEW r \in Requests, HRBegin(r) \/ SlipBegin(r)
        PROVE  GenerationSees'
    BY <1>2, HRBeginSees, SlipBeginSees DEF Workers
  <1>3. ASSUME NEW j \in Jobs, NEW s \in Slips, AutoConfirmBegin(j, s)
        PROVE  GenerationSees'
    BY <1>3, ConfirmSees DEF AutoConfirmBegin, Workers
  <1>4. ASSUME NEW r \in Workers, PeriodStep(r) \/ SlipStep(r)
        PROVE  GenerationSees'
    BY <1>4, PeriodStepSees, SlipStepSees
  <1>5. ASSUME NEW r \in Workers, Abort(r)
        PROVE  GenerationSees'
    <2>1. req' = [req EXCEPT ![r] = Idle] /\ UNCHANGED slips
      BY <1>5 DEF Abort, db
    <2>2. req'[r].op = "idle" /\ \A q \in Workers \ {r} : req'[q] = req[q]
      BY <2>1 DEF Idle, Typed, TypeOK, Workers
    <2> QED BY <2>1, <2>2, CallSees
  <1>6. ASSUME NEW s \in Slips, DaysPass(s)
        PROVE  GenerationSees'
    <2>1. s \in Existing /\ slips' = [slips EXCEPT ![s] = [slips[s] EXCEPT !.overdue = TRUE]]
      BY <1>6 DEF DaysPass, Typed, TypeOK
    <2>2. slips[s] \in Slip /\ slips[s] # NoSlip
      BY <2>1, ExistingType DEF Typed, Existing
    <2>3. [slips[s] EXCEPT !.overdue = TRUE] \in Slip
          /\ [slips[s] EXCEPT !.overdue = TRUE].doc = slips[s].doc
      BY <2>2, SlipUpdated DEF Slip
    <2>4. DocsKept
      BY <2>1, <2>2, <2>3, NoSlipAssumption DEF DocsKept, Typed, TypeOK
    <2> QED BY <1>6, <2>4, DocsKeptQueries DEF DaysPass, GenerationSees
  <1> QED BY <1>1, <1>2, <1>3, <1>4, <1>5, <1>6 DEF Next, Workers

\* A generation replaces the slips of an employee; it never adds to them.
LEMMA GenerateOneLive ==
  ASSUME Typed, GenerationSees, OneLiveSlip, NEW r \in Workers, GenerateCommit(r)
  PROVE  OneLiveSlip'
  <1>1. req[r].drafts = Drafts /\ req[r].emps = {s[1] : s \in Submitted}
    BY DEF GenerateCommit, CanSave, GenerationSees
  <1>2. PICK made \in SUBSET (ToGenerate(r) \ req[r].emps) :
          \E broken \in SUBSET (ToGenerate(r) \ made),
             slot \in [made -> 1..MaxSlips], kept \in [made -> UNION {Todo(r, e) : e \in made}] :
            Replace(r, made, Deleted(r, made \cup broken), slot, kept)
    BY DEF GenerateCommit
  <1>3. PICK broken \in SUBSET (ToGenerate(r) \ made),
             slot \in [made -> 1..MaxSlips], kept \in [made -> UNION {Todo(r, e) : e \in made}] :
            Replace(r, made, Deleted(r, made \cup broken), slot, kept)
    BY <1>2
  <1> DEFINE D == Deleted(r, made \cup broken)
  <1>4. \A s \in Slips :
          slips'[s] = IF s[1] \in made /\ s[2] = slot[s[1]]
                      THEN NewSlip(lines[s[1]][kept[s[1]]].net)
                      ELSE IF s \in D THEN NoSlip ELSE slips[s]
    BY <1>3 DEF Replace
  <1>5. ASSUME NEW s \in Live', s[1] \in made
        PROVE  s[2] = slot[s[1]]
    <2> SUFFICES ASSUME s[2] # slot[s[1]] PROVE FALSE
      OBVIOUS
    <2>1. s \in Slips /\ slips'[s] # NoSlip /\ slips'[s].doc # "cancelled"
      BY DEF Live, Existing
    <2>2. s \notin D /\ slips'[s] = slips[s]
      BY <1>4, <2>1
    <2>3. s \in Existing /\ slips[s] \in Slip /\ slips[s].doc # "cancelled"
      BY <2>1, <2>2 DEF Existing, Typed, TypeOK
    <2>4. s \in Drafts \/ s \in Submitted
      BY <2>3 DEF Drafts, Submitted, Slip
    <2>5. s \notin Drafts
      BY <1>1, <1>5, <2>2, <2>3 DEF Deleted
    <2>6. s \notin Submitted
      BY <1>1, <1>5, <2>3
    <2> QED BY <2>4, <2>5, <2>6
  <1>6. ASSUME NEW s \in Live', s[1] \notin made
        PROVE  s \in Live
    BY <1>4, <1>6 DEF Live, Existing
  <1>7. ASSUME NEW s \in Live', NEW t \in Live', s[1] = t[1]
        PROVE  s = t
    <2>1. CASE s[1] \in made
      <3>1. s[2] = t[2]
        BY <1>5, <1>7, <2>1
      <3>2. s \in Slips /\ t \in Slips
        BY DEF Live, Existing
      <3> QED BY <1>7, <3>1, <3>2 DEF Slips
    <2>2. CASE s[1] \notin made
      BY <1>6, <1>7, <2>2 DEF OneLiveSlip
    <2> QED BY <2>1, <2>2
  <1> QED BY <1>7 DEF OneLiveSlip

\* A step after which no further slip is live.
LEMMA KeptOneLive ==
  ASSUME SlipsKept, OneLiveSlip
  PROVE  OneLiveSlip'
  <1>1. Live' \subseteq Live
    BY DEF SlipsKept, Live, Existing
  <1> QED BY <1>1 DEF OneLiveSlip

\* An employee never has two live salary slips for the period, whatever requests of
\* whatever kinds overlap (generate_salary_slips, reopen_confirmed_period, ...).
THEOREM OneSlipEach == Spec => []OneLiveSlip
  <1> DEFINE IInv == Typed /\ GenerationSees /\ OneLiveSlip
  <1>1. Init => IInv
    <2> SUFFICES ASSUME Init PROVE GenerationSees /\ OneLiveSlip
      BY TypedInit
    <2> QED BY DEF Init, GenerationSees, Idle, OneLiveSlip, Live, Existing, Workers
  <1>2. IInv /\ [Next]_vars => IInv'
    <2> SUFFICES ASSUME IInv, [Next]_vars PROVE IInv'
      OBVIOUS
    <2>1. Typed' /\ GenerationSees'
      BY TypedStep, SeesStep
    <2>2. OneLiveSlip'
      BY KeptStep, KeptOneLive, GenerateOneLive
    <2> QED BY <2>1, <2>2
  <1>3. IInv => OneLiveSlip
    OBVIOUS
  <1> QED BY <1>1, <1>2, <1>3, PTL DEF Spec

-----------------------------------------------------------------------------
(* A slip pays a reviewed amount.  The strengthening: while the period is Approved or *)
(* Slips Generated, the nets on the lines are those of the last approval.  It needs   *)
(* that no line is adjusted: payroll_late_adjustment shows why.                       *)

LinesReviewed ==
  status \in {"Approved", "Slips Generated"}
  => \A e \in Employees : \A i \in DOMAIN lines[e] : lines[e][i].net \in reviewed[e]

NoAdjustment == \A r \in Workers : req[r].op # "adjust"

\* No adjustment is started.
LEMMA StartOp ==
  ASSUME Typed, NoAdjustment, "adjust" \notin Ops, NEW r \in Workers, NEW call, Start(r, call)
  PROVE  NoAdjustment'
  BY StartSees DEF Start, NoAdjustment

\* No commit starts one.
LEMMA CommitOp ==
  ASSUME Typed, NoAdjustment, NEW r \in Workers, NEW period, NEW E, NEW S, NEW D,
         Commit(r, period, E, S, D)
  PROVE  NoAdjustment'
  <1>1. ASSUME NEW q \in Workers, q # r
        PROVE  req'[q].op = req[q].op
    BY <1>1 DEF Commit, Disturbed, Typed, TypeOK, Request, Workers
  <1>2. req'[r].op = "idle"
    BY DEF Commit, Idle, Workers
  <1> QED BY <1>1, <1>2 DEF NoAdjustment

\* No adjustment begins.
LEMMA BeginOp ==
  ASSUME Typed, NoAdjustment, "adjust" \notin Ops, NEW r \in Workers,
         HRBegin(r) \/ SlipBegin(r) \/ \E s \in Slips : AutoConfirmBegin(r, s)
  PROVE  NoAdjustment'
  <1>1. ASSUME NEW call, Start(r, call)
        PROVE  NoAdjustment'
    BY <1>1, StartOp
  <1>2. CASE HRBegin(r)
    <2>1. CASE CalculateBegin(r) \/ ApproveBegin(r) \/ \E op \in {"generate", "retry"} : GenerateBegin(r, op)
      BY <1>1, <2>1 DEF CalculateBegin, ApproveBegin, GenerateBegin
    <2>2. CASE PublishBegin(r) \/ UpdateBegin(r) \/ DeleteBegin(r)
      BY <1>1, <2>2 DEF PublishBegin, UpdateBegin, DeleteBegin
    <2>3. CASE CancelBegin(r) \/ ReopenBegin(r) \/ \E e \in Employees : AdjustBegin(r, e)
      BY <1>1, <2>3 DEF CancelBegin, ReopenBegin, AdjustBegin
    <2> QED BY <1>2, <2>1, <2>2, <2>3 DEF HRBegin
  <1>3. CASE SlipBegin(r)
    BY <1>1, <1>3 DEF SlipBegin, RequestBegin, RejectBegin, ConfirmBegin, Confirm, PayBegin
  <1>4. CASE \E s \in Slips : AutoConfirmBegin(r, s)
    BY <1>1, <1>4 DEF AutoConfirmBegin, Confirm
  <1> QED BY <1>2, <1>3, <1>4

\* Every step.
LEMMA OpStep ==
  ASSUME Typed, NoAdjustment, "adjust" \notin Ops, [Next]_vars
  PROVE  NoAdjustment'
  <1>1. ASSUME NEW r \in Workers, NEW period, NEW E, NEW S, NEW D, Commit(r, period, E, S, D)
        PROVE  NoAdjustment'
    BY <1>1, CommitOp
  <1>2. ASSUME NEW r \in Workers, req' = [req EXCEPT ![r] = Idle]
        PROVE  NoAdjustment'
    BY <1>2 DEF NoAdjustment, Idle, Typed, TypeOK, Workers
  <1>3. CASE UNCHANGED vars
    BY <1>3 DEF vars, NoAdjustment
  <1>4. ASSUME NEW r \in Workers,
               HRBegin(r) \/ SlipBegin(r) \/ \E s \in Slips : AutoConfirmBegin(r, s)
        PROVE  NoAdjustment'
    BY <1>4, BeginOp
  <1>5. ASSUME NEW r \in Workers, PeriodStep(r)
        PROVE  NoAdjustment'
    <2>1. CASE Claim(r)
      <3>1. req'[r].op \in {"calculating", "idle"} /\ \A q \in Workers \ {r} : req'[q] = req[q]
        BY <2>1 DEF Claim, Idle, Typed, TypeOK, Workers
      <3> QED BY <3>1 DEF NoAdjustment
    <2>2. CASE CalculateFinish(r) \/ ApproveCommit(r) \/ UpdateCommit(r) \/ DeleteCommit(r)
      BY <1>1, <2>2 DEF CalculateFinish, ApproveCommit, UpdateCommit, DeleteCommit
    <2>3. CASE GenerateCommit(r)
      BY <1>1, <2>3 DEF GenerateCommit, Replace
    <2>4. CASE PublishCommit(r) \/ CancelCommit(r)
      BY <1>1, <2>4 DEF PublishCommit, CancelCommit
    <2>5. CASE AdjustCommit(r) \/ ReopenCommit(r)
      BY <1>1, <2>5 DEF AdjustCommit, ReopenCommit
    <2> QED BY <1>5, <2>1, <2>2, <2>3, <2>4, <2>5 DEF PeriodStep
  <1>6. ASSUME NEW r \in Workers, SlipStep(r) \/ Abort(r)
        PROVE  NoAdjustment'
    BY <1>1, <1>2, <1>6
    DEF SlipStep, RequestCommit, RejectCommit, PayCommit, StampAck, ConfirmCommit, StampGone, Abort
  <1>7. ASSUME NEW s \in Slips, DaysPass(s)
        PROVE  NoAdjustment'
    BY <1>7 DEF DaysPass, NoAdjustment
  <1> QED BY <1>3, <1>4, <1>5, <1>6, <1>7 DEF Next, Workers

\* A generation changes the links of the lines, not their nets.
LEMMA ReplaceNets ==
  ASSUME Typed, NEW r \in Workers, NEW made, NEW D, NEW slot, NEW kept,
         Replace(r, made, D, slot, kept), NEW e \in Employees, NEW i \in DOMAIN lines'[e]
  PROVE  i \in DOMAIN lines[e] /\ lines'[e][i].net = lines[e][i].net
  <1> DEFINE link == IF e \in made /\ i \in Todo(r, e)
                     THEN IF i = kept[e] THEN <<e, slot[e]>> ELSE Gone
                     ELSE IF lines[e][i].slip \in D THEN Gone ELSE lines[e][i].slip
  <1>1. i \in DOMAIN lines[e] /\ lines'[e][i] = [lines[e][i] EXCEPT !.slip = link]
    BY DEF Replace
  <1>2. lines[e][i] \in Line
    BY <1>1, LineOf DEF Typed
  <1> HIDE DEF link
  <1> QED BY <1>1, <1>2 DEF Line

\* Every step keeps the lines reviewed.
LEMMA ReviewedStep ==
  ASSUME Typed, NoAdjustment, LinesReviewed, [Next]_vars
  PROVE  LinesReviewed'
  <1>1. ASSUME UNCHANGED <<status, lines, reviewed>>
        PROVE  LinesReviewed'
    BY <1>1 DEF LinesReviewed
  <1>2. ASSUME status' \notin {"Approved", "Slips Generated"}
        PROVE  LinesReviewed'
    BY <1>2 DEF LinesReviewed
  <1>3. CASE UNCHANGED vars
    BY <1>1, <1>3 DEF vars
  <1>4. ASSUME NEW r \in Workers,
               HRBegin(r) \/ SlipBegin(r) \/ \E s \in Slips : AutoConfirmBegin(r, s)
        PROVE  LinesReviewed'
    BY <1>1, <1>4, BeginKept DEF db
  <1>5. ASSUME NEW r \in Workers, PeriodStep(r)
        PROVE  LinesReviewed'
    <2>1. CASE Claim(r)
      BY <1>1, <1>2, <2>1 DEF Claim
    <2>2. CASE CalculateFinish(r) \/ UpdateCommit(r) \/ DeleteCommit(r)
      BY <1>2, <2>2 DEF CalculateFinish, UpdateCommit, DeleteCommit
    <2>3. CASE PublishCommit(r) \/ CancelCommit(r) \/ ReopenCommit(r)
      BY <1>2, <2>3 DEF PublishCommit, CancelCommit, ReopenCommit
    <2>4. CASE ApproveCommit(r)
      BY <2>4 DEF ApproveCommit, LinesReviewed
    <2>5. CASE GenerateCommit(r)
      <3>1. \A e \in Employees : \A i \in DOMAIN lines[e] : lines[e][i].net \in reviewed[e]
        BY <2>5 DEF GenerateCommit, CanSave, ALLOWED_TRANSITIONS, LinesReviewed, Typed, TypeOK,
                    Statuses
      <3>2. ASSUME NEW e \in Employees, NEW i \in DOMAIN lines'[e]
            PROVE  i \in DOMAIN lines[e] /\ lines'[e][i].net = lines[e][i].net
        BY <2>5, ReplaceNets DEF GenerateCommit, ToGenerate
      <3> QED BY <2>5, <3>1, <3>2 DEF GenerateCommit, LinesReviewed
    <2>6. ~AdjustCommit(r)
      BY DEF AdjustCommit, NoAdjustment
    <2> QED BY <1>5, <2>1, <2>2, <2>3, <2>4, <2>5, <2>6 DEF PeriodStep
  <1>6. ASSUME NEW r \in Workers, SlipStep(r) \/ Abort(r)
        PROVE  LinesReviewed'
    BY <1>1, <1>2, <1>6
    DEF SlipStep, RequestCommit, RejectCommit, PayCommit, StampAck, ConfirmCommit, StampGone,
        Abort, db
  <1>7. ASSUME NEW s \in Slips, DaysPass(s)
        PROVE  LinesReviewed'
    BY <1>1, <1>7 DEF DaysPass
  <1> QED BY <1>3, <1>4, <1>5, <1>6, <1>7 DEF Next, Workers

\* What a generation writes on a new slip is the net of a line.
LEMMA GeneratedNet ==
  ASSUME Typed, LinesReviewed, NEW r \in Workers, GenerateCommit(r), NEW s \in Slips,
         slips'[s] # NoSlip, slips[s] = NoSlip \/ slips'[s].net # slips[s].net
  PROVE  slips'[s].net \in reviewed[s[1]]
  <1>1. \A e \in Employees : \A i \in DOMAIN lines[e] : lines[e][i].net \in reviewed[e]
    BY DEF GenerateCommit, CanSave, ALLOWED_TRANSITIONS, LinesReviewed, Typed, TypeOK, Statuses
  <1>2. PICK made \in SUBSET (ToGenerate(r) \ req[r].emps) :
          \E broken \in SUBSET (ToGenerate(r) \ made),
             slot \in [made -> 1..MaxSlips], kept \in [made -> UNION {Todo(r, e) : e \in made}] :
            Replace(r, made, Deleted(r, made \cup broken), slot, kept)
    BY DEF GenerateCommit
  <1>3. PICK broken \in SUBSET (ToGenerate(r) \ made),
             slot \in [made -> 1..MaxSlips], kept \in [made -> UNION {Todo(r, e) : e \in made}] :
            Replace(r, made, Deleted(r, made \cup broken), slot, kept)
    BY <1>2
  <1>4. s[1] \in made /\ slips'[s] = NewSlip(lines[s[1]][kept[s[1]]].net)
    BY <1>3 DEF Replace
  <1>5. s[1] \in Employees /\ kept[s[1]] \in DOMAIN lines[s[1]]
    BY <1>3, <1>4 DEF Replace, Todo, ToGenerate
  <1> DEFINE net == lines[s[1]][kept[s[1]]].net
  <1>6. net \in reviewed[s[1]]
    BY <1>1, <1>5
  <1>7. NewSlip(net).net = net
    BY DEF NewSlip
  <1> HIDE DEF net
  <1>8. slips'[s] = NewSlip(net)
    BY <1>4 DEF net
  <1> QED BY <1>6, <1>7, <1>8

\* Without manual adjustments no slip ever gets an amount that HR has not approved since
\* the last calculation: approve_review, generate_salary_slips and reopen_confirmed_period
\* may overlap in any way.
THEOREM ReviewedAmounts == ASSUME "adjust" \notin Ops PROVE Spec => SlipPaysReviewedAmount
  <1> DEFINE IInv == Typed /\ NoAdjustment /\ LinesReviewed
  <1>1. Init => IInv
    <2> SUFFICES ASSUME Init PROVE NoAdjustment /\ LinesReviewed
      BY TypedInit
    <2> QED BY DEF Init, NoAdjustment, LinesReviewed, Idle, Workers
  <1>2. IInv /\ [Next]_vars => IInv'
    BY TypedStep, OpStep, ReviewedStep
  <1>3. IInv /\ [Next]_vars
        => [\A s \in Slips :
              (/\ slips'[s] # NoSlip
               /\ slips[s] = NoSlip \/ slips'[s].net # slips[s].net)
              => slips'[s].net \in reviewed[s[1]]]_vars
    <2> SUFFICES ASSUME IInv, [Next]_vars, NEW s \in Slips, slips'[s] # NoSlip,
                        slips[s] = NoSlip \/ slips'[s].net # slips[s].net
                 PROVE  slips'[s].net \in reviewed[s[1]]
      OBVIOUS
    <2>1. CASE \E r \in Workers : GenerateCommit(r)
      BY <2>1, GeneratedNet
    <2>2. CASE \A r \in Workers : ~GenerateCommit(r)
      BY <2>2, KeptStep DEF SlipsKept
    <2> QED BY <2>1, <2>2
  <1> QED BY <1>1, <1>2, <1>3, PTL DEF Spec, SlipPaysReviewedAmount

-----------------------------------------------------------------------------
(* What holds as long as requests run one after the other: a request whose guards were    *)
(* read true finds them true when it writes.                                              *)

\* One worker: what one request read is still so when it writes.
OneAtATime == MaxInFlight = 1 /\ IsFiniteSet(Workers)

Alone == \A q, r \in Workers : req[q].op # "idle" /\ req[r].op # "idle" => q = r

\* What a call with these reads relies on.
Holds(call) ==
  /\ call.op \in {"generate", "retry", "publish", "cancel"} => assert_period_not_confirmed
  /\ call.op \in {"request", "reject"} /\ call.slip # NoSlip
     => slips[call.slip].ack \notin LockStates
  /\ call.op = "pay" /\ call.slip # NoSlip => slips[call.slip].ack \in LockStates
  /\ call.op = "confirm" /\ call.slip # NoSlip => (call.full <=> AllConfirmedWith(call.slip))

StillTrue == \A r \in Workers : Holds(req[r])

Undisturbed == Typed /\ Alone /\ StillTrue

-----------------------------------------------------------------------------
(* One request at a time, and its guards hold until it writes. *)

\* When one worker is all there is, a request begins while no other runs.
LEMMA StartsAlone ==
  ASSUME OneAtATime, NEW r \in Workers, NEW call, Start(r, call)
  PROVE  \A q \in Workers : req[q].op = "idle"
  <1>1. InFlight \in SUBSET Workers
    BY DEF InFlight, Workers
  <1>2. IsFiniteSet(InFlight) /\ Cardinality(InFlight) \in Nat
    BY <1>1, FS_Subset, FS_CardinalityType DEF OneAtATime
  <1>3. Cardinality(InFlight) < 1
    BY DEF Start, OneAtATime
  <1>4. Cardinality(InFlight) = 0
    BY <1>2, <1>3
  <1>5. InFlight = {}
    BY <1>2, <1>4, FS_EmptySet
  <1> QED BY <1>5 DEF InFlight, Workers

\* A request that begins finds its guards true.
LEMMA StartUndisturbed ==
  ASSUME OneAtATime, Undisturbed, NEW r \in Workers, NEW call, Start(r, call),
         Holds(call)
  PROVE  Alone' /\ StillTrue'
  <1>1. \A q \in Workers : req[q].op = "idle"
    BY StartsAlone
  <1>2. /\ req'[r] = call
        /\ \A q \in Workers \ {r} : req'[q].op = "idle"
    BY <1>1 DEF Start, Undisturbed, Typed, TypeOK, Workers
  <1>3. slips' = slips
    BY DEF Start, db
  <1>4. Alone'
    BY <1>2 DEF Alone
  <1>5. Holds(req[r])'
    BY <1>2, <1>3 DEF Holds, assert_period_not_confirmed, period_has_confirmed_slips,
                      AllConfirmedWith, VisibleLive, Live, Existing
  <1>6. ASSUME NEW q \in Workers, q # r
        PROVE  Holds(req[q])'
    BY <1>2, <1>6 DEF Holds
  <1> QED BY <1>4, <1>5, <1>6 DEF StillTrue

\* After a step that leaves every slot idle there is nothing to hold.
LEMMA QuietUndisturbed ==
  ASSUME \A q \in Workers : req'[q].op = "idle"
  PROVE  Alone' /\ StillTrue'
  BY DEF Alone, StillTrue, Holds

\* A commit leaves every slot idle.
LEMMA CommitQuiet ==
  ASSUME Undisturbed, NEW r \in Workers, req[r].op # "idle",
         NEW period, NEW E, NEW S, NEW D, Commit(r, period, E, S, D)
  PROVE  \A q \in Workers : req'[q].op = "idle"
  <1>1. ASSUME NEW q \in Workers, q # r
        PROVE  req'[q].op = "idle"
    <2>1. req[q].op = "idle"
      BY <1>1 DEF Undisturbed, Alone
    <2>2. req'[q].op = req[q].op
      BY <1>1 DEF Commit, Disturbed, Undisturbed, Typed, TypeOK, Request, Workers
    <2> QED BY <2>1, <2>2
  <1>2. req'[r].op = "idle"
    BY DEF Commit, Idle, Workers
  <1> QED BY <1>1, <1>2

\* A request that ends without writing leaves every slot idle.
LEMMA EndQuiet ==
  ASSUME Undisturbed, NEW r \in Workers, req[r].op # "idle", req' = [req EXCEPT ![r] = Idle]
  PROVE  \A q \in Workers : req'[q].op = "idle"
  BY DEF Undisturbed, Alone, Idle, Typed, TypeOK, Workers

\* The requests that begin.
LEMMA BeginUndisturbed ==
  ASSUME OneAtATime, Undisturbed, NEW r \in Workers,
         HRBegin(r) \/ SlipBegin(r) \/ \E s \in Slips : AutoConfirmBegin(r, s)
  PROVE  Alone' /\ StillTrue'
  <1>1. CASE \/ CalculateBegin(r) \/ ApproveBegin(r) \/ UpdateBegin(r) \/ DeleteBegin(r)
             \/ ReopenBegin(r) \/ \E e \in Employees : AdjustBegin(r, e)
    <2>1. ASSUME NEW call, Start(r, call),
                 call.op \in {"claim", "approve", "update", "delete", "reopen", "adjust"}
          PROVE  Alone' /\ StillTrue'
      BY <2>1, StartUndisturbed DEF Holds
    <2> QED BY <1>1, <2>1 DEF CalculateBegin, ApproveBegin, UpdateBegin, DeleteBegin, ReopenBegin,
                              AdjustBegin, Idle
  <1>2. CASE \/ PublishBegin(r) \/ CancelBegin(r)
             \/ \E op \in {"generate", "retry"} : GenerateBegin(r, op)
    <2>1. ASSUME NEW call, Start(r, call),
                 call.op \in {"generate", "retry", "publish", "cancel"}, assert_period_not_confirmed
          PROVE  Alone' /\ StillTrue'
      BY <2>1, StartUndisturbed DEF Holds
    <2> QED BY <1>2, <2>1 DEF PublishBegin, CancelBegin, GenerateBegin, Idle
  <1>3. ASSUME NEW s \in Slips, RequestBegin(r, s) \/ RejectBegin(r, s) \/ PayBegin(r, s)
        PROVE  Alone' /\ StillTrue'
    <2>1. ASSUME NEW call, Start(r, call), call.slip = s,
                 \/ call.op \in {"request", "reject"} /\ slips[s].ack \notin LockStates
                 \/ call.op = "pay" /\ slips[s].ack \in LockStates
          PROVE  Alone' /\ StillTrue'
      BY <2>1, StartUndisturbed DEF Holds
    <2> QED BY <1>3, <2>1 DEF RequestBegin, RejectBegin, PayBegin, Idle, LockStates
  <1>4. ASSUME NEW s \in Slips, ConfirmBegin(r, s) \/ AutoConfirmBegin(r, s)
        PROVE  Alone' /\ StillTrue'
    <2>1. ASSUME NEW call, Start(r, call), call.slip = s, call.op = "confirm",
                 call.full <=> AllConfirmedWith(s)
          PROVE  Alone' /\ StillTrue'
      BY <2>1, StartUndisturbed DEF Holds
    <2> QED BY <1>4, <2>1 DEF ConfirmBegin, AutoConfirmBegin, Confirm, Idle
  <1> QED BY <1>1, <1>2, <1>3, <1>4 DEF HRBegin, SlipBegin

\* The claim of a calculation, which goes on.
LEMMA ClaimUndisturbed ==
  ASSUME Undisturbed, NEW r \in Workers, Claim(r)
  PROVE  Alone' /\ StillTrue'
  <1>1. req[r].op # "idle"
    BY DEF Claim
  <1>2. req'[r].op \in {"calculating", "idle"}
    BY DEF Claim, Idle, Undisturbed, Typed, TypeOK, Workers
  <1>3. \A q \in Workers \ {r} : req'[q] = req[q] /\ req[q].op = "idle"
    BY <1>1 DEF Claim, Undisturbed, Alone, Typed, TypeOK, Workers
  <1>4. Alone'
    BY <1>3 DEF Alone
  <1> QED BY <1>2, <1>3, <1>4 DEF StillTrue, Holds

\* Time changes neither the status, the answer nor the visibility of a slip.
LEMMA DaysUndisturbed ==
  ASSUME Undisturbed, NEW s \in Slips, DaysPass(s)
  PROVE  /\ Alone' /\ StillTrue' /\ VisibleLive' = VisibleLive
         /\ \A o \in Slips : /\ slips'[o].ack = slips[o].ack
                             /\ slips[o] # NoSlip => slips'[o] # NoSlip /\ slips'[o].net = slips[o].net
  <1>1. slips[s] \in Slip /\ slips[s] # NoSlip
    BY ExistingType DEF DaysPass, Undisturbed, Typed, Existing
  <1>2. [slips[s] EXCEPT !.overdue = TRUE] \in Slip
    BY <1>1 DEF Slip
  <1>3. /\ slips' = [slips EXCEPT ![s] = [slips[s] EXCEPT !.overdue = TRUE]]
        /\ slips \in [Slips -> Slip \cup {NoSlip}]
    BY DEF DaysPass, Undisturbed, Typed, TypeOK
  <1>4. ASSUME NEW o \in Slips
        PROVE  /\ slips'[o] = NoSlip <=> slips[o] = NoSlip
               /\ slips'[o].ack = slips[o].ack
               /\ slips[o] # NoSlip => /\ slips'[o].doc = slips[o].doc
                                        /\ slips'[o].visible = slips[o].visible
                                        /\ slips'[o].net = slips[o].net
    <2>1. CASE o = s
      BY <1>1, <1>2, <1>3, <2>1, NoSlipAssumption DEF Slip
    <2>2. CASE o # s
      BY <1>3, <2>2
    <2> QED BY <2>1, <2>2
  <1>5. Existing' = Existing
    BY <1>4 DEF Existing
  <1>6. VisibleLive' = VisibleLive
    BY <1>4, <1>5 DEF VisibleLive, Live, Existing
  <1>7. assert_period_not_confirmed' = assert_period_not_confirmed
    BY <1>4, <1>5 DEF assert_period_not_confirmed, period_has_confirmed_slips, Existing
  <1>8. req' = req
    BY DEF DaysPass
  <1>9. ASSUME NEW q \in Workers
        PROVE  Holds(req[q])'
    <2>1. req[q].slip \in Slips \cup {NoSlip} /\ Holds(req[q])
      BY DEF Undisturbed, Typed, TypeOK, Request, StillTrue, Workers
    <2>2. VisibleLive \subseteq Slips
      BY DEF VisibleLive, Live, Existing
    <2> QED BY <1>4, <1>6, <1>7, <1>8, <2>1, <2>2 DEF Holds, AllConfirmedWith
  <1> QED BY <1>4, <1>6, <1>8, <1>9 DEF Undisturbed, Alone, StillTrue

\* Every step.
LEMMA UndisturbedStep ==
  ASSUME OneAtATime, Undisturbed, [Next]_vars
  PROVE  Undisturbed'
  <1>0. Typed'
    BY TypedStep DEF Undisturbed
  <1>1. CASE UNCHANGED vars
    BY <1>1 DEF vars, Undisturbed, Alone, StillTrue, Holds, Typed, TypeOK, RefsExist, Existing,
       assert_period_not_confirmed, period_has_confirmed_slips, AllConfirmedWith, VisibleLive, Live
  <1>2. ASSUME NEW r \in Workers,
               HRBegin(r) \/ SlipBegin(r) \/ \E s \in Slips : AutoConfirmBegin(r, s)
        PROVE  Alone' /\ StillTrue'
    BY <1>2, BeginUndisturbed
  <1>3. ASSUME NEW r \in Workers, PeriodStep(r)
        PROVE  Alone' /\ StillTrue'
    <2>1. CASE Claim(r)
      BY <2>1, ClaimUndisturbed
    <2>2. CASE ~Claim(r)
      <3>1. req[r].op # "idle"
        BY <1>3, <2>2 DEF PeriodStep, CalculateFinish, ApproveCommit, GenerateCommit, PublishCommit,
           UpdateCommit, DeleteCommit, CancelCommit, AdjustCommit, ReopenCommit
      <3>2. \E period, E, S, D : Commit(r, period, E, S, D)
        BY <1>3, <2>2 DEF PeriodStep, CalculateFinish, ApproveCommit, GenerateCommit, Replace,
           PublishCommit, UpdateCommit, DeleteCommit, CancelCommit, AdjustCommit, ReopenCommit
      <3> QED BY <3>1, <3>2, CommitQuiet, QuietUndisturbed
    <2> QED BY <2>1, <2>2
  <1>4. ASSUME NEW r \in Workers, SlipStep(r) \/ Abort(r)
        PROVE  Alone' /\ StillTrue'
    <2>1. req[r].op # "idle"
      BY <1>4 DEF SlipStep, Abort, RequestCommit, RejectCommit, PayCommit, StampAck,
                  ConfirmCommit, StampGone
    <2>2. \/ \E period, E, S, D : Commit(r, period, E, S, D)
          \/ req' = [req EXCEPT ![r] = Idle]
      BY <1>4 DEF SlipStep, Abort, RequestCommit, RejectCommit, PayCommit, StampAck,
                  ConfirmCommit, StampGone
    <2> QED BY <2>1, <2>2, CommitQuiet, EndQuiet, QuietUndisturbed
  <1>5. ASSUME NEW s \in Slips, DaysPass(s)
        PROVE  Alone' /\ StillTrue'
    BY <1>5, DaysUndisturbed
  <1>6. Alone' /\ StillTrue'
    BY <1>1, <1>2, <1>3, <1>4, <1>5 DEF Next, Workers, Undisturbed
  <1> QED BY <1>0, <1>6 DEF Undisturbed

-----------------------------------------------------------------------------
(* What the steps of the acknowledgement do to the slips. *)

\* A slip stays what it was but for its answer, and is confirmed if it was or is `s'.
Answered(s, ack) ==
  \A o \in Slips :
    /\ slips'[o] = NoSlip <=> slips[o] = NoSlip
    /\ slips[o] # NoSlip => /\ slips'[o].net = slips[o].net
                            /\ slips'[o].visible = slips[o].visible
                            /\ slips'[o].doc = "cancelled" <=> slips[o].doc = "cancelled"
                            /\ slips'[o].ack = IF o = s THEN ack ELSE slips[o].ack

\* An answer hides and shows no slip.
LEMMA AnsweredVisible ==
  ASSUME NEW s, NEW ack, Answered(s, ack)
  PROVE  VisibleLive' = VisibleLive
  BY DEF Answered, VisibleLive, Live, Existing

\* The three stamps.
LEMMA StampAnswers ==
  ASSUME Undisturbed, NEW r \in Workers, RequestCommit(r) \/ RejectCommit(r) \/ PayCommit(r)
  PROVE  /\ req[r].slip \in Existing
         /\ \/ /\ slips[req[r].slip].ack \notin LockStates
               /\ \E ack \in AckStates \ LockStates : Answered(req[r].slip, ack)
            \/ slips[req[r].slip].ack \in LockStates /\ Answered(req[r].slip, "Paid")
  <1> DEFINE s == req[r].slip
  <1>1. s \in Existing /\ s \in Slips /\ slips[s] \in Slip /\ s # NoSlip /\ slips[s] # NoSlip
    BY ExistingType, NoSlipAssumption
    DEF Undisturbed, Typed, RefsExist, StampAck, RequestCommit, RejectCommit, PayCommit, Existing
  <1>2. slips \in [Slips -> Slip \cup {NoSlip}]
    BY DEF Undisturbed, Typed, TypeOK
  <1>3. ASSUME NEW stamped \in Slip, slips' = [slips EXCEPT ![s] = stamped],
               stamped.net = slips[s].net, stamped.visible = slips[s].visible,
               stamped.doc = slips[s].doc
        PROVE  Answered(s, stamped.ack)
    BY <1>1, <1>2, <1>3, NoSlipAssumption DEF Answered
  <1>4. Holds(req[r])
    BY DEF Undisturbed, StillTrue
  <1>5. CASE RequestCommit(r)
    <2> DEFINE stamped == [slips[s] EXCEPT !.ack = "Requested"]
    <2>1. /\ stamped \in Slip /\ stamped.ack = "Requested" /\ stamped.net = slips[s].net
          /\ stamped.visible = slips[s].visible /\ stamped.doc = slips[s].doc
      BY <1>1 DEF Slip, AckStates
    <2>2. slips' = [slips EXCEPT ![s] = stamped] /\ req[r].op = "request"
      BY <1>5 DEF RequestCommit, StampAck
    <2>3. slips[s].ack \notin LockStates
      BY <1>1, <1>4, <2>2 DEF Holds
    <2> HIDE DEF stamped
    <2>4. Answered(s, "Requested")
      BY <1>3, <2>1, <2>2
    <2> QED BY <1>1, <2>3, <2>4 DEF AckStates, LockStates
  <1>6. CASE RejectCommit(r)
    <2> DEFINE stamped == [slips[s] EXCEPT !.ack = "", !.rejected = TRUE]
    <2>1. /\ stamped \in Slip /\ stamped.ack = "" /\ stamped.net = slips[s].net
          /\ stamped.visible = slips[s].visible /\ stamped.doc = slips[s].doc
      BY <1>1 DEF Slip, AckStates
    <2>2. slips' = [slips EXCEPT ![s] = stamped] /\ req[r].op = "reject"
      BY <1>6 DEF RejectCommit, StampAck
    <2>3. slips[s].ack \notin LockStates
      BY <1>1, <1>4, <2>2 DEF Holds
    <2> HIDE DEF stamped
    <2>4. Answered(s, "")
      BY <1>3, <2>1, <2>2
    <2> QED BY <1>1, <2>3, <2>4 DEF AckStates, LockStates
  <1>7. CASE PayCommit(r)
    <2> DEFINE stamped == [slips[s] EXCEPT !.ack = "Paid"]
    <2>1. /\ stamped \in Slip /\ stamped.ack = "Paid" /\ stamped.net = slips[s].net
          /\ stamped.visible = slips[s].visible /\ stamped.doc = slips[s].doc
      BY <1>1 DEF Slip, AckStates
    <2>2. slips' = [slips EXCEPT ![s] = stamped] /\ req[r].op = "pay"
      BY <1>7 DEF PayCommit, StampAck
    <2>3. slips[s].ack \in LockStates
      BY <1>1, <1>4, <2>2 DEF Holds
    <2> HIDE DEF stamped
    <2>4. Answered(s, "Paid")
      BY <1>3, <2>1, <2>2
    <2> QED BY <1>1, <2>3, <2>4
  <1> QED BY <1>5, <1>6, <1>7

\* The confirmation.
LEMMA ConfirmAnswers ==
  ASSUME Undisturbed, NEW r \in Workers, ConfirmCommit(r)
  PROVE  /\ req[r].slip \in Existing
         /\ Answered(req[r].slip, "Awaiting Payment")
         /\ \/ AllConfirmedWith(req[r].slip) /\ status' = IF status = "None" THEN status ELSE "Confirmed"
            \/ ~AllConfirmedWith(req[r].slip) /\ status' = status
  <1> DEFINE s == req[r].slip
             confirmed == [slips[s] EXCEPT !.ack = "Awaiting Payment"]
  <1>1. s \in Existing /\ s \in Slips /\ slips[s] \in Slip /\ slips[s] # NoSlip
    BY ExistingType DEF Undisturbed, Typed, RefsExist, ConfirmCommit, Existing
  <1>2. /\ confirmed \in Slip /\ confirmed.net = slips[s].net /\ confirmed.doc = slips[s].doc
        /\ confirmed.visible = slips[s].visible /\ confirmed.ack = "Awaiting Payment"
    BY <1>1 DEF Slip, AckStates
  <1>3. slips \in [Slips -> Slip \cup {NoSlip}] /\ NoSlip \notin Slip
    BY NoSlipAssumption DEF Undisturbed, Typed, TypeOK
  <1>4. req[r].full <=> AllConfirmedWith(s)
    BY DEF Undisturbed, StillTrue, Holds, ConfirmCommit
  <1>5. CASE ~req[r].full
    <2>1. slips' = [slips EXCEPT ![s] = confirmed] /\ status' = status
      BY <1>5 DEF ConfirmCommit
    <2> HIDE DEF confirmed
    <2>2. Answered(s, "Awaiting Payment")
      BY <1>1, <1>2, <1>3, <2>1 DEF Answered
    <2> QED BY <1>1, <1>4, <1>5, <2>1, <2>2
  <1>6. CASE req[r].full
    <2> DEFINE now(o) == IF o = s THEN confirmed ELSE slips[o]
    <2>1. PICK done \in SUBSET (req[r].filed \cap Drafts) :
            slips' = [o \in Slips |-> IF o \in done THEN [now(o) EXCEPT !.doc = "submitted"]
                                                    ELSE now(o)]
      BY <1>6 DEF ConfirmCommit
    <2>2. status' = IF status = "None" THEN status ELSE "Confirmed"
      BY <1>6 DEF ConfirmCommit
    <2>3. ASSUME NEW o \in Slips
          PROVE  /\ now(o) \in Slip \cup {NoSlip}
                 /\ now(o) = NoSlip <=> slips[o] = NoSlip
                 /\ slips[o] # NoSlip =>
                      /\ now(o).net = slips[o].net /\ now(o).visible = slips[o].visible
                      /\ now(o).doc = slips[o].doc
                      /\ now(o).ack = IF o = s THEN "Awaiting Payment" ELSE slips[o].ack
      BY <1>1, <1>2, <1>3
    <2>4. \A o \in done : slips[o] # NoSlip /\ slips[o].doc = "draft"
      BY DEF Drafts, Existing
    <2>5. ASSUME NEW o \in Slips
          PROVE  /\ slips'[o] = NoSlip <=> slips[o] = NoSlip
                 /\ slips[o] # NoSlip => /\ slips'[o].net = now(o).net
                                         /\ slips'[o].visible = now(o).visible
                                         /\ slips'[o].doc = "cancelled" <=> now(o).doc = "cancelled"
                                         /\ slips'[o].ack = now(o).ack
      <3>1. CASE o \notin done
        BY <2>1, <2>3, <3>1
      <3>2. CASE o \in done
        <4>1. slips'[o] = [now(o) EXCEPT !.doc = "submitted"]
          BY <2>1, <3>2
        <4>2. now(o) \in Slip /\ slips[o] # NoSlip /\ now(o).doc = "draft"
          BY <2>3, <2>4, <3>2
        <4> HIDE DEF now
        <4>3. /\ slips'[o] \in Slip /\ slips'[o].net = now(o).net /\ slips'[o].doc = "submitted"
              /\ slips'[o].visible = now(o).visible /\ slips'[o].ack = now(o).ack
          BY <4>1, <4>2 DEF Slip
        <4> QED BY <1>3, <4>2, <4>3
      <3> QED BY <3>1, <3>2
    <2> HIDE DEF now
    <2>6. Answered(s, "Awaiting Payment")
      BY <2>3, <2>5, ZenonT(30) DEF Answered
    <2> QED BY <1>1, <1>4, <1>6, <2>2, <2>6
  <1> QED BY <1>5, <1>6

-----------------------------------------------------------------------------
(* A confirmed slip is final. *)

Final(s) ==
  slips[s] # NoSlip /\ slips[s].ack \in LockStates
  => /\ slips'[s] # NoSlip /\ slips'[s].net = slips[s].net
     /\ slips'[s].ack \in LockStates \/ status' = "Calculated"

\* Nothing is final where nobody confirmed: a generation, a publication, a cancellation.
LEMMA NoneFinal ==
  ASSUME assert_period_not_confirmed, NEW s \in Slips
  PROVE  Final(s)
  BY DEF assert_period_not_confirmed, period_has_confirmed_slips, Existing, Final

\* An answer to a slip that is not confirmed, or a confirmation.
LEMMA AnsweredFinal ==
  ASSUME NEW s \in Slips, NEW o, NEW ack, Answered(o, ack),
         ack \in LockStates \/ slips[o].ack \notin LockStates
  PROVE  Final(s)
  BY DEF Answered, Final

\* The reopening takes the answers back, and the slips stay.
LEMMA ReopenFinal ==
  ASSUME Undisturbed, NEW r \in Workers, ReopenCommit(r), NEW s \in Slips
  PROVE  Final(s)
  <1>1. req[r].drafts \subseteq Existing /\ req[r].filed \subseteq Existing
    BY DEF Undisturbed, Typed, RefsExist
  <1>2. \/ slips'[s] = slips[s]
        \/ s \in Existing /\ slips'[s] = AckReset(slips[s])
        \/ s \in Existing /\ slips'[s] = [AckReset(slips[s]) EXCEPT !.doc = "cancelled"]
    BY <1>1 DEF ReopenCommit
  <1>3. CASE slips'[s] = slips[s]
    BY <1>3 DEF Final
  <1>4. CASE s \notin Existing
    BY <1>4 DEF Final, Existing
  <1>5. CASE s \in Existing /\ slips'[s] # slips[s]
    <2>1. slips[s] \in Slip
      BY <1>5, ExistingType DEF Undisturbed, Typed
    <2>2. slips'[s] \in Slip /\ slips'[s].net = slips[s].net
      BY <1>2, <1>5, <2>1 DEF Slip, AckReset, AckStates
    <2>3. slips'[s] # NoSlip /\ status' = "Calculated"
      BY <2>2, NoSlipAssumption DEF ReopenCommit
    <2> QED BY <2>2, <2>3 DEF Final
  <1> QED BY <1>3, <1>4, <1>5

\* Every step.
LEMMA FinalStep ==
  ASSUME OneAtATime, Undisturbed, [Next]_vars, NEW s \in Slips
  PROVE  Final(s)
  <1>1. ASSUME UNCHANGED slips
        PROVE  Final(s)
    BY <1>1 DEF Final
  <1>2. CASE UNCHANGED vars
    BY <1>1, <1>2 DEF vars
  <1>3. ASSUME NEW r \in Workers,
               HRBegin(r) \/ SlipBegin(r) \/ \E o \in Slips : AutoConfirmBegin(r, o)
        PROVE  Final(s)
    BY <1>1, <1>3, BeginKept DEF db
  <1>4. ASSUME NEW r \in Workers, PeriodStep(r)
        PROVE  Final(s)
    <2>1. CASE \/ Claim(r) \/ CalculateFinish(r) \/ ApproveCommit(r) \/ UpdateCommit(r)
               \/ DeleteCommit(r) \/ AdjustCommit(r)
      BY <1>1, <2>1 DEF Claim, CalculateFinish, ApproveCommit, UpdateCommit, DeleteCommit, AdjustCommit
    <2>2. CASE GenerateCommit(r) \/ PublishCommit(r) \/ CancelCommit(r)
      <3>1. Holds(req[r])
        BY DEF Undisturbed, StillTrue
      <3>2. req[r].op \in {"generate", "retry", "publish", "cancel"}
        BY <2>2 DEF GenerateCommit, PublishCommit, CancelCommit
      <3> QED BY <3>1, <3>2, NoneFinal DEF Holds
    <2>3. CASE ReopenCommit(r)
      BY <2>3, ReopenFinal
    <2> QED BY <1>4, <2>1, <2>2, <2>3 DEF PeriodStep
  <1>5. ASSUME NEW r \in Workers, SlipStep(r) \/ Abort(r)
        PROVE  Final(s)
    <2>1. CASE RequestCommit(r) \/ RejectCommit(r) \/ PayCommit(r)
      BY <2>1, StampAnswers, AnsweredFinal DEF LockStates
    <2>2. CASE ConfirmCommit(r)
      BY <2>2, ConfirmAnswers, AnsweredFinal DEF LockStates
    <2>3. CASE StampGone(r) \/ Abort(r)
      BY <1>1, <2>3 DEF StampGone, Abort, db
    <2> QED BY <1>5, <2>1, <2>2, <2>3 DEF SlipStep
  <1>6. ASSUME NEW o \in Slips, DaysPass(o)
        PROVE  Final(s)
    BY <1>6, DaysUndisturbed DEF Final
  <1> QED BY <1>2, <1>3, <1>4, <1>5, <1>6 DEF Next, Workers

\* When the period is inserted no request runs.
LEMMA UndisturbedInit == Init => Undisturbed
  <1> SUFFICES ASSUME Init PROVE Alone /\ StillTrue
    BY TypedInit DEF Undisturbed
  <1>1. \A r \in Workers : req[r] = Idle
    BY DEF Init, Workers
  <1> QED BY <1>1 DEF Alone, StillTrue, Holds, Idle

\* Decision #2 as long as requests do not overlap: a slip its employee has confirmed keeps
\* its row and its net, and its answer unless HR reopens the period.  No generation,
\* publication or cancellation that was let in writes it, because the check for confirmed
\* slips at its start (assert_period_not_confirmed) still holds when it commits.
THEOREM ConfirmedStays == ASSUME OneAtATime PROVE Spec => ConfirmedSlipIsFinal
  <1>1. Spec => []Undisturbed
    BY UndisturbedInit, UndisturbedStep, PTL DEF Spec
  <1>2. Undisturbed /\ [Next]_vars
        => [\A s \in Slips :
              (slips[s] # NoSlip /\ slips[s].ack \in LockStates)
              => /\ slips'[s] # NoSlip
                 /\ slips'[s].net = slips[s].net
                 /\ slips'[s].ack \in LockStates \/ status' = "Calculated"]_vars
    BY FinalStep DEF Final
  <1> QED BY <1>1, <1>2, PTL DEF Spec, ConfirmedSlipIsFinal

-----------------------------------------------------------------------------
(* The lock of the period comes with the last confirmation, and not before. *)

PeriodAnswered == LockedMeansConfirmed /\ LastConfirmationLocks

\* Where nothing is confirmed, a period that is not Confirmed cannot owe its lock.
LEMMA NoneConfirmed ==
  ASSUME \A s \in Slips : slips'[s] # NoSlip => slips'[s].ack \notin LockStates,
         status' # "Confirmed"
  PROVE  PeriodAnswered'
  BY DEF PeriodAnswered, LockedMeansConfirmed, LastConfirmationLocks, VisibleLive, Live, Existing

\* A status in which the lock plays no part.
LEMMA OtherStatus ==
  ASSUME status' \notin {"Confirmed", "Slips Generated", "Published"}
  PROVE  PeriodAnswered'
  BY DEF PeriodAnswered, LockedMeansConfirmed, LastConfirmationLocks

\* The answers of the visible slips stay as they are.
LEMMA SameAnswers ==
  ASSUME PeriodAnswered, VisibleLive' = VisibleLive, status' = status,
         \A s \in VisibleLive : slips'[s].ack = slips[s].ack
  PROVE  PeriodAnswered'
  BY DEF PeriodAnswered, LockedMeansConfirmed, LastConfirmationLocks

\* The generation and the publication, where nobody has confirmed.
LEMMA UnconfirmedStep ==
  ASSUME Undisturbed, NEW r \in Workers, GenerateCommit(r) \/ PublishCommit(r)
  PROVE  PeriodAnswered'
  <1>1. assert_period_not_confirmed
    BY DEF Undisturbed, StillTrue, Holds, GenerateCommit, PublishCommit
  <1>2. \A s \in Slips : slips[s] # NoSlip => slips[s].ack \notin LockStates
    BY <1>1 DEF assert_period_not_confirmed, period_has_confirmed_slips, Existing
  <1>3. CASE GenerateCommit(r)
    <2>1. PICK made, D, slot, kept : Replace(r, made, D, slot, kept)
      BY <1>3 DEF GenerateCommit
    <2>3. \A s \in Slips : \/ slips'[s] \in {slips[s], NoSlip}
                           \/ \E net : slips'[s] = NewSlip(net)
      BY <2>1 DEF Replace
    <2>2. \A net : NewSlip(net).ack \notin LockStates
      BY DEF NewSlip, LockStates
    <2> QED BY <1>2, <1>3, <2>2, <2>3, NoneConfirmed DEF GenerateCommit
  <1>4. CASE PublishCommit(r)
    <2>1. ASSUME NEW s \in Slips
          PROVE  \/ slips'[s] = slips[s]
                 \/ slips[s] # NoSlip /\ slips'[s] = [slips[s] EXCEPT !.visible = TRUE]
      BY <1>4 DEF PublishCommit, LinkedSlips, Existing
    <2>2. \A s \in Slips : slips[s] # NoSlip => slips[s] \in Slip
      BY DEF Undisturbed, Typed, TypeOK
    <2>3. \A s \in Slips : slips'[s] # NoSlip => slips'[s].ack \notin LockStates
      BY <1>2, <2>1, <2>2 DEF Slip
    <2> QED BY <1>4, <2>3, NoneConfirmed DEF PublishCommit
  <1> QED BY <1>3, <1>4

\* An answer that is no confirmation, or the payment of a confirmed slip.
LEMMA AnsweredStep ==
  ASSUME Undisturbed, PeriodAnswered, NEW s, NEW ack, Answered(s, ack), status' = status,
         slips[s].ack \in LockStates <=> ack \in LockStates
  PROVE  PeriodAnswered'
  <1>1. VisibleLive' = VisibleLive
    BY AnsweredVisible
  <1>2. \A o \in VisibleLive : slips'[o].ack \in LockStates <=> slips[o].ack \in LockStates
    BY DEF Answered, VisibleLive, Live, Existing
  <1> QED BY <1>1, <1>2 DEF PeriodAnswered, LockedMeansConfirmed, LastConfirmationLocks

\* The confirmation: the period is locked if and only if it was the last.
LEMMA ConfirmStep ==
  ASSUME Undisturbed, PeriodAnswered, NEW r \in Workers, ConfirmCommit(r)
  PROVE  PeriodAnswered'
  <1> DEFINE s == req[r].slip
  <1>1. Answered(s, "Awaiting Payment") /\ VisibleLive' = VisibleLive
    BY ConfirmAnswers, AnsweredVisible
  <1>2. \A o \in VisibleLive : slips'[o].ack = IF o = s THEN "Awaiting Payment" ELSE slips[o].ack
    BY <1>1 DEF Answered, VisibleLive, Live, Existing
  <1>3. CASE /\ AllConfirmedWith(s)
             /\ status' = IF status = "None" THEN status ELSE "Confirmed"
    BY <1>1, <1>2, <1>3 DEF AllConfirmedWith, PeriodAnswered, LockedMeansConfirmed,
       LastConfirmationLocks, LockStates
  <1>4. CASE ~AllConfirmedWith(s) /\ status' = status
    BY <1>1, <1>2, <1>4 DEF AllConfirmedWith, PeriodAnswered, LockedMeansConfirmed,
       LastConfirmationLocks, LockStates
  <1> QED BY <1>3, <1>4, ConfirmAnswers

\* Every step.
LEMMA AnsweredPeriodStep ==
  ASSUME OneAtATime, Undisturbed, PeriodAnswered, [Next]_vars
  PROVE  PeriodAnswered'
  <1>1. ASSUME UNCHANGED <<status, slips>>
        PROVE  PeriodAnswered'
    BY <1>1, SameAnswers DEF VisibleLive, Live, Existing
  <1>2. CASE UNCHANGED vars
    BY <1>1, <1>2 DEF vars
  <1>3. ASSUME NEW r \in Workers,
               HRBegin(r) \/ SlipBegin(r) \/ \E s \in Slips : AutoConfirmBegin(r, s)
        PROVE  PeriodAnswered'
    BY <1>1, <1>3, BeginKept DEF db
  <1>4. ASSUME NEW r \in Workers, PeriodStep(r)
        PROVE  PeriodAnswered'
    <2>1. CASE Claim(r) \/ AdjustCommit(r)
      BY <1>1, <2>1, OtherStatus DEF Claim, AdjustCommit
    <2>2. CASE \/ CalculateFinish(r) \/ ApproveCommit(r) \/ UpdateCommit(r)
               \/ DeleteCommit(r) \/ CancelCommit(r) \/ ReopenCommit(r)
      BY <2>2, OtherStatus DEF CalculateFinish, ApproveCommit, UpdateCommit, DeleteCommit,
                               CancelCommit, ReopenCommit
    <2>3. CASE GenerateCommit(r) \/ PublishCommit(r)
      BY <2>3, UnconfirmedStep
    <2> QED BY <1>4, <2>1, <2>2, <2>3 DEF PeriodStep
  <1>5. ASSUME NEW r \in Workers, SlipStep(r) \/ Abort(r)
        PROVE  PeriodAnswered'
    <2>1. CASE RequestCommit(r) \/ RejectCommit(r) \/ PayCommit(r)
      <3>1. status' = status
        BY <2>1 DEF RequestCommit, RejectCommit, PayCommit, StampAck
      <3> QED BY <2>1, <3>1, StampAnswers, AnsweredStep DEF LockStates
    <2>2. CASE ConfirmCommit(r)
      BY <2>2, ConfirmStep
    <2>3. CASE StampGone(r) \/ Abort(r)
      BY <1>1, <2>3 DEF StampGone, Abort, db
    <2> QED BY <1>5, <2>1, <2>2, <2>3 DEF SlipStep
  <1>6. ASSUME NEW s \in Slips, DaysPass(s)
        PROVE  PeriodAnswered'
    <2>1. VisibleLive \subseteq Slips
      BY DEF VisibleLive, Live, Existing
    <2>2. status' = status
      BY <1>6 DEF DaysPass
    <2> QED BY <1>6, <2>1, <2>2, DaysUndisturbed, SameAnswers
  <1> QED BY <1>2, <1>3, <1>4, <1>5, <1>6 DEF Next, Workers

\* maybe_lock_period_after_confirm tells the truth: as long as requests do not overlap a
\* period is Confirmed only while every visible slip is confirmed or paid.
THEOREM LockIsTrue == ASSUME OneAtATime PROVE Spec => []LockedMeansConfirmed
  <1>1. Init => Undisturbed /\ PeriodAnswered
    BY UndisturbedInit
    DEF Init, PeriodAnswered, LockedMeansConfirmed, LastConfirmationLocks
  <1>2. Undisturbed /\ PeriodAnswered /\ [Next]_vars => (Undisturbed /\ PeriodAnswered)'
    BY UndisturbedStep, AnsweredPeriodStep
  <1>3. PeriodAnswered => LockedMeansConfirmed
    BY DEF PeriodAnswered
  <1> QED BY <1>1, <1>2, <1>3, PTL DEF Spec

\* ... and it misses no last confirmation: a period of which every visible slip is
\* confirmed is not left Slips Generated or Published.
THEOREM LastLocks == ASSUME OneAtATime PROVE Spec => []LastConfirmationLocks
  <1>1. Init => Undisturbed /\ PeriodAnswered
    BY UndisturbedInit
    DEF Init, PeriodAnswered, LockedMeansConfirmed, LastConfirmationLocks
  <1>2. Undisturbed /\ PeriodAnswered /\ [Next]_vars => (Undisturbed /\ PeriodAnswered)'
    BY UndisturbedStep, AnsweredPeriodStep
  <1>3. PeriodAnswered => LastConfirmationLocks
    BY DEF PeriodAnswered
  <1> QED BY <1>1, <1>2, <1>3, PTL DEF Spec

-----------------------------------------------------------------------------
(* Salary advances: the instance of SalaryAdvance in MCSalaryAdvance. *)

Approved == {"Approved", "Paid"}
Made == {d \in Deductions : deduction[d] # Sa!NoRow}

\* What a row says of itself, after n signatures and with the deductions in owned that it
\* was linked with: amounts and links come with the approval.
RowSound(row, n, owned) ==
  /\ row.state \notin Approved => row.approved = 0 /\ row.link = 0
  /\ row.state = "Paid" => row.approved # 0
  /\ row.link # 0 => row.approved # 0 /\ row.link \in owned
  /\ row.approved <= row.asked
  /\ row.state \in Approved => n >= Steps
  /\ row.state = "Pending HR" => n >= 1

Owned(a) == {d \in Made : deduction[d].advance = a /\ deduction[d].linked}
RowsSound == \A a \in Sa!Rows : RowSound(advance[a], signed[a], Owned(a))

\* A deduction that was not cancelled is of the approved amount, and the one its advance is
\* linked with unless the link was lost.
DeductionsLinked ==
  \A d \in Made :
    LET a == deduction[d].advance
    IN  deduction[d].status # "Cancelled"
        => /\ a \in Sa!Rows /\ advance[a].state \in Approved
           /\ advance[a].approved = deduction[d].amount
           /\ deduction[d].linked => advance[a].link = d

Undecided == {"update", "cancel", "approve", "reject", "return"}
HROps == {"pay", "reverse"}

\* What a request has read and relies on is still so while its stamp is fresh; that a
\* payment or a reversal finds an approved request needs no stamp.
Sound(q) ==
  /\ q.op \in {"submit", "update"} => q.day \in Days /\ q.asked \in Sums
  /\ q.op \in Undecided \cup HROps => q.advance \in Sa!Rows
  /\ q.op \in Undecided /\ q.fresh => advance[q.advance].state \notin Approved
  /\ q.op \in HROps => advance[q.advance].state \in Approved
  /\ q.op \in HROps /\ q.fresh => q.deduction = advance[q.advance].link
  /\ q.op \in HROps /\ q.deduction # 0
     => q.deduction \in Made /\ deduction[q.deduction].advance = q.advance /\ deduction[q.deduction].linked
ReadsSound == \A r \in Callers : Sound(inflight[r])

Inv == Sa!TypeOK /\ RowsSound /\ DeductionsLinked /\ ReadsSound
-----------------------------------------------------------------------------
(* The building blocks of the actions. *)

\* A row is a complete request.
LEMMA RowType ==
  ASSUME Sa!TypeOK, NEW a \in Sa!Rows
  PROVE  advance[a] \in Sa!Advance /\ a \in Advances
  BY DEF Sa!TypeOK, Sa!Rows

\* A made deduction is a complete one.
LEMMA DeductionType ==
  ASSUME Sa!TypeOK, NEW d \in Made
  PROVE  deduction[d] \in Sa!Deduction /\ d \in Deductions
  BY DEF Sa!TypeOK, Made

\* NoRow is neither a request nor a deduction.
LEMMA NoRowIsNone == /\ \A row \in Sa!Advance : row # Sa!NoRow
                     /\ \A d \in Sa!Deduction : d # Sa!NoRow
  <1>1. \A row \in Sa!Advance : row.state # "None"
    BY DEF Sa!Advance, Sa!States, Sa!Editable, Sa!Pending
  <1>2. \A d \in Sa!Deduction : d.status # "None"
    BY DEF Sa!Deduction
  <1>3. Sa!NoRow.state = "None" /\ Sa!NoRow.status = "None"
    BY DEF Sa!NoRow
  <1> QED BY <1>1, <1>2, <1>3

\* Amounts and deduction names are positive numbers.
LEMMA AmountsPositive ==
  ASSUME Sa!AdvancePlan
  PROVE  /\ \A m \in Sums : m \in Nat /\ m # 0 /\ 0 <= m
         /\ Steps \in Nat /\ 0 \notin Deductions
  BY DEF Sa!AdvancePlan

\* A free slot is a well-typed request.
LEMMA AdvanceIdleType == Sa!Idle \in Sa!Request
  BY DEF Sa!Idle, Sa!Request, Sa!OpNames

\* The other requests keep what they read, except for the stamps that changed.
LEMMA EndKeeps ==
  ASSUME Sa!TypeOK, NEW r \in Callers, NEW A, NEW D, Sa!End(r, A, D)
  PROVE  /\ inflight' \in [Callers -> Sa!Request]
         /\ inflight'[r] = Sa!Idle
         /\ \A q \in Callers \ {r} :
              /\ inflight'[q].op = inflight[q].op /\ inflight'[q].advance = inflight[q].advance
              /\ inflight'[q].deduction = inflight[q].deduction
              /\ inflight'[q].day = inflight[q].day /\ inflight'[q].asked = inflight[q].asked
              /\ inflight'[q].fresh => inflight[q].fresh /\ inflight[q].advance \notin A
              /\ inflight'[q].dfresh => inflight[q].dfresh /\ inflight[q].deduction \notin D
  <1>1. ASSUME NEW q \in Callers \ {r}
        PROVE  /\ inflight'[q] \in Sa!Request
               /\ inflight'[q].op = inflight[q].op /\ inflight'[q].advance = inflight[q].advance
               /\ inflight'[q].deduction = inflight[q].deduction
               /\ inflight'[q].day = inflight[q].day /\ inflight'[q].asked = inflight[q].asked
               /\ inflight'[q].fresh => inflight[q].fresh /\ inflight[q].advance \notin A
               /\ inflight'[q].dfresh => inflight[q].dfresh /\ inflight[q].deduction \notin D
    <2> DEFINE fresh  == inflight[q].fresh /\ inflight[q].advance \notin A
               dfresh == inflight[q].dfresh /\ inflight[q].deduction \notin D
    <2>1. inflight'[q] = [inflight[q] EXCEPT !.fresh = fresh, !.dfresh = dfresh]
      BY DEF Sa!End
    <2>2. inflight[q] \in Sa!Request
      BY DEF Sa!TypeOK
    <2>3. fresh \in BOOLEAN /\ dfresh \in BOOLEAN
      BY <2>2 DEF Sa!Request
    <2>4. (fresh => inflight[q].fresh /\ inflight[q].advance \notin A)
          /\ (dfresh => inflight[q].dfresh /\ inflight[q].deduction \notin D)
      OBVIOUS
    <2> HIDE DEF fresh, dfresh
    <2>5. /\ inflight'[q] \in Sa!Request /\ inflight'[q].fresh = fresh /\ inflight'[q].dfresh = dfresh
          /\ inflight'[q].op = inflight[q].op /\ inflight'[q].advance = inflight[q].advance
          /\ inflight'[q].deduction = inflight[q].deduction
          /\ inflight'[q].day = inflight[q].day /\ inflight'[q].asked = inflight[q].asked
      BY <2>1, <2>2, <2>3 DEF Sa!Request
    <2> QED BY <2>4, <2>5
  <1>2. inflight'[r] = Sa!Idle /\ DOMAIN inflight' = Callers /\ inflight' = [q \in Callers |-> inflight'[q]]
    BY DEF Sa!End
  <1> QED BY <1>1, <1>2, AdvanceIdleType

\* Only the requests in flight differ.
RowsKept == UNCHANGED <<advance, deduction, signed>>

\* A step that writes no row keeps what is said of rows and of reads.
LEMMA KeptRows ==
  ASSUME Inv, RowsKept
  PROVE  RowsSound' /\ DeductionsLinked' /\ Sa!Rows' = Sa!Rows /\ Made' = Made
         /\ \A q : Sound(q)' <=> Sound(q)
  BY DEF Inv, RowsKept, RowsSound, RowSound, Owned, DeductionsLinked, Sa!Rows, Made, Sound

\* A request that begins has just read what it relies on.
LEMMA StartInv ==
  ASSUME Inv, NEW r \in Callers, NEW call \in Sa!Request, Sa!Start(r, call), Sound(call)
  PROVE  Inv'
  <1>1. RowsKept /\ UNCHANGED <<advance, deduction, signed, eligible, window>>
        /\ inflight' = [inflight EXCEPT ![r] = call]
    BY DEF Sa!Start, RowsKept
  <1>2. Sa!TypeOK'
    BY <1>1 DEF Inv, Sa!TypeOK
  <1>3. ASSUME NEW q \in Callers PROVE Sound(inflight[q])'
    <2>1. inflight'[q] = inflight[q] \/ inflight'[q] = call
      BY <1>1 DEF Inv, Sa!TypeOK
    <2>2. Sound(inflight[q])
      BY DEF Inv, ReadsSound
    <2>3. /\ Sa!Rows' = Sa!Rows /\ Made' = Made /\ advance' = advance /\ deduction' = deduction
      BY <1>1, KeptRows
    <2> QED BY <2>1, <2>2, <2>3 DEF Sound
  <1> QED BY <1>1, <1>2, <1>3, KeptRows DEF Inv, ReadsSound

\* Loading a row whose state suits the operation.
LEMMA LoadInv ==
  ASSUME Inv, NEW r \in Callers, NEW a \in Sa!Rows, NEW op, Sa!Load(r, a, op),
         \/ op \in {"cancel", "approve", "reject", "return"} /\ Sa!State(a) \notin Approved
         \/ op \in HROps /\ Sa!State(a) \in Approved
  PROVE  Inv'
  <1> DEFINE call == [Sa!Idle EXCEPT !.op = op, !.advance = a, !.fresh = TRUE,
                                  !.deduction = advance[a].link, !.dfresh = TRUE]
  <1>1. advance[a] \in Sa!Advance /\ a \in Advances
    BY RowType DEF Inv
  <1>2. /\ call.op = op /\ call.advance = a /\ call.fresh = TRUE
        /\ call.deduction = advance[a].link
    BY DEF Sa!Idle
  <1>3. call \in Sa!Request
    BY <1>1 DEF Sa!Idle, Sa!Request, Sa!OpNames, Sa!Advance, HROps
  <1>4. advance[a].link # 0
        => /\ advance[a].link \in Made /\ deduction[advance[a].link].advance = a
           /\ deduction[advance[a].link].linked
    BY DEF Inv, RowsSound, RowSound, Owned
  <1>5. Sound(call)
    BY <1>2, <1>4 DEF Sound, Sa!State, Undecided, HROps
  <1> QED BY <1>3, <1>5, StartInv DEF Sa!Load

\* A call that relies on no row.
LEMMA CallInv ==
  ASSUME Inv, NEW r \in Callers, NEW call \in Sa!Request, Sa!Start(r, call),
         \/ call.op = "calculate"
         \/ call.op = "submit" /\ call.day \in Days /\ call.asked \in Sums
  PROVE  Inv'
  BY StartInv DEF Sound, Undecided, HROps

\* Every request that begins meets what its operation relies on.
LEMMA BeginInv ==
  ASSUME Sa!AdvancePlan, Inv, NEW r \in Callers, Sa!Begin(r)
  PROVE  Inv'
  <1>1. CASE Sa!SubmitBegin(r)
    <2>1. PICK day \in Days, asked \in Sums :
             Sa!Start(r, [Sa!Idle EXCEPT !.op = "submit", !.day = day, !.asked = asked])
      BY <1>1 DEF Sa!SubmitBegin
    <2> DEFINE call == [Sa!Idle EXCEPT !.op = "submit", !.day = day, !.asked = asked]
    <2>2. call \in Sa!Request /\ call.op = "submit" /\ call.day = day /\ call.asked = asked
      BY DEF Sa!Idle, Sa!Request, Sa!OpNames
    <2> HIDE DEF call
    <2> QED BY <2>1, <2>2, CallInv DEF call
  <1>2. CASE Sa!PayrollReads(r)
    <2>1. [Sa!Idle EXCEPT !.op = "calculate"] \in Sa!Request
      BY DEF Sa!Idle, Sa!Request, Sa!OpNames
    <2> QED BY <1>2, <2>1, CallInv DEF Sa!Idle, Sa!PayrollReads
  <1>3. ASSUME NEW a \in Advances, Sa!State(a) # "None"
        PROVE  a \in Sa!Rows /\ advance[a] \in Sa!Advance
    <2>1. advance[a] # Sa!NoRow
      BY <1>3 DEF Sa!State, Sa!NoRow
    <2> QED BY <2>1, RowType DEF Inv, Sa!Rows
  <1>4. ASSUME NEW a \in Advances, Sa!ResubmitBegin(r, a) PROVE Inv'
    <2>1. advance[a] \in Sa!Advance
      BY <1>3, <1>4 DEF Sa!ResubmitBegin
    <2>2. PICK today \in Days :
             Sa!Start(r, [Sa!Idle EXCEPT !.op = "submit", !.day = today, !.asked = advance[a].asked])
      BY <1>4 DEF Sa!ResubmitBegin
    <2> DEFINE call == [Sa!Idle EXCEPT !.op = "submit", !.day = today, !.asked = advance[a].asked]
    <2>3. advance[a].asked \in Sums
      BY <2>1 DEF Sa!Advance
    <2>4. call \in Sa!Request /\ call.op = "submit" /\ call.day = today
          /\ call.asked = advance[a].asked
      BY <2>3 DEF Sa!Idle, Sa!Request, Sa!OpNames
    <2> HIDE DEF call
    <2> QED BY <2>2, <2>3, <2>4, CallInv DEF call
  <1>5. ASSUME NEW a \in Advances, Sa!UpdateBegin(r, a) PROVE Inv'
    <2>1. Sa!State(a) \in Sa!Editable
      BY <1>5 DEF Sa!UpdateBegin
    <2>2. a \in Sa!Rows /\ Sa!State(a) \notin Approved
      BY <1>3, <2>1 DEF Sa!Editable, Sa!Pending, Approved
    <2>3. PICK day \in Days, asked \in Sums :
             Sa!Start(r, [Sa!Idle EXCEPT !.op = "update", !.advance = a, !.fresh = TRUE,
                                   !.day = day, !.asked = asked])
      BY <1>5 DEF Sa!UpdateBegin
    <2> DEFINE call == [Sa!Idle EXCEPT !.op = "update", !.advance = a, !.fresh = TRUE,
                                    !.day = day, !.asked = asked]
    <2>4. call \in Sa!Request
      BY DEF Sa!Idle, Sa!Request, Sa!OpNames
    <2>5. Sound(call)
      BY <2>2 DEF Sa!Idle, Sound, Sa!State, Undecided, HROps
    <2> QED BY <2>3, <2>4, <2>5, StartInv
  <1>6. ASSUME NEW a \in Advances, Sa!CancelBegin(r, a) PROVE Inv'
    BY <1>6, LoadInv DEF Sa!CancelBegin, Sa!Withdrawable, Approved
  <1>7. ASSUME NEW a \in Advances, Sa!DecideBegin(r, a) PROVE Inv'
    <2>1. a \in Sa!Rows /\ Sa!State(a) \notin Approved
      BY <1>3, <1>7 DEF Sa!DecideBegin, Sa!Pending, Approved
    <2> QED BY <1>7, <2>1, LoadInv DEF Sa!DecideBegin
  <1>8. ASSUME NEW a \in Advances, Sa!PayBegin(r, a) PROVE Inv'
    <2>1. a \in Sa!Rows /\ Sa!State(a) \in Approved
      BY <1>3, <1>8 DEF Sa!PayBegin, Approved
    <2> QED BY <1>8, <2>1, LoadInv DEF Sa!PayBegin, HROps
  <1>9. ASSUME NEW a \in Advances, Sa!ReverseBegin(r, a) PROVE Inv'
    <2>1. a \in Sa!Rows /\ Sa!State(a) \in Approved
      BY <1>3, <1>9 DEF Sa!ReverseBegin, Approved
    <2> QED BY <1>9, <2>1, LoadInv DEF Sa!ReverseBegin, HROps
  <1> QED BY <1>1, <1>2, <1>4, <1>5, <1>6, <1>7, <1>8, <1>9 DEF Sa!Begin

-----------------------------------------------------------------------------
(* The commits. *)

\* What a commit must leave to the other requests: approved rows stay approved, rows
\* that got no new stamp stay as they are, deductions keep their advance.
LEMMA OthersSound ==
  ASSUME Inv, NEW r \in Callers, NEW A, NEW D, Sa!End(r, A, D),
         Sa!Rows \subseteq Sa!Rows', Made \subseteq Made',
         \A d \in Made : deduction'[d].advance = deduction[d].advance /\ deduction'[d].linked = deduction[d].linked,
         \A a \in Sa!Rows \ A : advance'[a] = advance[a],
         \A a \in Sa!Rows : Sa!State(a) \in Approved => advance'[a].state \in Approved
  PROVE  ReadsSound'
  <1> SUFFICES ASSUME NEW q \in Callers PROVE Sound(inflight[q])'
    BY DEF ReadsSound
  <1>1. CASE q = r
    BY <1>1, EndKeeps DEF Inv, Sound, Sa!Idle, Undecided, HROps
  <1>2. CASE q # r
    <2>1. /\ inflight'[q].op = inflight[q].op /\ inflight'[q].advance = inflight[q].advance
          /\ inflight'[q].deduction = inflight[q].deduction
          /\ inflight'[q].day = inflight[q].day /\ inflight'[q].asked = inflight[q].asked
          /\ inflight'[q].fresh => inflight[q].fresh /\ inflight[q].advance \notin A
      BY <1>2, EndKeeps DEF Inv
    <2>2. Sound(inflight[q])
      BY DEF Inv, ReadsSound
    <2> QED BY <2>1, <2>2 DEF Sound, Sa!State
  <1> QED BY <1>1, <1>2

\* A step of the employee or of an approver writes a request which was not approved.
LEMMA UndecidedInv ==
  ASSUME Sa!AdvancePlan, Inv, NEW r \in Callers, inflight[r].op \in Undecided, inflight[r].fresh,
         NEW row \in Sa!Advance, Sa!Write(r, row), UNCHANGED <<deduction, eligible, window>>,
         signed' \in [Advances -> Nat],
         \A b \in Advances \ {inflight[r].advance} : signed'[b] = signed[b],
         row.link = 0, row.approved <= row.asked, row.state # "Paid",
         row.state # "Approved" => row.approved = 0,
         row.state = "Approved" => signed'[inflight[r].advance] >= Steps,
         row.state = "Pending HR" => signed'[inflight[r].advance] >= 1
  PROVE  Inv'
  <1> DEFINE a == inflight[r].advance
  <1>1. a \in Sa!Rows /\ a \in Advances /\ Sa!State(a) \notin Approved
    <2>1. Sound(inflight[r])
      BY DEF Inv, ReadsSound
    <2> QED BY <2>1 DEF Sound, Sa!State, Sa!Rows
  <1>2. /\ advance' = [advance EXCEPT ![a] = row] /\ Sa!End(r, {a}, {})
        /\ deduction' = deduction /\ Made' = Made
    BY DEF Sa!Write, Made
  <1>3. /\ advance'[a] = row /\ \A b \in Advances \ {a} : advance'[b] = advance[b]
        /\ advance' \in [Advances -> Sa!Advance \cup {Sa!NoRow}]
    BY <1>1, <1>2 DEF Inv, Sa!TypeOK
  <1> HIDE DEF a
  <1>4. Sa!Rows' = Sa!Rows
    BY <1>1, <1>3, NoRowIsNone DEF Sa!Rows
  <1>5. Sa!TypeOK'
    <2>1. inflight' \in [Callers -> Sa!Request]
      BY <1>2, EndKeeps DEF Inv
    <2> QED BY <2>1, <1>2, <1>3 DEF Inv, Sa!TypeOK
  <1>6. ReadsSound'
    <2>1. \A b \in Sa!Rows \ {a} : advance'[b] = advance[b]
      BY <1>3 DEF Sa!Rows
    <2>2. \A b \in Sa!Rows : Sa!State(b) \in Approved => advance'[b].state \in Approved
      BY <1>1, <2>1 DEF Sa!State
    <2>3. Sa!Rows \subseteq Sa!Rows' /\ Made \subseteq Made'
      BY <1>2, <1>4
    <2>4. \A d \in Made : deduction'[d].advance = deduction[d].advance /\ deduction'[d].linked = deduction[d].linked
      BY <1>2
    <2> QED BY <1>2, <2>1, <2>2, <2>3, <2>4, OthersSound
  <1>7. RowsSound'
    <2>1. \A b \in Sa!Rows : Owned(b)' = Owned(b)
      BY <1>2 DEF Owned
    <2>2. RowSound(row, signed'[a], Owned(a))
      BY DEF RowSound, Approved, a
    <2>3. ASSUME NEW b \in Sa!Rows \ {a} PROVE RowSound(advance'[b], signed'[b], Owned(b))
      BY <1>3 DEF Inv, RowsSound, Sa!Rows, a
    <2> QED BY <1>1, <1>3, <1>4, <2>1, <2>2, <2>3 DEF RowsSound
  <1>8. DeductionsLinked'
    <2> SUFFICES ASSUME NEW d \in Made, deduction[d].status # "Cancelled"
                 PROVE  LET b == deduction[d].advance
                        IN  /\ b \in Sa!Rows /\ advance'[b].state \in Approved
                            /\ advance'[b].approved = deduction[d].amount
                            /\ deduction[d].linked => advance'[b].link = d
      BY <1>2, <1>4 DEF DeductionsLinked
    <2>1. LET b == deduction[d].advance
          IN  /\ b \in Sa!Rows /\ advance[b].state \in Approved
              /\ advance[b].approved = deduction[d].amount
              /\ deduction[d].linked => advance[b].link = d
      BY DEF Inv, DeductionsLinked
    <2>2. deduction[d].advance # a
      BY <2>1, <1>1 DEF Sa!State
    <2> QED BY <2>1, <2>2, <1>3 DEF Sa!Rows
  <1> QED BY <1>5, <1>6, <1>7, <1>8 DEF Inv

\* Request r's advance, and what r may rely on.
LEMMA Reads ==
  ASSUME Inv, NEW r \in Callers
  PROVE  /\ Sound(inflight[r])
         /\ inflight[r].op \in Undecided \cup HROps
            => inflight[r].advance \in Sa!Rows /\ inflight[r].advance \in Advances
               /\ advance[inflight[r].advance] \in Sa!Advance
  BY RowType DEF Inv, ReadsSound, Sound

\* An edit: the row it loaded was not approved, and with its stamp still is not.
LEMMA UpdateInv ==
  ASSUME Sa!AdvancePlan, Inv, NEW r \in Callers, Sa!UpdateCommit(r)
  PROVE  Inv'
  <1> DEFINE a == inflight[r].advance
             row == [advance[a] EXCEPT !.day = inflight[r].day, !.asked = inflight[r].asked]
  <1>1. inflight[r].op = "update" /\ inflight[r].fresh /\ Sa!Write(r, row)
        /\ UNCHANGED <<deduction, signed, eligible, window>>
    BY DEF Sa!UpdateCommit, Sa!Saves
  <1>2. /\ a \in Sa!Rows /\ a \in Advances /\ advance[a] \in Sa!Advance
        /\ inflight[r].day \in Days /\ inflight[r].asked \in Sums
        /\ advance[a].state \notin Approved
    BY <1>1, Reads DEF Undecided, Sound
  <1>3. /\ row \in Sa!Advance /\ row.asked \in Sums
        /\ row.state = advance[a].state /\ row.approved = advance[a].approved
        /\ row.link = advance[a].link
    BY <1>2 DEF Sa!Advance
  <1>4. /\ advance[a].approved = 0 /\ advance[a].link = 0
        /\ advance[a].state = "Pending HR" => signed[a] >= 1
    BY <1>2 DEF Inv, RowsSound, RowSound, Owned
  <1>5. signed' \in [Advances -> Nat] /\ signed' = signed
    BY <1>1 DEF Inv, Sa!TypeOK
  <1> HIDE DEF row
  <1>6. row.approved <= row.asked
    BY <1>3, <1>4, AmountsPositive
  <1> QED BY <1>1, <1>2, <1>3, <1>4, <1>5, <1>6, UndecidedInv DEF Undecided, Approved

\* Rejecting, withdrawing and returning: the request is not approved and stays so.
LEMMA ClosedInv ==
  ASSUME Sa!AdvancePlan, Inv, NEW r \in Callers, inflight[r].op \in Undecided, inflight[r].fresh,
         NEW state \in {"Rejected", "Draft"},
         Sa!Write(r, [advance[inflight[r].advance] EXCEPT !.state = state]),
         UNCHANGED <<deduction, eligible, window>>,
         signed' = signed \/ signed' = [signed EXCEPT ![inflight[r].advance] = 0]
  PROVE  Inv'
  <1> DEFINE a == inflight[r].advance
             row == [advance[a] EXCEPT !.state = state]
  <1>1. /\ a \in Sa!Rows /\ a \in Advances /\ advance[a] \in Sa!Advance
        /\ advance[a].state \notin Approved
    BY Reads DEF Sound
  <1>2. /\ row \in Sa!Advance /\ row.state = state /\ row.approved = advance[a].approved
        /\ row.link = advance[a].link /\ row.asked = advance[a].asked
    BY <1>1 DEF Sa!Advance, Sa!States, Sa!Editable, Sa!Pending
  <1>3. advance[a].approved = 0 /\ advance[a].link = 0
        /\ advance[a].approved <= advance[a].asked
    BY <1>1 DEF Inv, RowsSound, RowSound, Owned
  <1>4. /\ signed' \in [Advances -> Nat]
        /\ \A b \in Advances \ {a} : signed'[b] = signed[b]
    BY DEF Inv, Sa!TypeOK
  <1> HIDE DEF row
  <1>5. Sa!Write(r, row)
    BY DEF row
  <1> QED BY <1>2, <1>3, <1>4, <1>5, UndecidedInv

\* reject_request and cancel_advance_request.
LEMMA RejectInv ==
  ASSUME Sa!AdvancePlan, Inv, NEW r \in Callers, Sa!RejectCommit(r)
  PROVE  Inv'
  <1>1. inflight[r].op \in Undecided /\ inflight[r].fresh
    BY DEF Sa!RejectCommit, Sa!Saves, Undecided
  <1> QED BY <1>1, ClosedInv DEF Sa!RejectCommit

\* return_request.
LEMMA ReturnInv ==
  ASSUME Sa!AdvancePlan, Inv, NEW r \in Callers, Sa!ReturnCommit(r)
  PROVE  Inv'
  <1>1. inflight[r].op \in Undecided /\ inflight[r].fresh
    BY DEF Sa!ReturnCommit, Sa!Saves, Undecided
  <1> QED BY <1>1, ClosedInv DEF Sa!ReturnCommit

\* The numbers of a signature.
LEMMA OneMore ==
  ASSUME NEW n \in Nat, NEW m \in Nat
  PROVE  /\ n + 1 \in Nat /\ n + 1 >= 1
         /\ n >= 1 /\ ~(2 < m) => n + 1 >= m
         /\ ~(1 < m) => n + 1 >= m
  OBVIOUS

\* One more signature on request a.
LEMMA SignedOnce ==
  ASSUME NEW S, NEW f \in [S -> Nat], NEW a \in S, NEW g, g = [f EXCEPT ![a] = @ + 1]
  PROVE  /\ g \in [S -> Nat] /\ f[a] \in Nat /\ g[a] = f[a] + 1
         /\ \A b \in S \ {a} : g[b] = f[b]
  OBVIOUS

\* A signature takes a request to the next step, or past the last one.
LEMMA NextState ==
  ASSUME Sa!AdvancePlan, NEW state, NEW n \in Nat, state = "Pending HR" => n >= 1
  PROVE  /\ Sa!next_state_after(state) \in {"Pending HR", "Approved"}
         /\ Sa!next_state_after(state) = "Approved" => n + 1 >= Steps
  <1>1. Steps \in Nat
    BY AmountsPositive
  <1>2. Sa!next_state_after(state) \in {"Pending HR", "Approved"}
    BY DEF Sa!next_state_after
  <1>3. ASSUME Sa!next_state_after(state) = "Approved" PROVE n + 1 >= Steps
    <2>1. CASE state = "Pending HR"
      <3>1. ~(2 < Steps) /\ n >= 1
        BY <1>3, <2>1 DEF Sa!next_state_after
      <3> QED BY <1>1, <3>1, OneMore, Zenon
    <2>2. CASE state # "Pending HR"
      <3>1. ~(1 < Steps)
        BY <1>3, <2>2 DEF Sa!next_state_after
      <3> QED BY <1>1, <3>1, OneMore, Zenon
    <2> QED BY <2>1, <2>2
  <1> QED BY <1>2, <1>3

\* approve_request: one more signature, and the amount sanctioned at the last step.
LEMMA ApproveInv ==
  ASSUME Sa!AdvancePlan, Inv, NEW r \in Callers, Sa!ApproveCommit(r)
  PROVE  Inv'
  <1> DEFINE a == inflight[r].advance
             next == Sa!next_state_after(Sa!State(a))
  <1>1. /\ inflight[r].op = "approve" /\ inflight[r].fresh
        /\ signed' = [signed EXCEPT ![a] = @ + 1]
        /\ UNCHANGED <<deduction, eligible, window>>
    BY DEF Sa!ApproveCommit, Sa!Saves
  <1> DEFINE row(m) == [advance[a] EXCEPT !.state = next, !.approved = IF m = 0 THEN @ ELSE m]
  <1>2. PICK m \in Sa!Sanctioned(a, next) : Sa!Write(r, row(m))
    BY DEF Sa!ApproveCommit
  <1>3. /\ a \in Sa!Rows /\ a \in Advances /\ advance[a] \in Sa!Advance
        /\ advance[a].state \notin Approved
    BY <1>1, Reads DEF Undecided, Sound
  <1>4. /\ advance[a].approved = 0 /\ advance[a].link = 0
        /\ advance[a].state = "Pending HR" => signed[a] >= 1
    BY <1>3 DEF Inv, RowsSound, RowSound, Owned
  <1>5. signed[a] \in Nat /\ signed'[a] = signed[a] + 1 /\ signed' \in [Advances -> Nat]
        /\ \A b \in Advances \ {a} : signed'[b] = signed[b]
    <2>1. signed \in [Advances -> Nat]
      BY DEF Inv, Sa!TypeOK
    <2>2. a \in Advances /\ signed' = [signed EXCEPT ![a] = @ + 1]
      BY <1>1, <1>3
    <2> HIDE DEF a
    <2>3. \A g : g = [signed EXCEPT ![a] = @ + 1]
                => /\ g \in [Advances -> Nat] /\ signed[a] \in Nat /\ g[a] = signed[a] + 1
                   /\ \A b \in Advances \ {a} : g[b] = signed[b]
      BY <2>1, <2>2, SignedOnce
    <2> QED BY <2>2, <2>3, Zenon
  <1>6. /\ next \in {"Pending HR", "Approved"}
        /\ next = "Approved" => signed'[a] >= Steps
    BY <1>4, <1>5, NextState DEF Sa!State
  <1> HIDE DEF next
  <1>7. m \in Sums \cup {0} /\ (m # 0 => next = "Approved" /\ m <= advance[a].asked)
    BY DEF Sa!Sanctioned
  <1>8. /\ row(m) \in Sa!Advance /\ row(m).state = next /\ row(m).link = 0
        /\ row(m).asked = advance[a].asked /\ row(m).approved = m
    <2>1. row(m) = [advance[a] EXCEPT !.state = next, !.approved = m]
      BY <1>4
    <2>2. next \in Sa!States
      BY <1>6 DEF Sa!States, Sa!Editable, Sa!Pending
    <2> HIDE DEF row, a
    <2> QED BY <2>1, <2>2, <1>3, <1>4, <1>7 DEF Sa!Advance
  <1>9. m <= advance[a].asked
    <2>1. advance[a].asked \in Sums
      BY <1>3 DEF Sa!Advance
    <2> QED BY <2>1, <1>7, AmountsPositive
  <1> HIDE DEF row
  <1>10. /\ row(m).approved <= row(m).asked /\ row(m).state # "Paid"
         /\ row(m).state # "Approved" => row(m).approved = 0
         /\ row(m).state = "Approved" => signed'[a] >= Steps
         /\ row(m).state = "Pending HR" => signed'[a] >= 1
    <2>1. row(m).state = "Pending HR" => signed'[a] >= 1
      BY <1>5, OneMore, AmountsPositive, Zenon
    <2> QED BY <2>1, <1>6, <1>7, <1>8, <1>9
  <1>11. inflight[r].op \in Undecided /\ UNCHANGED <<deduction, eligible, window>>
    BY <1>1 DEF Undecided
  <1> QED BY <1>1, <1>2, <1>5, <1>8, <1>10, <1>11, UndecidedInv

\* A new request has no amount, no link and no deduction.
LEMMA SubmitInv ==
  ASSUME Sa!AdvancePlan, Inv, NEW r \in Callers, Sa!SubmitCommit(r)
  PROVE  Inv'
  <1>1. PICK a \in Advances \ Sa!Rows, state \in {"Pending Manager", "Draft"} :
          advance' = [advance EXCEPT
            ![a] = [day |-> inflight[r].day, asked |-> inflight[r].asked, approved |-> 0,
                    state |-> state, link |-> 0]]
    BY DEF Sa!SubmitCommit
  <1> DEFINE row == [day |-> inflight[r].day, asked |-> inflight[r].asked, approved |-> 0,
                     state |-> state, link |-> 0]
  <1>2. /\ inflight[r].op = "submit" /\ Sa!End(r, {}, {})
        /\ UNCHANGED <<deduction, signed, eligible, window>> /\ Made' = Made
    BY DEF Sa!SubmitCommit, Made
  <1>3. inflight[r].day \in Days /\ inflight[r].asked \in Sums
    BY <1>2, Reads DEF Sound
  <1>4. /\ row \in Sa!Advance /\ row.approved = 0 /\ row.link = 0 /\ row.state = state
        /\ row.asked = inflight[r].asked
    BY <1>3 DEF Sa!Advance, Sa!States, Sa!Editable, Sa!Pending
  <1> HIDE DEF row
  <1>5. /\ advance'[a] = row /\ \A b \in Advances \ {a} : advance'[b] = advance[b]
        /\ advance' \in [Advances -> Sa!Advance \cup {Sa!NoRow}]
    BY <1>1, <1>4 DEF Inv, Sa!TypeOK, row
  <1>6. Sa!Rows' = Sa!Rows \cup {a}
    BY <1>1, <1>4, <1>5, NoRowIsNone DEF Sa!Rows
  <1>7. \A b \in Sa!Rows : b # a /\ b \in Advances /\ advance'[b] = advance[b]
    BY <1>1, <1>5 DEF Sa!Rows
  <1>8. Sa!TypeOK'
    <2>1. inflight' \in [Callers -> Sa!Request]
      BY <1>2, EndKeeps DEF Inv
    <2> QED BY <2>1, <1>2, <1>5 DEF Inv, Sa!TypeOK
  <1>9. ReadsSound'
    <2>1. /\ Sa!Rows \subseteq Sa!Rows' /\ Made \subseteq Made'
          /\ \A d \in Made : deduction'[d].advance = deduction[d].advance /\ deduction'[d].linked = deduction[d].linked
          /\ \A b \in Sa!Rows : Sa!State(b) \in Approved => advance'[b].state \in Approved
          /\ \A b \in Sa!Rows \ {} : advance'[b] = advance[b]
      BY <1>2, <1>6, <1>7 DEF Sa!State
    <2> QED BY <1>2, <2>1, OthersSound
  <1>10. RowsSound'
    <2>1. row.approved <= row.asked
      BY <1>3, <1>4, AmountsPositive
    <2>2. row.state \notin Approved /\ row.state # "Pending HR"
      BY <1>4 DEF Approved
    <2> QED BY <1>2, <1>4, <1>5, <1>6, <1>7, <2>1, <2>2 DEF Inv, RowsSound, RowSound, Owned, Approved
  <1>11. DeductionsLinked'
    BY <1>2, <1>6, <1>7 DEF Inv, DeductionsLinked
  <1> QED BY <1>8, <1>9, <1>10, <1>11 DEF Inv

\* A step of HR writes an approved request and, with it, deductions of that request.
ApprovedWrite(r, a, row, D) ==
  /\ advance' = [advance EXCEPT ![a] = row] /\ Sa!End(r, {a}, D)
  /\ UNCHANGED <<signed, eligible, window>>
  /\ row.state \in Approved /\ row.approved <= row.asked
  /\ row.state = "Paid" => row.approved # 0
  /\ row.link # 0
     => /\ row.approved # 0 /\ row.link \in Made'
        /\ deduction'[row.link].advance = a /\ deduction'[row.link].linked
  /\ deduction' \in [Deductions -> Sa!Deduction \cup {Sa!NoRow}] /\ Made \subseteq Made'
  /\ \A d \in Made : deduction'[d].advance = deduction[d].advance /\ deduction'[d].linked = deduction[d].linked
  /\ \A d \in Made : deduction[d].advance # a => deduction'[d] = deduction[d]
  /\ \A d \in Made' \ Made : deduction'[d].advance = a
  /\ \A d \in Made' : deduction'[d].advance = a /\ deduction'[d].status # "Cancelled"
                        => /\ row.approved = deduction'[d].amount
                           /\ deduction'[d].linked => row.link = d

\* A deduction made for another request takes nothing away.
LEMMA SoundGrows ==
  ASSUME NEW row, NEW n, NEW S, NEW T, RowSound(row, n, S), S \subseteq T
  PROVE  RowSound(row, n, T)
  BY Zenon DEF RowSound

\* A write of HR keeps the invariant.
LEMMA ApprovedInv ==
  ASSUME Inv, NEW r \in Callers, NEW a \in Sa!Rows, Sa!State(a) \in Approved,
         NEW row \in Sa!Advance, NEW D, ApprovedWrite(r, a, row, D)
  PROVE  Inv'
  <1> USE DEF ApprovedWrite
  <1>1. a \in Advances
    BY DEF Sa!Rows
  <1>2. /\ advance'[a] = row /\ \A b \in Advances \ {a} : advance'[b] = advance[b]
        /\ advance' \in [Advances -> Sa!Advance \cup {Sa!NoRow}]
    BY <1>1 DEF Inv, Sa!TypeOK
  <1>3. Sa!Rows' = Sa!Rows /\ \A b \in Sa!Rows \ {a} : advance'[b] = advance[b]
    BY <1>1, <1>2, NoRowIsNone DEF Sa!Rows
  <1>4. Sa!TypeOK'
    <2>1. inflight' \in [Callers -> Sa!Request]
      BY EndKeeps DEF Inv
    <2> QED BY <2>1, <1>2 DEF Inv, Sa!TypeOK
  <1>5. ReadsSound'
    <2>1. \A b \in Sa!Rows : Sa!State(b) \in Approved => advance'[b].state \in Approved
      BY <1>2, <1>3 DEF Sa!State
    <2> QED BY <1>3, <2>1, OthersSound
  <1>6. RowsSound'
    <2>1. signed[a] >= Steps /\ row.state # "Pending HR"
      BY DEF Inv, RowsSound, RowSound, Sa!State, Approved
    <2>2. \A b \in Sa!Rows : Owned(b) \subseteq Owned(b)'
      BY DEF Owned
    <2>3. ASSUME NEW b \in Sa!Rows \ {a} PROVE RowSound(advance'[b], signed[b], Owned(b)')
      <3>1. advance'[b] = advance[b] /\ RowSound(advance[b], signed[b], Owned(b))
        BY <1>3 DEF Inv, RowsSound
      <3>2. Owned(b) \subseteq Owned(b)'
        BY <2>2
      <3> QED BY <3>1, <3>2, SoundGrows
    <2>4. RowSound(row, signed[a], Owned(a)')
      BY <2>1 DEF RowSound, Owned
    <2> QED BY <1>2, <1>3, <2>3, <2>4 DEF RowsSound
  <1>7. DeductionsLinked'
    <2> SUFFICES ASSUME NEW d \in Made', deduction'[d].status # "Cancelled"
                 PROVE  LET b == deduction'[d].advance
                        IN  /\ b \in Sa!Rows /\ advance'[b].state \in Approved
                            /\ advance'[b].approved = deduction'[d].amount
                            /\ deduction'[d].linked => advance'[b].link = d
      BY <1>3 DEF DeductionsLinked
    <2>1. CASE deduction'[d].advance = a
      BY <2>1, <1>2
    <2>2. CASE deduction'[d].advance # a
      <3>1. d \in Made /\ deduction'[d] = deduction[d]
        BY <2>2
      <3>2. LET b == deduction[d].advance
            IN  /\ b \in Sa!Rows /\ advance[b].state \in Approved
                /\ advance[b].approved = deduction[d].amount
                /\ deduction[d].linked => advance[b].link = d
        BY <3>1 DEF Inv, DeductionsLinked
      <3> QED BY <2>2, <3>1, <3>2, <1>3
    <2> QED BY <2>1, <2>2
  <1> QED BY <1>4, <1>5, <1>6, <1>7 DEF Inv

\* What holds of the row of a payment or a reversal.
LEMMA ApprovedRow ==
  ASSUME Inv, NEW a \in Sa!Rows, Sa!State(a) \in Approved
  PROVE  /\ a \in Advances /\ advance[a] \in Sa!Advance /\ advance[a].approved <= advance[a].asked
         /\ advance[a].state = "Paid" => advance[a].approved # 0
         /\ advance[a].link # 0
            => /\ advance[a].approved # 0 /\ advance[a].link \in Made
               /\ deduction[advance[a].link].advance = a /\ deduction[advance[a].link].linked
         /\ \A d \in Made : deduction[d].advance = a /\ deduction[d].status # "Cancelled"
                            => /\ advance[a].approved = deduction[d].amount
                               /\ deduction[d].linked => advance[a].link = d
  BY RowType DEF Inv, RowsSound, RowSound, Owned, DeductionsLinked

\* mark_paid: a deduction is made only when the link, read with a fresh stamp, is empty.
LEMMA PayInv ==
  ASSUME Sa!AdvancePlan, Inv, NEW r \in Callers, Sa!PayCommit(r)
  PROVE  Inv'
  <1> DEFINE a == inflight[r].advance
             loaded == [advance[a] EXCEPT !.link = inflight[r].deduction]
             paid == IF Sa!State(a) = "Approved" THEN Sa!Canonical(loaded) ELSE loaded
  <1>1. inflight[r].op = "pay" /\ inflight[r].fresh /\ UNCHANGED <<signed, eligible, window>>
    BY DEF Sa!PayCommit, Sa!Saves
  <1>2. a \in Sa!Rows /\ Sa!State(a) \in Approved /\ inflight[r].deduction = advance[a].link
    BY <1>1, Reads DEF Sound, Sa!State, HROps, Undecided
  <1> HIDE DEF a
  <1>3. /\ a \in Advances /\ advance[a] \in Sa!Advance /\ advance[a].approved <= advance[a].asked
        /\ advance[a].state = "Paid" => advance[a].approved # 0
        /\ advance[a].link # 0
           => /\ advance[a].approved # 0 /\ advance[a].link \in Made
              /\ deduction[advance[a].link].advance = a /\ deduction[advance[a].link].linked
        /\ \A d \in Made : deduction[d].advance = a /\ deduction[d].status # "Cancelled"
                           => /\ advance[a].approved = deduction[d].amount
                              /\ deduction[d].linked => advance[a].link = d
    BY <1>2, ApprovedRow
  <1>4. /\ paid \in Sa!Advance /\ paid.state = "Paid" /\ paid.link = advance[a].link
        /\ paid.approved = IF advance[a].approved = 0 THEN advance[a].asked
                           ELSE advance[a].approved
        /\ paid.asked = advance[a].asked
    <2>1. loaded = advance[a]
      BY <1>2, <1>3 DEF Sa!Advance
    <2>2. CASE Sa!State(a) = "Approved"
      <3>1. paid = [advance[a] EXCEPT !.state = "Paid",
                      !.approved = IF @ = 0 THEN advance[a].asked ELSE @]
        BY <2>1, <2>2 DEF Sa!Canonical
      <3> HIDE DEF paid
      <3> QED BY <3>1, <1>3 DEF Sa!Advance, Sa!States, Sa!Editable, Sa!Pending
    <2>3. CASE Sa!State(a) = "Paid"
      BY <2>1, <2>3, <1>3 DEF Sa!State
    <2> QED BY <2>2, <2>3, <1>2 DEF Approved
  <1>5. \/ \E d \in Deductions, docstatus \in {"Submitted", "Draft"}, linked \in BOOLEAN :
              /\ paid.state = "Paid" /\ paid.link = 0
              /\ deduction[d] = Sa!NoRow
              /\ deduction' = [deduction EXCEPT
                   ![d] = [advance |-> a, status |-> docstatus, linked |-> linked,
                           amount |-> Sa!advance_deduction_amount(paid)]]
              /\ Sa!Write(r, [paid EXCEPT !.link = IF linked THEN d ELSE @])
        \/ UNCHANGED deduction /\ Sa!Write(r, paid)
    BY DEF Sa!PayCommit, Sa!NeedsDeduction, a
  <1>6. paid.approved # 0 /\ paid.approved <= paid.asked
    <2>1. advance[a].asked \in Sums
      BY <1>3 DEF Sa!Advance
    <2>2. advance[a].asked # 0 /\ advance[a].asked <= advance[a].asked
      BY <2>1, AmountsPositive
    <2> HIDE DEF paid
    <2> QED BY <2>2, <1>3, <1>4
  <1> HIDE DEF paid
  <1>7. CASE UNCHANGED deduction /\ Sa!Write(r, paid)
    <2>1. advance' = [advance EXCEPT ![a] = paid] /\ Sa!End(r, {a}, {})
      BY <1>7 DEF Sa!Write, a
    <2>2. Made' = Made
      BY <1>7 DEF Made
    <2>3. deduction' \in [Deductions -> Sa!Deduction \cup {Sa!NoRow}] /\ deduction' = deduction
      BY <1>7 DEF Inv, Sa!TypeOK
    <2>4. \A d \in Made : deduction[d].advance = a /\ deduction[d].status # "Cancelled"
                         => /\ paid.approved = deduction[d].amount
                            /\ deduction[d].linked => paid.link = d
      <3>1. ASSUME NEW d \in Made, deduction[d].advance = a, deduction[d].status # "Cancelled"
            PROVE  deduction[d].amount # 0
        BY <3>1, DeductionType, AmountsPositive DEF Inv, Sa!Deduction
      <3> QED BY <3>1, <1>3, <1>4
    <2>5. paid.state \in Approved
      BY <1>4 DEF Approved
    <2>6. paid.link # 0 => paid.link \in Made' /\ deduction'[paid.link].advance = a /\ deduction'[paid.link].linked
      BY <1>3, <1>4, <2>2, <2>3
    <2>7. ApprovedWrite(r, a, paid, {})
      BY <1>1, <1>4, <1>6, <2>1, <2>2, <2>3, <2>4, <2>5, <2>6 DEF ApprovedWrite
    <2> QED BY <1>2, <1>4, <2>7, ApprovedInv
  <1>8. ASSUME NEW d \in Deductions, NEW docstatus \in {"Submitted", "Draft"}, NEW linked \in BOOLEAN,
               paid.link = 0, deduction[d] = Sa!NoRow,
               deduction' = [deduction EXCEPT
                 ![d] = [advance |-> a, status |-> docstatus, linked |-> linked,
                         amount |-> Sa!advance_deduction_amount(paid)]],
               Sa!Write(r, [paid EXCEPT !.link = IF linked THEN d ELSE @])
        PROVE  Inv'
    <2> DEFINE made == [advance |-> a, status |-> docstatus, linked |-> linked,
                        amount |-> Sa!advance_deduction_amount(paid)]
               row  == [paid EXCEPT !.link = IF linked THEN d ELSE @]
    <2>1. /\ row \in Sa!Advance /\ row.state = "Paid" /\ row.link = IF linked THEN d ELSE 0
          /\ row.approved = paid.approved /\ row.asked = paid.asked
      <3>1. row = [paid EXCEPT !.link = IF linked THEN d ELSE 0]
        BY <1>8
      <3> HIDE DEF row
      <3> QED BY <3>1, <1>4 DEF Sa!Advance
    <2>2. /\ made \in Sa!Deduction /\ made.advance = a /\ made.linked = linked
          /\ made.amount = paid.approved
      <3>1. Sa!advance_deduction_amount(paid) = paid.approved /\ paid.approved \in Sums
        BY <1>4, <1>6 DEF Sa!advance_deduction_amount, Sa!Advance
      <3> QED BY <3>1, <1>3 DEF Sa!Deduction
    <2>3. advance' = [advance EXCEPT ![a] = row] /\ Sa!End(r, {a}, {})
      BY <1>8 DEF Sa!Write, a
    <2> HIDE DEF row, made
    <2>4. /\ deduction' \in [Deductions -> Sa!Deduction \cup {Sa!NoRow}] /\ deduction'[d] = made
          /\ \A e \in Deductions \ {d} : deduction'[e] = deduction[e]
      BY <1>8, <2>2 DEF Inv, Sa!TypeOK, made
    <2>5. Made' = Made \cup {d} /\ d \notin Made /\ d # 0
      BY <1>8, <2>2, <2>4, NoRowIsNone, AmountsPositive DEF Made
    <2>6. \A e \in Made : e # d /\ e # 0 /\ deduction'[e] = deduction[e]
      BY <2>4, <2>5, AmountsPositive DEF Made
    <2>7. ASSUME NEW e \in Made, deduction[e].advance = a, deduction[e].status # "Cancelled"
          PROVE  row.approved = deduction[e].amount /\ ~deduction[e].linked
      <3>1. deduction[e].amount # 0
        BY <2>7, DeductionType, AmountsPositive DEF Inv, Sa!Deduction
      <3>2. advance[a].approved = deduction[e].amount /\ (deduction[e].linked => advance[a].link = e)
        BY <2>7, <1>3
      <3> QED BY <3>1, <3>2, <1>4, <1>8, <2>1, <2>6
    <2>8. ASSUME NEW e \in Made', deduction'[e].advance = a, deduction'[e].status # "Cancelled"
          PROVE  row.approved = deduction'[e].amount /\ (deduction'[e].linked => row.link = e)
      <3>1. CASE e = d
        BY <3>1, <2>1, <2>2, <2>4
      <3>2. CASE e # d
        BY <3>2, <2>5, <2>6, <2>7, <2>8
      <3> QED BY <3>1, <3>2
    <2>9. row.state \in Approved /\ row.approved # 0 /\ row.approved <= row.asked
      BY <1>6, <2>1 DEF Approved
    <2>10. row.link # 0 => row.link \in Made' /\ deduction'[row.link].advance = a /\ deduction'[row.link].linked
      BY <2>1, <2>2, <2>4, <2>5
    <2>11. /\ Made \subseteq Made'
           /\ \A e \in Made : deduction'[e].advance = deduction[e].advance /\ deduction'[e].linked = deduction[e].linked
           /\ \A e \in Made : deduction[e].advance # a => deduction'[e] = deduction[e]
           /\ \A e \in Made' \ Made : deduction'[e].advance = a
      BY <2>2, <2>4, <2>5, <2>6
    <2>12. ApprovedWrite(r, a, row, {})
      BY <1>1, <2>3, <2>4, <2>8, <2>9, <2>10, <2>11 DEF ApprovedWrite
    <2> QED BY <1>2, <2>1, <2>12, ApprovedInv
  <1> QED BY <1>5, <1>7, <1>8

\* A deduction is submitted or cancelled.
LEMMA StatusChange ==
  ASSUME Sa!TypeOK, NEW d \in Made, NEW docstatus \in {"Submitted", "Cancelled"},
         deduction' = [deduction EXCEPT ![d].status = docstatus]
  PROVE  /\ Made' = Made /\ deduction' \in [Deductions -> Sa!Deduction \cup {Sa!NoRow}]
         /\ \A e \in Made : /\ deduction'[e].advance = deduction[e].advance
                            /\ deduction'[e].amount = deduction[e].amount
                            /\ deduction'[e].linked = deduction[e].linked
                            /\ e # d => deduction'[e] = deduction[e]
         /\ deduction'[d].status = docstatus
  <1>1. deduction[d] \in Sa!Deduction /\ d \in Deductions
    BY DeductionType
  <1> DEFINE row == [deduction[d] EXCEPT !.status = docstatus]
  <1>2. /\ row \in Sa!Deduction /\ row.advance = deduction[d].advance
        /\ row.amount = deduction[d].amount /\ row.status = docstatus /\ row.linked = deduction[d].linked
    BY <1>1 DEF Sa!Deduction
  <1>3. deduction' = [deduction EXCEPT ![d] = row]
    OBVIOUS
  <1> HIDE DEF row
  <1>4. /\ deduction'[d] = row /\ \A e \in Deductions \ {d} : deduction'[e] = deduction[e]
        /\ deduction' \in [Deductions -> Sa!Deduction \cup {Sa!NoRow}]
    BY <1>1, <1>2, <1>3 DEF Sa!TypeOK
  <1>5. Made' = Made
    BY <1>1, <1>2, <1>4, NoRowIsNone DEF Made
  <1> QED BY <1>2, <1>4, <1>5 DEF Made

\* A reversal that leaves the link.
LEMMA ReverseKeepsInv ==
  ASSUME Sa!AdvancePlan, Inv, NEW r \in Callers, Sa!ReverseKeeps(r)
  PROVE  Inv'
  <1> DEFINE a == inflight[r].advance
             d == inflight[r].deduction
             row == [advance[a] EXCEPT !.state = "Approved"]
  <1>1. /\ inflight[r].op = "reverse" /\ inflight[r].fresh /\ UNCHANGED <<signed, eligible, window>>
        /\ Sa!End(r, {a}, {d}) /\ advance' = [advance EXCEPT ![a].state = "Approved"]
    BY DEF Sa!ReverseKeeps, Sa!Saves
  <1>2. /\ a \in Sa!Rows /\ Sa!State(a) \in Approved /\ d = advance[a].link
        /\ d # 0 => d \in Made /\ deduction[d].advance = a /\ deduction[d].linked
    BY <1>1, Reads DEF Sound, Sa!State, HROps, Undecided
  <1>3. \/ UNCHANGED deduction
        \/ d # 0 /\ deduction' = [deduction EXCEPT ![d].status = "Cancelled"]
    BY DEF Sa!ReverseKeeps
  <1> HIDE DEF a, d
  <1>4. /\ a \in Advances /\ advance[a] \in Sa!Advance /\ advance[a].approved <= advance[a].asked
        /\ advance[a].link # 0 => advance[a].approved # 0
        /\ \A e \in Made : deduction[e].advance = a /\ deduction[e].status # "Cancelled"
                           => /\ advance[a].approved = deduction[e].amount
                              /\ deduction[e].linked => advance[a].link = e
    BY <1>2, ApprovedRow
  <1>5. /\ row \in Sa!Advance /\ row.state = "Approved" /\ row.link = d
        /\ row.approved = advance[a].approved /\ row.asked = advance[a].asked
    BY <1>2, <1>4 DEF Sa!Advance, Sa!States, Sa!Editable
  <1>6. advance' = [advance EXCEPT ![a] = row]
    BY <1>1
  <1> HIDE DEF row
  <1>7. CASE UNCHANGED deduction
    <2>1. Made' = Made /\ deduction' = deduction
          /\ deduction' \in [Deductions -> Sa!Deduction \cup {Sa!NoRow}]
      BY <1>7 DEF Made, Inv, Sa!TypeOK
    <2>2. ApprovedWrite(r, a, row, {d})
      BY <1>1, <1>2, <1>4, <1>5, <1>6, <2>1 DEF ApprovedWrite, Approved
    <2> QED BY <1>2, <1>5, <2>2, ApprovedInv
  <1>8. CASE d # 0 /\ deduction' = [deduction EXCEPT ![d].status = "Cancelled"]
    <2>1. /\ Made' = Made /\ deduction' \in [Deductions -> Sa!Deduction \cup {Sa!NoRow}]
          /\ \A e \in Made : /\ deduction'[e].advance = deduction[e].advance
                             /\ deduction'[e].amount = deduction[e].amount
                             /\ deduction'[e].linked = deduction[e].linked
                             /\ e # d => deduction'[e] = deduction[e]
          /\ deduction'[d].status = "Cancelled"
      BY <1>2, <1>8, StatusChange DEF Inv
    <2>2. \A e \in Made : deduction'[e].advance = a /\ deduction'[e].status # "Cancelled"
                          => /\ row.approved = deduction'[e].amount
                             /\ deduction'[e].linked => row.link = e
      BY <1>4, <1>5, <1>2, <2>1
    <2>3. row.link \in Made' /\ deduction'[row.link].advance = a /\ deduction'[row.link].linked /\ row.approved # 0
      BY <1>2, <1>4, <1>5, <1>8, <2>1
    <2>4. Made \subseteq Made' /\ Made' \ Made = {}
      BY <2>1
    <2>5. row.state \in Approved /\ row.state # "Paid" /\ row.approved <= row.asked
      BY <1>4, <1>5 DEF Approved
    <2>6. \A e \in Made : deduction[e].advance # a => deduction'[e] = deduction[e]
      BY <1>2, <1>8, <2>1
    <2>7. ApprovedWrite(r, a, row, {d})
      BY <1>1, <1>6, <2>1, <2>2, <2>3, <2>4, <2>5, <2>6 DEF ApprovedWrite
    <2> QED BY <1>2, <1>5, <2>7, ApprovedInv
  <1> QED BY <1>3, <1>7, <1>8

\* A reversal that finds the deduction cancelled: no other was linked.
LEMMA ReverseClearsInv ==
  ASSUME Sa!AdvancePlan, Inv, NEW r \in Callers, Sa!ReverseClears(r)
  PROVE  Inv'
  <1> DEFINE a == inflight[r].advance
             d == inflight[r].deduction
             row == [advance[a] EXCEPT !.state = "Approved", !.link = 0]
  <1>1. /\ inflight[r].op = "reverse" /\ inflight[r].fresh
        /\ UNCHANGED <<deduction, signed, eligible, window>>
        /\ Sa!End(r, {a}, {}) /\ d # 0 /\ deduction[d].status = "Cancelled"
        /\ advance' = [advance EXCEPT ![a].state = "Approved", ![a].link = 0]
    BY DEF Sa!ReverseClears, Sa!Saves
  <1>2. a \in Sa!Rows /\ Sa!State(a) \in Approved /\ d = advance[a].link
    BY <1>1, Reads DEF Sound, Sa!State, HROps, Undecided
  <1> HIDE DEF a, d
  <1>3. /\ a \in Advances /\ advance[a] \in Sa!Advance /\ advance[a].approved <= advance[a].asked
        /\ \A e \in Made : deduction[e].advance = a /\ deduction[e].status # "Cancelled"
                           => /\ advance[a].approved = deduction[e].amount
                              /\ deduction[e].linked => advance[a].link = e
    BY <1>2, ApprovedRow
  <1>4. /\ row \in Sa!Advance /\ row.state = "Approved" /\ row.link = 0
        /\ row.approved = advance[a].approved /\ row.asked = advance[a].asked
    BY <1>3 DEF Sa!Advance, Sa!States, Sa!Editable
  <1>5. advance' = [advance EXCEPT ![a] = row]
    <2>1. advance \in [Advances -> Sa!Advance \cup {Sa!NoRow}]
      BY DEF Inv, Sa!TypeOK
    <2> QED BY <1>1, <1>3, <2>1
  <1> HIDE DEF row
  <1>6. /\ Made' = Made /\ deduction' = deduction
        /\ deduction' \in [Deductions -> Sa!Deduction \cup {Sa!NoRow}]
    BY <1>1 DEF Made, Inv, Sa!TypeOK
  <1>7. \A e \in Made : deduction[e].advance = a /\ deduction[e].status # "Cancelled"
                        => row.approved = deduction[e].amount /\ ~deduction[e].linked
    BY <1>1, <1>2, <1>3, <1>4
  <1>8. ApprovedWrite(r, a, row, {})
    BY <1>1, <1>2, <1>3, <1>4, <1>5, <1>6, <1>7 DEF ApprovedWrite, Approved
  <1> QED BY <1>2, <1>4, <1>8, ApprovedInv

\* A reversal that cancels the deduction: a linked and live one is the one it has read.
LEMMA ReverseCancelsInv ==
  ASSUME Sa!AdvancePlan, Inv, NEW r \in Callers, Sa!ReverseCancels(r)
  PROVE  Inv'
  <1> DEFINE a == inflight[r].advance
             d == inflight[r].deduction
             row == [advance[a] EXCEPT !.state = "Approved", !.link = 0]
  <1>1. /\ inflight[r].op = "reverse" /\ UNCHANGED <<signed, eligible, window>>
        /\ Sa!End(r, {a}, {d}) /\ d # 0 /\ deduction[d].status = "Submitted"
        /\ advance' = [advance EXCEPT ![a].state = "Approved", ![a].link = 0]
        /\ deduction' = [deduction EXCEPT ![d].status = "Cancelled"]
    BY DEF Sa!ReverseCancels
  <1>2. /\ a \in Sa!Rows /\ Sa!State(a) \in Approved /\ d \in Made /\ deduction[d].advance = a /\ deduction[d].linked
    BY <1>1, Reads DEF Sound, Sa!State, HROps, Undecided
  <1> HIDE DEF a, d
  <1>3. /\ a \in Advances /\ advance[a] \in Sa!Advance /\ advance[a].approved <= advance[a].asked
        /\ \A e \in Made : deduction[e].advance = a /\ deduction[e].status # "Cancelled"
                           => /\ advance[a].approved = deduction[e].amount
                              /\ deduction[e].linked => advance[a].link = e
    BY <1>2, ApprovedRow
  <1>4. /\ row \in Sa!Advance /\ row.state = "Approved" /\ row.link = 0
        /\ row.approved = advance[a].approved /\ row.asked = advance[a].asked
    BY <1>3 DEF Sa!Advance, Sa!States, Sa!Editable
  <1>5. advance' = [advance EXCEPT ![a] = row]
    <2>1. advance \in [Advances -> Sa!Advance \cup {Sa!NoRow}]
      BY DEF Inv, Sa!TypeOK
    <2> QED BY <1>1, <1>3, <2>1
  <1> HIDE DEF row
  <1>6. /\ Made' = Made /\ deduction' \in [Deductions -> Sa!Deduction \cup {Sa!NoRow}]
        /\ \A e \in Made : /\ deduction'[e].advance = deduction[e].advance
                           /\ deduction'[e].linked = deduction[e].linked
                           /\ e # d => deduction'[e] = deduction[e]
        /\ deduction'[d].status = "Cancelled"
    BY <1>1, <1>2, StatusChange DEF Inv
  <1>7. advance[a].link = d
    BY <1>1, <1>2, <1>3
  <1>8. \A e \in Made : deduction'[e].advance = a /\ deduction'[e].status # "Cancelled"
                        => row.approved = deduction'[e].amount /\ ~deduction'[e].linked
    BY <1>3, <1>4, <1>6, <1>7
  <1>9. ApprovedWrite(r, a, row, {d})
    BY <1>1, <1>2, <1>3, <1>4, <1>5, <1>6, <1>8 DEF ApprovedWrite, Approved
  <1> QED BY <1>2, <1>4, <1>9, ApprovedInv

\* HR never gives a cancelled deduction back its effect.
LEMMA DeskInv ==
  ASSUME Sa!AdvancePlan, Inv, NEW d \in Deductions, Sa!DeskDeduction(d)
  PROVE  Inv'
  <1>1. /\ d \in Made /\ deduction[d].status # "Cancelled"
        /\ UNCHANGED <<advance, signed, eligible, window>>
        /\ inflight' = [q \in Callers |-> [inflight[q] EXCEPT !.dfresh = @ /\ inflight[q].deduction # d]]
    BY DEF Sa!DeskDeduction, Made
  <1>2. PICK docstatus \in {"Submitted", "Cancelled"} :
          deduction' = [deduction EXCEPT ![d].status = docstatus]
    <2>1. CASE deduction[d].status = "Draft"
      BY <2>1 DEF Sa!DeskDeduction
    <2>2. CASE deduction[d].status # "Draft"
      BY <2>2 DEF Sa!DeskDeduction
    <2> QED BY <2>1, <2>2
  <1>3. /\ Made' = Made /\ deduction' \in [Deductions -> Sa!Deduction \cup {Sa!NoRow}]
        /\ \A e \in Made : /\ deduction'[e].advance = deduction[e].advance
                           /\ deduction'[e].amount = deduction[e].amount
                           /\ deduction'[e].linked = deduction[e].linked
                           /\ e # d => deduction'[e] = deduction[e]
    BY <1>1, <1>2, StatusChange DEF Inv
  <1>4. ASSUME NEW q \in Callers
        PROVE  /\ inflight'[q] \in Sa!Request /\ inflight'[q].op = inflight[q].op
               /\ inflight'[q].advance = inflight[q].advance /\ inflight'[q].deduction = inflight[q].deduction
               /\ inflight'[q].day = inflight[q].day /\ inflight'[q].asked = inflight[q].asked
               /\ inflight'[q].fresh = inflight[q].fresh
    <2>1. inflight[q] \in Sa!Request
      BY DEF Inv, Sa!TypeOK
    <2> DEFINE dfresh == inflight[q].dfresh /\ inflight[q].deduction # d
    <2>2. dfresh \in BOOLEAN /\ inflight'[q] = [inflight[q] EXCEPT !.dfresh = dfresh]
      BY <1>1, <2>1 DEF Sa!Request
    <2> HIDE DEF dfresh
    <2> QED BY <2>1, <2>2 DEF Sa!Request
  <1>5. Sa!TypeOK'
    <2>1. inflight' \in [Callers -> Sa!Request]
      BY <1>1, <1>4
    <2> QED BY <1>1, <1>3, <2>1 DEF Inv, Sa!TypeOK
  <1>6. Sa!Rows' = Sa!Rows /\ advance' = advance /\ signed' = signed
    BY <1>1 DEF Sa!Rows
  <1>7. RowsSound'
    <2>1. \A a \in Sa!Rows : Owned(a)' = Owned(a)
      BY <1>3 DEF Owned
    <2> QED BY <1>6, <2>1, Zenon DEF Inv, RowsSound
  <1>8. DeductionsLinked'
    BY <1>1, <1>3, <1>6 DEF Inv, DeductionsLinked
  <1>9. ReadsSound'
    <2> SUFFICES ASSUME NEW q \in Callers PROVE Sound(inflight[q])'
      BY DEF ReadsSound
    <2>1. Sound(inflight[q])
      BY DEF Inv, ReadsSound
    <2> QED BY <1>3, <1>4, <1>6, <2>1 DEF Sound
  <1> QED BY <1>5, <1>7, <1>8, <1>9 DEF Inv

\* A request that writes no row, or is rolled back.
LEMMA IdleAgainInv ==
  ASSUME Inv, NEW r \in Callers, RowsKept, inflight' \in [Callers -> Sa!Request], inflight'[r] = Sa!Idle,
         \A q \in Callers \ {r} :
           /\ inflight'[q].op = inflight[q].op /\ inflight'[q].advance = inflight[q].advance
           /\ inflight'[q].deduction = inflight[q].deduction
           /\ inflight'[q].day = inflight[q].day /\ inflight'[q].asked = inflight[q].asked
           /\ inflight'[q].fresh => inflight[q].fresh,
         eligible' \in Eligibles, window' \in {"Draft", "Calculating", "Calculated"}
  PROVE  Inv'
  <1>1. /\ RowsSound' /\ DeductionsLinked' /\ Sa!Rows' = Sa!Rows /\ Made' = Made
        /\ advance' = advance /\ deduction' = deduction
    BY KeptRows DEF RowsKept
  <1>2. Sa!TypeOK'
    BY DEF Inv, Sa!TypeOK, RowsKept
  <1>3. ReadsSound'
    <2> SUFFICES ASSUME NEW q \in Callers PROVE Sound(inflight[q])'
      BY DEF ReadsSound
    <2>1. CASE q = r
      BY <2>1 DEF Sound, Sa!Idle, Undecided, HROps
    <2>2. CASE q # r
      <3>1. Sound(inflight[q])
        BY DEF Inv, ReadsSound
      <3> QED BY <1>1, <2>2, <3>1 DEF Sound
    <2> QED BY <2>1, <2>2
  <1> QED BY <1>1, <1>2, <1>3 DEF Inv

\* A request that is rolled back.
LEMMA AbortInv ==
  ASSUME Inv, NEW r \in Callers, Sa!Abort(r)
  PROVE  Inv'
  <1>1. /\ inflight' = [inflight EXCEPT ![r] = Sa!Idle] /\ inflight \in [Callers -> Sa!Request]
        /\ RowsKept /\ UNCHANGED <<eligible, window>>
        /\ eligible \in Eligibles /\ window \in {"Draft", "Calculating", "Calculated"}
    BY DEF Sa!Abort, RowsKept, Inv, Sa!TypeOK
  <1>2. /\ inflight' \in [Callers -> Sa!Request] /\ inflight'[r] = Sa!Idle
        /\ \A q \in Callers \ {r} : inflight'[q] = inflight[q]
    BY <1>1, AdvanceIdleType
  <1> QED BY <1>1, <1>2, IdleAgainInv

\* The end of a payroll calculation.
LEMMA CalculatedInv ==
  ASSUME Inv, NEW r \in Callers, Sa!PayrollCalculated(r)
  PROVE  Inv'
  <1>1. /\ Sa!End(r, {}, {}) /\ RowsKept /\ eligible' = eligible /\ window' = "Calculated"
        /\ eligible \in Eligibles
    BY DEF Sa!PayrollCalculated, RowsKept, Inv, Sa!TypeOK
  <1> QED BY <1>1, EndKeeps, IdleAgainInv DEF Inv

\* Every way a request ends.
LEMMA FinishInv ==
  ASSUME Sa!AdvancePlan, Inv, NEW r \in Callers, Sa!Finish(r)
  PROVE  Inv'
  BY SubmitInv, UpdateInv, ApproveInv, RejectInv, ReturnInv, PayInv, ReverseKeepsInv,
     ReverseClearsInv, ReverseCancelsInv, CalculatedInv, AbortInv DEF Sa!Finish

\* The policy, the payroll's claim and stuttering touch neither rows nor requests.
LEMMA AroundInv ==
  ASSUME Inv, Sa!PolicyChanges \/ Sa!PayrollClaim \/ UNCHANGED Sa!vars
  PROVE  Inv'
  <1>1. RowsKept /\ inflight' = inflight /\ eligible' \in Eligibles
        /\ window' \in {"Draft", "Calculating", "Calculated"}
    BY DEF Sa!PolicyChanges, Sa!PayrollClaim, Sa!vars, RowsKept, Inv, Sa!TypeOK
  <1>2. RowsSound' /\ DeductionsLinked' /\ \A q : Sound(q)' <=> Sound(q)
    BY <1>1, KeptRows
  <1>3. Sa!TypeOK'
    BY <1>1 DEF Inv, Sa!TypeOK, RowsKept
  <1>4. ReadsSound'
    BY <1>1, <1>2 DEF Inv, ReadsSound
  <1> QED BY <1>2, <1>3, <1>4 DEF Inv

\* The empty tables.
LEMMA InvInit ==
  ASSUME Sa!AdvancePlan, Sa!Init
  PROVE  Inv
  <1>1. Sa!TypeOK
    BY AdvanceIdleType DEF Sa!Init, Sa!TypeOK
  <1>2. Sa!Rows = {} /\ Made = {}
    BY DEF Sa!Init, Sa!Rows, Made
  <1>3. ReadsSound
    BY DEF Sa!Init, ReadsSound, Sound, Sa!Idle, Undecided, HROps
  <1> QED BY <1>1, <1>2, <1>3 DEF Inv, RowsSound, DeductionsLinked

\* Every step.
LEMMA InvStep ==
  ASSUME Sa!AdvancePlan, Inv, [Sa!Next]_Sa!vars
  PROVE  Inv'
  BY BeginInv, FinishInv, DeskInv, AroundInv DEF Sa!Next

\* The invariant behind all the theorems.
LEMMA Invariance ==
  ASSUME Sa!AdvancePlan
  PROVE  Sa!Spec => []Inv
  BY Sa!AdvancePlan, InvInit, InvStep, PTL DEF Sa!Spec

-----------------------------------------------------------------------------
(* The theorems. *)

\* Every request, deduction and transaction stays well typed: doc.save(), the UPDATE of
\* mark_paid and the reversal only ever write complete rows.
THEOREM AdvanceTypes ==
  ASSUME Sa!AdvancePlan
  PROVE  AdvanceSpec => []AdvancesTyped
  <1>1. Inv => AdvancesTyped
    BY DEF Inv, AdvancesTyped
  <1> QED BY <1>1, Invariance, PTL DEF AdvanceSpec

\* At most one of the Additional Salaries a request was ever linked with takes the advance
\* back from the slip, whatever mark_paid, reverse_payment and HR's hands do in whatever
\* order and whatever fails on the way.
THEOREM OneDeduction ==
  ASSUME Sa!AdvancePlan
  PROVE  AdvanceSpec => []OneLiveDeduction
  <1>1. ASSUME Inv PROVE OneLiveDeduction
    <2> SUFFICES ASSUME NEW a \in Advances
                 PROVE  Cardinality({d \in Sa!Live(a) : deduction[d].linked}) <= 1
      BY DEF OneLiveDeduction, Sa!OneLiveDeduction, Sa!Cardinality, Cardinality
    <2> DEFINE L == {d \in Sa!Live(a) : deduction[d].linked}
    <2>1. \A d \in L : d = advance[a].link
      BY <1>1 DEF Sa!Live, Made, Inv, DeductionsLinked
    <2> HIDE DEF L
    <2>2. CASE L = {}
      BY <2>2, FS_EmptySet DEF L
    <2>3. CASE L # {}
      <3>1. L = {advance[a].link}
        BY <2>1, <2>3
      <3>2. Cardinality(L) = 1
        BY <3>1, FS_Singleton
      <3> QED BY <3>2 DEF L
    <2> QED BY <2>2, <2>3
  <1> QED BY <1>1, Invariance, PTL DEF AdvanceSpec

\* The deduction on the slip and the amount on the payroll line agree.
THEOREM AmountsMatch ==
  ASSUME Sa!AdvancePlan
  PROVE  AdvanceSpec => []AmountsAgree
  <1>1. ASSUME Inv PROVE AmountsAgree
    BY <1>1 DEF AmountsAgree, Sa!AmountsAgree, Sa!Live, Made, Inv, DeductionsLinked
  <1> QED BY <1>1, Invariance, PTL DEF AdvanceSpec

\* The sanctioned amount stays within what the request asks, though the employee may edit
\* the request while its approval is under way.
THEOREM WithinAsked ==
  ASSUME Sa!AdvancePlan
  PROVE  AdvanceSpec => []ApprovedWithinAsked
  <1>1. ASSUME Inv PROVE ApprovedWithinAsked
    BY <1>1 DEF ApprovedWithinAsked, Sa!ApprovedWithinAsked, Inv, RowsSound, RowSound
  <1> QED BY <1>1, Invariance, PTL DEF AdvanceSpec

\* Nothing is approved before every step of the matrix has signed.  (With three steps or more
\* nothing is approved that was at Pending HR: next_state_after leaves it there.)
THEOREM StepsSigned ==
  ASSUME Sa!AdvancePlan
  PROVE  AdvanceSpec => []AllStepsSigned
  <1>1. ASSUME Inv PROVE AllStepsSigned
    BY <1>1 DEF AllStepsSigned, Sa!AllStepsSigned, Inv, RowsSound, RowSound, Sa!State, Approved
  <1> QED BY <1>1, Invariance, PTL DEF AdvanceSpec

Stands(a) == /\ advance'[a].state \in Approved
             /\ advance'[a].day = advance[a].day /\ advance'[a].asked = advance[a].asked
             /\ advance[a].approved \in {0, advance'[a].approved}

\* Requests whose step writes a row that cannot be approved yet.
LEMMA UndecidedStands ==
  ASSUME Inv, NEW r \in Callers, inflight[r].op \in Undecided, inflight[r].fresh,
         NEW row, Sa!Write(r, row), NEW a \in Sa!Rows, Sa!State(a) \in Approved
  PROVE  Stands(a)
  <1>1. inflight[r].advance # a
    BY Reads DEF Sound, Sa!State
  <1>2. advance'[a] = advance[a]
    BY <1>1 DEF Sa!Write, Inv, Sa!TypeOK, Sa!Rows
  <1> QED BY <1>2 DEF Stands, Sa!State

\* Whatever request ends, an approved row stands.
LEMMA FinishStands ==
  ASSUME Sa!AdvancePlan, Inv, NEW r \in Callers, Sa!Finish(r),
         NEW a \in Sa!Rows, Sa!State(a) \in Approved
  PROVE  Stands(a)
  <1>1. ASSUME advance'[a] = advance[a] PROVE Stands(a)
    BY <1>1 DEF Stands, Sa!State
  <1>2. /\ a \in Advances /\ advance[a] \in Sa!Advance
        /\ advance \in [Advances -> Sa!Advance \cup {Sa!NoRow}]
    BY ApprovedRow DEF Inv, Sa!TypeOK
  <1>3. CASE Sa!SubmitCommit(r)
    BY <1>1, <1>2, <1>3 DEF Sa!SubmitCommit
  <1>4. CASE Sa!UpdateCommit(r)
    BY <1>4, UndecidedStands DEF Sa!UpdateCommit, Sa!Saves, Undecided
  <1>5. CASE Sa!ApproveCommit(r)
    BY <1>5, UndecidedStands DEF Sa!ApproveCommit, Sa!Saves, Undecided
  <1>6. CASE Sa!RejectCommit(r)
    BY <1>6, UndecidedStands DEF Sa!RejectCommit, Sa!Saves, Undecided
  <1>7. CASE Sa!ReturnCommit(r)
    BY <1>7, UndecidedStands DEF Sa!ReturnCommit, Sa!Saves, Undecided
  <1>8. CASE Sa!ReverseKeeps(r) \/ Sa!ReverseClears(r) \/ Sa!ReverseCancels(r)
    <2>1. \/ advance' = [advance EXCEPT ![inflight[r].advance].state = "Approved"]
          \/ advance' = [advance EXCEPT ![inflight[r].advance].state = "Approved",
                                        ![inflight[r].advance].link = 0]
      BY <1>8 DEF Sa!ReverseKeeps, Sa!ReverseClears, Sa!ReverseCancels
    <2>2. CASE inflight[r].advance = a
      <3>1. /\ advance'[a].state = "Approved"
            /\ advance'[a].day = advance[a].day /\ advance'[a].asked = advance[a].asked
            /\ advance'[a].approved = advance[a].approved
        BY <1>2, <2>1, <2>2 DEF Sa!Advance
      <3> QED BY <3>1 DEF Stands, Approved
    <2>3. CASE inflight[r].advance # a
      BY <1>1, <1>2, <2>1, <2>3
    <2> QED BY <2>2, <2>3
  <1>9. CASE Sa!PayCommit(r)
    <2>1. PICK row : /\ advance' = [advance EXCEPT ![inflight[r].advance] = row]
                     /\ row.state = "Paid" /\ inflight[r].advance \in Sa!Rows
                     /\ row.day = advance[inflight[r].advance].day
                     /\ row.asked = advance[inflight[r].advance].asked
                     /\ advance[inflight[r].advance].approved \in {0, row.approved}
      <3> DEFINE b == inflight[r].advance
                 loaded == [advance[b] EXCEPT !.link = inflight[r].deduction]
                 paid == IF Sa!State(b) = "Approved" THEN Sa!Canonical(loaded) ELSE loaded
      <3>1. b \in Sa!Rows /\ advance[b] \in Sa!Advance /\ Sa!State(b) \in Approved
        BY <1>9, Reads DEF Sa!PayCommit, Sa!Saves, HROps, Sound, Sa!State
      <3>2. \/ \E d \in Deductions, linked \in BOOLEAN : Sa!Write(r, [paid EXCEPT !.link = IF linked THEN d ELSE @])
            \/ Sa!Write(r, paid)
        BY <1>9 DEF Sa!PayCommit
      <3> HIDE DEF b
      <3>3. ASSUME NEW d, NEW linked
            PROVE  LET row == [paid EXCEPT !.link = IF linked THEN d ELSE @]
                   IN  /\ row.state = "Paid" /\ row.day = advance[b].day
                       /\ row.asked = advance[b].asked
                       /\ advance[b].approved \in {0, row.approved}
        BY <3>1 DEF Sa!Canonical, Sa!State, Approved, Sa!Advance
      <3>4. /\ paid.state = "Paid" /\ paid.day = advance[b].day
            /\ paid.asked = advance[b].asked
            /\ advance[b].approved \in {0, paid.approved}
        BY <3>1 DEF Sa!Canonical, Sa!State, Approved, Sa!Advance
      <3> HIDE DEF paid
      <3> QED BY <3>1, <3>2, <3>3, <3>4 DEF Sa!Write, b
    <2>2. CASE inflight[r].advance = a
      BY <1>2, <2>1, <2>2 DEF Stands, Approved
    <2>3. CASE inflight[r].advance # a
      BY <1>1, <1>2, <2>1, <2>3
    <2> QED BY <2>2, <2>3
  <1>10. CASE Sa!PayrollCalculated(r) \/ Sa!Abort(r)
    BY <1>1, <1>10 DEF Sa!PayrollCalculated, Sa!Abort
  <1> QED BY <1>3, <1>4, <1>5, <1>6, <1>7, <1>8, <1>9, <1>10 DEF Sa!Finish

\* A request that begins writes no row.
LEMMA BeginKeeps ==
  ASSUME NEW r \in Callers, Sa!Begin(r)
  PROVE  advance' = advance
  BY DEF Sa!Begin, Sa!SubmitBegin, Sa!PayrollReads, Sa!ResubmitBegin, Sa!UpdateBegin, Sa!CancelBegin,
         Sa!DecideBegin, Sa!PayBegin, Sa!ReverseBegin, Sa!Load, Sa!Start

\* What was approved is not edited, withdrawn, returned or lowered by a request that had
\* read the row before it was approved.
THEOREM ApprovedFinal ==
  ASSUME Sa!AdvancePlan
  PROVE  AdvanceSpec => ApprovedStands
  <1>1. ASSUME Sa!AdvancePlan, Inv, [Sa!Next]_Sa!vars, NEW a \in Sa!Rows, Sa!State(a) \in Approved
        PROVE  Stands(a)
    <2>1. ASSUME advance' = advance PROVE Stands(a)
      BY <1>1, <2>1 DEF Stands, Sa!State
    <2>2. ASSUME NEW r \in Callers, Sa!Begin(r) PROVE Stands(a)
      BY <2>1, <2>2, BeginKeeps
    <2>3. ASSUME NEW r \in Callers, Sa!Finish(r) PROVE Stands(a)
      BY <1>1, <2>3, FinishStands
    <2> QED BY <1>1, <2>1, <2>2, <2>3 DEF Sa!Next, Sa!DeskDeduction, Sa!PolicyChanges, Sa!PayrollClaim, Sa!vars
  <1>2. ASSUME Sa!AdvancePlan, Inv, [Sa!Next]_Sa!vars
        PROVE  [\A a \in Sa!Rows :
                  Sa!State(a) \in {"Approved", "Paid"}
                  => /\ advance'[a].state \in {"Approved", "Paid"}
                     /\ advance'[a].day = advance[a].day /\ advance'[a].asked = advance[a].asked
                     /\ advance[a].approved \in {0, advance'[a].approved}]_Sa!vars
    BY <1>1, <1>2 DEF Stands, Approved
  <1> QED BY <1>2, Sa!AdvancePlan, Invariance, PTL DEF AdvanceSpec, Sa!Spec, ApprovedStands, Sa!ApprovedStands
=============================================================================
