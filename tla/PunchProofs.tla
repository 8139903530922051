----------------------------- MODULE PunchProofs -----------------------------
(* Theorems about CheckoutMiss, for every number of sessions, tickets and requests, and  *)
(* about Attendance, for any shifts, punches, taps and requests.                         *)
EXTENDS Integers, CheckoutMiss, MCAttendance, FiniteSetTheorems, FunctionTheorems, WellFoundedInduction, TLAPS

\* What the proofs assume of the names: numbers from 1 on, 0 meaning none.
Names == /\ Sessions \subseteq Nat \ {0} /\ IsFiniteSet(Sessions)
         /\ Tickets \subseteq Nat \ {0} /\ IsFiniteSet(Tickets)
         /\ FreeFirstN \in Nat
         /\ Requests \cap Jobs = {} /\ 0 \notin Jobs

Slots == Requests \cup Jobs

-----------------------------------------------------------------------------
(* Ranks: the sessions a transaction closes get their tickets in order. *)

LEMMA RankBelow ==
  ASSUME NEW S, S \subseteq Nat, IsFiniteSet(S), NEW x \in S, NEW y \in S, x < y
  PROVE  Nth(S, x) < Nth(S, y)
  <1> DEFINE X == {q \in S : q <= x}
             Y == {q \in S : q <= y}
  <1>1. X \subseteq Y /\ X # Y
    <2>1. y \in Y /\ y \notin X
      OBVIOUS
    <2>2. \A q \in S : q <= x => q <= y
      OBVIOUS
    <2> QED BY <2>1, <2>2
  <1>2. IsFiniteSet(Y)
    BY FS_Subset
  <1> HIDE DEF X, Y
  <1>3. IsFiniteSet(X) /\ Cardinality(X) <= Cardinality(Y) /\ Cardinality(X) # Cardinality(Y)
    BY <1>1, <1>2, FS_Subset
  <1>4. Cardinality(X) \in Nat /\ Cardinality(Y) \in Nat
    BY <1>2, <1>3, FS_CardinalityType
  <1>5. Cardinality(X) < Cardinality(Y)
    BY <1>3, <1>4
  <1> QED BY <1>5 DEF Nth, X, Y

LEMMA RankInjective ==
  ASSUME NEW S, S \subseteq Nat, IsFiniteSet(S), NEW x \in S, NEW y \in S, Nth(S, x) = Nth(S, y)
  PROVE  x = y
  <1>1. Nth(S, x) \in Nat /\ Nth(S, y) \in Nat
    BY FS_Subset, FS_CardinalityType DEF Nth
  <1>2. ~(x < y)
    <2>1. x < y => Nth(S, x) < Nth(S, y)
      BY RankBelow
    <2> QED BY <1>1, <2>1
  <1>3. ~(y < x)
    <2>1. y < x => Nth(S, y) < Nth(S, x)
      BY RankBelow
    <2> QED BY <1>1, <2>1
  <1>4. x \in Nat /\ y \in Nat
    OBVIOUS
  <1> QED BY <1>2, <1>3, <1>4

LEMMA RankRange ==
  ASSUME NEW S, S \subseteq Nat, IsFiniteSet(S), NEW x \in S
  PROVE  Nth(S, x) \in 1..Cardinality(S)
  <1> DEFINE X == {q \in S : q <= x}
  <1>1. X \subseteq S /\ x \in X
    OBVIOUS
  <1> HIDE DEF X
  <1>2. /\ IsFiniteSet(X) /\ Cardinality(X) <= Cardinality(S) /\ Cardinality(X) \in Nat
        /\ Cardinality(S) \in Nat
    BY <1>1, FS_Subset, FS_CardinalityType
  <1>3. Cardinality(X) # 0
    BY <1>1, <1>2, FS_EmptySet
  <1> QED BY <1>2, <1>3 DEF Nth, X

\* Every rank is taken.
LEMMA RankTaken ==
  ASSUME NEW S, S \subseteq Nat, IsFiniteSet(S), NEW k \in 1..Cardinality(S)
  PROVE  \E x \in S : Nth(S, x) = k
  <1> DEFINE n == Cardinality(S)
             f == [x \in S |-> Nth(S, x)]
  <1>1. n \in Nat /\ IsFiniteSet(1..n) /\ Cardinality(1..n) = n
    BY FS_CardinalityType, FS_Interval
  <1>2. f \in Injection(S, 1..n)
    BY RankRange, RankInjective DEF Injection, IsInjective
  <1>3. f \in Surjection(S, 1..n)
    BY <1>1, <1>2, FS_Injection
  <1> QED BY <1>3 DEF Surjection

\* The tickets taken for n sessions are n at most.
LEMMA NewTicketsFew ==
  ASSUME Names, NEW n \in Nat
  PROVE  /\ NewTickets(n) \subseteq Unused /\ NewTickets(n) \subseteq Nat
         /\ IsFiniteSet(NewTickets(n)) /\ Cardinality(NewTickets(n)) <= n
  <1> DEFINE New == NewTickets(n)
  <1>1. Unused \subseteq Tickets /\ Unused \subseteq Nat /\ IsFiniteSet(Unused)
    BY FS_Subset DEF Unused, Names
  <1>2. New \subseteq Unused /\ IsFiniteSet(New) /\ New \subseteq Nat
    BY <1>1, FS_Subset DEF NewTickets
  <1>3. \A t \in New : Nth(Unused, t) \in 1..n
    <2> SUFFICES ASSUME NEW t \in New PROVE Nth(Unused, t) \in 1..n
      OBVIOUS
    <2> DEFINE B == {u \in Unused : u < t}
    <2>1. t \in Unused /\ t \in Nat
      BY <1>1, <1>2
    <2>2. IsFiniteSet(B) /\ Cardinality(B) < n /\ Cardinality(B) \in Nat
      BY <1>1, FS_Subset, FS_CardinalityType DEF NewTickets
    <2>3. {u \in Unused : u <= t} = B \cup {t} /\ t \notin B
      <3>1. \A u \in Unused : u <= t <=> u < t \/ u = t
        BY <1>1, <2>1
      <3>2. t \notin B
        BY <2>1
      <3> QED BY <2>1, <3>1, <3>2
    <2> HIDE DEF B
    <2>4. Cardinality(B \cup {t}) = Cardinality(B) + 1
      BY <2>2, <2>3, FS_AddElement
    <2>5. Nth(Unused, t) = Cardinality({u \in Unused : u <= t})
      BY DEF Nth
    <2>6. Nth(Unused, t) = Cardinality(B) + 1
      BY <2>3, <2>4, <2>5
    <2> QED BY <2>2, <2>6
  <1> DEFINE f == [t \in New |-> Nth(Unused, t)]
  <1> HIDE DEF New
  <1>4. f \in Injection(New, 1..n)
    <2>1. f \in [New -> 1..n]
      BY <1>3
    <2>2. \A t, u \in New : f[t] = f[u] => t = u
      BY <1>1, <1>2, RankInjective
    <2> QED BY <2>1, <2>2 DEF Injection, IsInjective
  <1>5. IsFiniteSet(1..n) /\ Cardinality(1..n) = n
    BY FS_Interval
  <1>6. Cardinality(New) <= n
    BY <1>4, <1>5, FS_Injection
  <1> QED BY <1>2, <1>6 DEF New

\* Every new ticket is of one of the sessions, and no two are of the same.
LEMMA TicketFor ==
  ASSUME Names, NEW made, made \subseteq Sessions
  PROVE  /\ \A t \in NewTickets(Cardinality(made)) : For(made, t) \in made
         /\ \A t, u \in NewTickets(Cardinality(made)) : For(made, t) = For(made, u) => t = u
  <1>1. made \subseteq Nat /\ IsFiniteSet(made) /\ Cardinality(made) \in Nat
    BY FS_Subset, FS_CardinalityType DEF Names
  <1> DEFINE New == NewTickets(Cardinality(made))
  <1>2. New \subseteq Nat /\ IsFiniteSet(New) /\ Cardinality(New) <= Cardinality(made)
        /\ Cardinality(New) \in Nat
    BY <1>1, NewTicketsFew, FS_CardinalityType
  <1>3. \A t \in New : For(made, t) \in made /\ Nth(made, For(made, t)) = Nth(New, t)
    <2> SUFFICES ASSUME NEW t \in New
                 PROVE  For(made, t) \in made /\ Nth(made, For(made, t)) = Nth(New, t)
      OBVIOUS
    <2> HIDE DEF New
    <2>1. Nth(New, t) \in 1..Cardinality(made)
      <3>1. Nth(New, t) \in 1..Cardinality(New)
        BY <1>2, RankRange
      <3> QED BY <1>1, <1>2, <3>1
    <2>2. \E s \in made : Nth(made, s) = Nth(New, t)
      BY <1>1, <2>1, RankTaken
    <2>3. For(made, t) = CHOOSE s \in made : Nth(made, s) = Nth(New, t)
      BY DEF For, Nth, New
    <2> QED BY <2>2, <2>3
  <1> HIDE DEF New
  <1>4. \A t, u \in New : For(made, t) = For(made, u) => t = u
    BY <1>2, <1>3, RankInjective
  <1> QED BY <1>3, <1>4 DEF New

-----------------------------------------------------------------------------
(* Types, and what a request still relies on. *)

\* A request keeps only what its operation needs, and the ticket that HR decides on
\* exists as long as its stamp is the one that was loaded.
ShapeOf(c) ==
  /\ c.op = "idle" => c = Idle
  /\ c.op # "autoclose" => c.todo = {} /\ c.held = {} /\ c.made = {}
  /\ c.op \in Ops \cup {"idle", "expire", "penalising"}
  /\ c.op \in HRActions /\ c.fresh => c.ticket \in Rows
  /\ c.op \in {"recalc", "create"} => c.session \in Sessions
Shapes == \A r \in Slots : ShapeOf(req[r])

Typed == TypeOK /\ Shapes

LEMMA IdleTyped == Idle \in Request /\ Idle.op = "idle"
  BY DEF Idle, Request, OpNames, Out

\* Another request, after a commit that wrote the tickets T and the sessions S.
Stamped(c, T, S) ==
  [c EXCEPT !.fresh = @ /\ c.ticket \notin T /\ c.session \notin S,
            !.names = IF c.op = "penalising" THEN @ \ T ELSE @]

\* What a commit does to the requests.
LEMMA Committed ==
  ASSUME TypeOK, NEW r \in Slots, NEW next, NEW T, NEW S, Commit(r, next, T, S)
  PROVE  /\ req'[r] = next
         /\ \A q \in Slots \ {r} : req'[q] = Stamped(req[q], T, S)
         /\ next \in Request => req' \in [Slots -> Request]
  <1>1. DOMAIN req = Slots /\ \A q \in Slots : req[q] \in Request
    BY DEF TypeOK, Slots
  <1>2. req' = [q \in Slots |-> IF q = r THEN next ELSE Stamped(req[q], T, S)]
    BY <1>1 DEF Commit, Stamped
  <1>3. \A c \in Request, f \in BOOLEAN, N \in SUBSET Tickets :
           [c EXCEPT !.fresh = f, !.names = N] \in Request
    BY DEF Request
  <1>4. \A c \in Request : Stamped(c, T, S) \in Request
    <2> SUFFICES ASSUME NEW c \in Request PROVE Stamped(c, T, S) \in Request
      OBVIOUS
    <2>1. /\ (c.fresh /\ c.ticket \notin T /\ c.session \notin S) \in BOOLEAN
          /\ (IF c.op = "penalising" THEN c.names \ T ELSE c.names) \in SUBSET Tickets
      BY DEF Request
    <2> QED BY <1>3, <2>1 DEF Stamped
  <1> QED BY <1>1, <1>2, <1>4

\* It keeps what it has, but for its stamp and the names that were written.
Keeps(c, d, T) ==
  /\ c.op = d.op /\ c.ticket = d.ticket /\ c.session = d.session
  /\ c.todo = d.todo /\ c.made = d.made /\ c.held = d.held
  /\ c.ticketed = d.ticketed /\ c.count = d.count /\ c.last = d.last /\ c.asks = d.asks
  /\ c.fresh => d.fresh /\ d.ticket \notin T
  /\ c.names = IF d.op = "penalising" THEN d.names \ T ELSE d.names
  /\ d = Idle => c = Idle

LEMMA StampedKeeps ==
  ASSUME NEW d \in Request, NEW T, NEW S, NEW c, c = Stamped(d, T, S)
  PROVE  Keeps(c, d, T)
  <1>1. PICK f : f = (d.fresh /\ d.ticket \notin T /\ d.session \notin S)
    OBVIOUS
  <1>2. PICK N : N = IF d.op = "penalising" THEN d.names \ T ELSE d.names
    OBVIOUS
  <1>3. c = [d EXCEPT !.fresh = f, !.names = N]
    BY <1>1, <1>2 DEF Stamped
  <1>4. ASSUME d = Idle PROVE c = Idle
    <2>1. d.fresh = FALSE /\ d.op = "idle" /\ d.names = {}
      BY <1>4 DEF Idle
    <2>2. f = FALSE
      BY <1>1, <2>1
    <2>3. N = {}
      BY <1>2, <2>1
    <2> QED BY <1>3, <1>4, <2>2, <2>3 DEF Idle
  <1>5. /\ c.op = d.op /\ c.ticket = d.ticket /\ c.session = d.session
        /\ c.todo = d.todo /\ c.made = d.made /\ c.held = d.held
        /\ c.ticketed = d.ticketed /\ c.count = d.count /\ c.last = d.last /\ c.asks = d.asks
        /\ c.fresh = f /\ c.names = N
    BY <1>3 DEF Request
  <1> QED BY <1>1, <1>2, <1>4, <1>5 DEF Keeps

LEMMA CommittedOthers ==
  ASSUME TypeOK, NEW r \in Slots, NEW next, NEW T, NEW S, Commit(r, next, T, S),
         NEW q \in Slots, q # r, NEW c, c = req'[q]
  PROVE  Keeps(c, req[q], T)
  <1>1. req[q] \in Request /\ c = Stamped(req[q], T, S)
    BY Committed DEF TypeOK, Slots
  <1> QED BY <1>1, StampedKeeps

RowsKept(T) == \A t \in Tickets \ T : t \in Rows => (t \in Rows)'

LEMMA ShapesCommit ==
  ASSUME Typed, NEW r \in Slots, NEW next, NEW T, NEW S, Commit(r, next, T, S), RowsKept(T),
         next.op \in {"idle", "expire", "penalising"}, next.op = "idle" => next = Idle,
         next.todo = {} /\ next.held = {} /\ next.made = {}
  PROVE  Shapes'
  <1> SUFFICES ASSUME NEW q \in Slots PROVE ShapeOf(req[q])'
    BY DEF Shapes
  <1>1. CASE q = r
    <2>1. req'[q] = next
      BY <1>1, Committed DEF Typed
    <2> QED BY <2>1 DEF ShapeOf, HRActions
  <1>2. CASE q # r
    <2>1. PICK c : c = req'[q]
      OBVIOUS
    <2>2. Keeps(c, req[q], T)
      BY <1>2, <2>1, CommittedOthers DEF Typed
    <2>3. ShapeOf(req[q])
      BY DEF Typed, Shapes
    <2>4. req[q].op \in HRActions /\ c.fresh => req[q].ticket \in Rows /\ (req[q].ticket \in Tickets \ T)
      BY <2>2, <2>3 DEF ShapeOf, Rows, Keeps
    <2>5. ASSUME c.op \in HRActions, c.fresh
          PROVE  ticket'[c.ticket].status \in Statuses /\ c.ticket \in Tickets
      <3>1. PICK t \in Tickets \ T : t = c.ticket /\ t \in Rows
        BY <2>2, <2>4, <2>5 DEF Keeps
      <3>2. (t \in Rows)'
        BY <3>1 DEF RowsKept
      <3> QED BY <3>1, <3>2 DEF Rows
    <2> QED BY <2>1, <2>2, <2>3, <2>5 DEF ShapeOf, Rows, Keeps
  <1> QED BY <1>1, <1>2

LEMMA ShapesMove ==
  ASSUME Typed, NEW r \in Slots, NEW c, req' = [req EXCEPT ![r] = c], ticket' = ticket, ShapeOf(c)
  PROVE  Shapes'
  <1> SUFFICES ASSUME NEW q \in Slots PROVE ShapeOf(req[q])'
    BY DEF Shapes
  <1>1. req'[q] = IF q = r THEN c ELSE req[q]
    BY DEF Typed, TypeOK, Slots
  <1>2. ShapeOf(req[q])
    BY DEF Typed, Shapes
  <1> QED BY <1>1, <1>2 DEF ShapeOf, Rows

\* A step of the world.
LEMMA ShapesWorld ==
  ASSUME Typed, req' = req, RowsKept({})
  PROVE  Shapes'
  <1> SUFFICES ASSUME NEW q \in Slots PROVE ShapeOf(req[q])'
    BY DEF Shapes
  <1>1. ShapeOf(req[q])
    BY DEF Typed, Shapes
  <1>2. req[q].op \in HRActions /\ req[q].fresh => (req[q].ticket \in Rows)'
    <2>1. SUFFICES ASSUME req[q].op \in HRActions, req[q].fresh
                   PROVE  (req[q].ticket \in Rows)'
      OBVIOUS
    <2>2. PICK t \in Tickets : t = req[q].ticket /\ t \in Rows
      BY <1>1, <2>1 DEF ShapeOf, Rows
    <2>3. (t \in Rows)'
      BY <2>2 DEF RowsKept
    <2> QED BY <2>2, <2>3 DEF Rows
  <1> QED BY <1>1, <1>2 DEF ShapeOf, Rows

\* The statuses are not those of an empty or deleted row.
LEMMA RowTyped ==
  ASSUME TypeOK, NEW t \in Rows
  PROVE  t \in Tickets /\ ticket[t] \in Ticket
  <1>1. NoTicket.status \notin Statuses /\ Deleted.status \notin Statuses
    BY DEF NoTicket, Deleted, Statuses
  <1> QED BY <1>1 DEF Rows, TypeOK

\* A row written over a row.
LEMMA PutTyped ==
  ASSUME TypeOK, NEW t \in Tickets, NEW row \in Ticket \cup {NoTicket, Deleted}, Put(t, row)
  PROVE  /\ ticket' \in [Tickets -> Ticket \cup {NoTicket, Deleted}]
         /\ ticket'[t] = row /\ \A u \in Tickets \ {t} : ticket'[u] = ticket[u]
  BY DEF TypeOK, Put

LEMMA TicketStatus == \A row \in Ticket : row.status \in Statuses
  BY DEF Ticket

\* A count of tickets is a number.
LEMMA Counts ==
  ASSUME Names, NEW T \in SUBSET Tickets
  PROVE  Cardinality(T) \in Nat
  BY FS_Subset, FS_CardinalityType DEF Names

LEMMA ReadsTyped ==
  ASSUME Names, TypeOK, NEW todo \in SUBSET Sessions
  PROVE  CloseReads(todo) \in Request
  <1>1. Ticketed \in SUBSET Sessions
    BY DEF Ticketed
  <1>2. occurrences \in Nat
    <2>1. {t \in Rows : ~ticket[t].waived} \in SUBSET Tickets
      BY DEF Rows
    <2> QED BY <2>1, Counts DEF occurrences
  <1>3. \A T \in SUBSET Sessions, n \in Nat :
           [Idle EXCEPT !.op = "autoclose", !.todo = todo, !.ticketed = T, !.count = n] \in Request
    BY DEF Idle, Request, OpNames, Out
  <1> HIDE DEF occurrences, Ticketed
  <1> QED BY <1>1, <1>2, <1>3 DEF CloseReads

\* A request that starts.
LEMMA StartTyped ==
  ASSUME Typed, NEW r \in Slots, NEW call \in Request, StartCall(r, call), UNCHANGED <<shift, ticket, appeals, period>>,
         lock' \in Jobs \cup {0},
         call.op \notin {"idle", "autoclose"} => call.todo = {} /\ call.held = {} /\ call.made = {},
         call.op # "idle",
         call.op \in HRActions => call.ticket \in Rows,
         call.op \in {"recalc", "create"} => call.session \in Sessions
  PROVE  Typed'
  <1>1. req' = [req EXCEPT ![r] = call] /\ call.op \in Ops
    BY DEF StartCall
  <1>2. ShapeOf(call)
    BY <1>1 DEF ShapeOf
  <1>3. Shapes'
    BY <1>1, <1>2, ShapesMove
  <1>4. TypeOK'
    BY <1>1 DEF Typed, TypeOK, Slots
  <1> QED BY <1>3, <1>4 DEF Typed

\* A request that moves on.
LEMMA MoveTyped ==
  ASSUME Typed, NEW r \in Slots, NEW c \in Request, req' = [req EXCEPT ![r] = c],
         UNCHANGED <<shift, ticket, appeals, period>>, lock' \in Jobs \cup {0}, ShapeOf(c)
  PROVE  Typed'
  <1>1. Shapes'
    BY ShapesMove
  <1>2. TypeOK'
    BY DEF Typed, TypeOK, Slots
  <1> QED BY <1>1, <1>2 DEF Typed

\* A request that commits and ends.
LEMMA EndTyped ==
  ASSUME Typed, NEW r \in Slots, NEW T, NEW S, Commit(r, Idle, T, S), RowsKept(T),
         shift' \in [Sessions -> Shift], ticket' \in [Tickets -> Ticket \cup {NoTicket, Deleted}],
         appeals' \in [Tickets -> Nat], period' \in Period, lock' \in Jobs \cup {0}
  PROVE  Typed'
  <1>1. Shapes'
    BY ShapesCommit DEF Idle
  <1>2. req' \in [Slots -> Request]
    BY Committed, IdleTyped DEF Typed
  <1> QED BY <1>1, <1>2 DEF Typed, TypeOK, Slots

LEMMA PutRowsKept ==
  ASSUME TypeOK, NEW t \in Tickets, NEW row, Put(t, row)
  PROVE  RowsKept({t})
  BY DEF RowsKept, Rows, Put, TypeOK

\* What a request that starts reads and locks.
Called(r, call) ==
  /\ StartCall(r, call) /\ UNCHANGED db
  /\ call \in Request /\ call.held = {} /\ call.made = {}
  /\ call.op \notin {"idle", "expire", "penalising"}
  /\ call.op # "autoclose" => call.todo = {}
  /\ call.op \in HRActions => call.ticket \in Rows
  /\ call.op \in {"recalc", "create"} => call.session \in Sessions

LEMMA BeginCalls ==
  ASSUME Names, Typed, NEW r \in Requests, Begin(r)
  PROVE  \E call : Called(r, call)
  <1>0. r \in Slots /\ lock \in Jobs \cup {0} /\ TypeOK
    BY DEF Slots, Typed, TypeOK
  <1>1. CASE CloseBegin(r)
    <2>1. OpenSessions \in SUBSET Sessions
      BY DEF OpenSessions
    <2>2. CloseReads(OpenSessions) \in Request
      BY <1>0, <2>1, ReadsTyped
    <2>3. PICK call : call = CloseReads(OpenSessions)
      OBVIOUS
    <2>4. call.op = "autoclose" /\ call.held = {} /\ call.made = {}
      BY <2>3 DEF CloseReads, Idle
    <2>5. StartCall(r, call) /\ UNCHANGED db /\ call \in Request
      BY <1>1, <2>2, <2>3 DEF CloseBegin
    <2>6. Called(r, call)
      BY <2>4, <2>5 DEF Called, HRActions
    <2> QED BY <2>6
  <1>2. ASSUME NEW s \in Sessions, RecalcBegin(r, s) PROVE \E call : Called(r, call)
    <2>1. PICK N : N = {t \in TicketsOf(s) : Status(t) \in {"Pending", "Explained"}}
      OBVIOUS
    <2>2. PICK o : o = LastOut(s)
      OBVIOUS
    <2>3. N \in SUBSET Tickets /\ o \in Out
      BY <2>1, <2>2 DEF TicketsOf, Rows, LastOut, Out
    <2> DEFINE call == [Idle EXCEPT !.op = "recalc", !.session = s, !.fresh = TRUE, !.last = o, !.names = N]
    <2>4. /\ call \in Request /\ call.op = "recalc" /\ call.session = s /\ call.todo = {} /\ call.held = {}
          /\ call.made = {}
      BY <2>3 DEF Idle, Request, OpNames
    <2>5. StartCall(r, call) /\ UNCHANGED db
      BY <1>2, <2>1, <2>2 DEF RecalcBegin
    <2> HIDE DEF call
    <2>6. Called(r, call)
      BY <2>4, <2>5 DEF Called, HRActions
    <2> QED BY <2>6
  <1>3. ASSUME NEW s \in Sessions, CreateBegin(r, s) PROVE \E call : Called(r, call)
    <2>1. PICK n : n = Cardinality(Rows)
      OBVIOUS
    <2>2. n \in Nat
      BY <2>1, Counts DEF Rows
    <2> DEFINE call == [Idle EXCEPT !.op = "create", !.session = s, !.count = n]
    <2>3. /\ call \in Request /\ call.op = "create" /\ call.session = s /\ call.todo = {} /\ call.held = {}
          /\ call.made = {}
      BY <2>2 DEF Idle, Request, OpNames, Out
    <2>4. StartCall(r, call) /\ UNCHANGED db
      BY <1>3, <2>1 DEF CreateBegin
    <2> HIDE DEF call
    <2>5. Called(r, call)
      BY <2>3, <2>4 DEF Called, HRActions
    <2> QED BY <2>5
  <1>4. ASSUME NEW t \in Tickets, ExplainBegin(r, t) PROVE \E call : Called(r, call)
    <2> DEFINE call == [Idle EXCEPT !.op = "explain", !.ticket = t]
    <2>1. call \in Request /\ call.op = "explain" /\ call.todo = {} /\ call.held = {} /\ call.made = {}
      BY DEF Idle, Request, OpNames, Out
    <2>2. StartCall(r, call) /\ UNCHANGED db
      BY <1>4 DEF ExplainBegin
    <2> HIDE DEF call
    <2>3. Called(r, call)
      BY <2>1, <2>2 DEF Called, HRActions
    <2> QED BY <2>3
  <1>5. ASSUME NEW t \in Tickets, AppealBegin(r, t) PROVE \E call : Called(r, call)
    <2>1. PICK a : a = payroll_calculated
      OBVIOUS
    <2>2. a \in BOOLEAN
      BY <2>1 DEF payroll_calculated
    <2> DEFINE call == [Idle EXCEPT !.op = "appeal", !.ticket = t, !.asks = a]
    <2>3. call \in Request /\ call.op = "appeal" /\ call.todo = {} /\ call.held = {} /\ call.made = {}
      BY <2>2 DEF Idle, Request, OpNames, Out
    <2>4. StartCall(r, call) /\ UNCHANGED db
      BY <1>5, <2>1 DEF AppealBegin
    <2> HIDE DEF call
    <2>5. Called(r, call)
      BY <2>3, <2>4 DEF Called, HRActions
    <2> QED BY <2>5
  <1>6. ASSUME NEW t \in Tickets, DeleteBegin(r, t) PROVE \E call : Called(r, call)
    <2> DEFINE call == [Idle EXCEPT !.op = "delete", !.ticket = t]
    <2>1. call \in Request /\ call.op = "delete" /\ call.todo = {} /\ call.held = {} /\ call.made = {}
      BY DEF Idle, Request, OpNames, Out
    <2>2. StartCall(r, call) /\ UNCHANGED db
      BY <1>6 DEF DeleteBegin
    <2> HIDE DEF call
    <2>3. Called(r, call)
      BY <2>1, <2>2 DEF Called, HRActions
    <2> QED BY <2>3
  <1>7. ASSUME NEW t \in Tickets, NEW act \in HRActions, HRBegin(r, t, act) PROVE \E call : Called(r, call)
    <2>1. PICK a : a = (act # "extend" /\ payroll_calculated)
      OBVIOUS
    <2>2. a \in BOOLEAN
      BY <2>1 DEF payroll_calculated
    <2> DEFINE call == [Idle EXCEPT !.op = act, !.ticket = t, !.fresh = TRUE, !.asks = a]
    <2>3. /\ call \in Request /\ call.op = act /\ call.ticket = t /\ call.todo = {} /\ call.held = {}
          /\ call.made = {}
      BY <2>2 DEF Idle, Request, OpNames, Out
    <2>4. StartCall(r, call) /\ UNCHANGED db /\ t \in Rows
      BY <1>7, <2>1 DEF HRBegin
    <2> HIDE DEF call
    <2>5. Called(r, call)
      BY <2>3, <2>4 DEF Called, HRActions
    <2> QED BY <2>5
  <1>8. CASE PayrollReads(r)
    <2>1. PICK n : n = PenaltyDue
      OBVIOUS
    <2>2. n \in Nat
      <3>1. {t \in Rows : Status(t) = "Penalised" /\ ~ticket[t].waived /\ ticket[t].fined} \in SUBSET Tickets
        BY DEF Rows
      <3> QED BY <2>1, <3>1, Counts DEF PenaltyDue
    <2> DEFINE call == [Idle EXCEPT !.op = "calculate", !.count = n]
    <2>3. call \in Request /\ call.op = "calculate" /\ call.todo = {} /\ call.held = {} /\ call.made = {}
      BY <2>2 DEF Idle, Request, OpNames, Out
    <2>4. StartCall(r, call) /\ UNCHANGED db
      BY <1>8, <2>1 DEF PayrollReads
    <2> HIDE DEF call
    <2>5. Called(r, call)
      BY <2>3, <2>4 DEF Called, HRActions
    <2> QED BY <2>5
  <1> QED BY <1>1, <1>2, <1>3, <1>4, <1>5, <1>6, <1>7, <1>8 DEF Begin

LEMMA BeginTyped ==
  ASSUME Names, Typed, NEW r \in Requests, Begin(r)
  PROVE  Typed'
  <1>1. PICK call : Called(r, call)
    BY BeginCalls
  <1>2. r \in Slots /\ lock \in Jobs \cup {0}
    BY DEF Slots, Typed, TypeOK
  <1> QED BY <1>1, <1>2, StartTyped DEF Called, db

LEMMA RaisedTyped ==
  ASSUME Names, NEW s \in Sessions, NEW manual \in BOOLEAN, NEW n \in Nat
  PROVE  /\ RaisedTicket(s, manual, n) \in Ticket
         /\ RaisedTicket(s, manual, n).session = s /\ RaisedTicket(s, manual, n).manual = manual
         /\ RaisedTicket(s, manual, n).status = "Pending"
         /\ RaisedTicket(s, manual, n).waived = FALSE
         /\ RaisedTicket(s, manual, n).appealed = FALSE
  BY DEF RaisedTicket, Ticket, Statuses, Penalty, Names

\* The rows the commit of a transaction that closes sessions writes: n-th ticket, n-th
\* session.
RaisedRows(made, New) ==
  /\ made \subseteq Sessions /\ New \subseteq Unused
  /\ \A t \in New : For(made, t) \in made
  /\ \A t, u \in New : For(made, t) = For(made, u) => t = u
  /\ \A t \in New : \E n \in Nat : ticket'[t] = RaisedTicket(For(made, t), FALSE, n)
  /\ \A t \in Tickets \ New : ticket'[t] = ticket[t]
  /\ ticket' \in [Tickets -> Ticket \cup {NoTicket, Deleted}]

LEMMA CloseWrites ==
  ASSUME Names, TypeOK, NEW r \in Slots, CloseCommit(r), NEW made, made = req[r].made,
         NEW New, New = NewTickets(Cardinality(made))
  PROVE  RaisedRows(made, New)
  <1>1. made \subseteq Sessions /\ req[r].count \in Nat
    BY DEF TypeOK, Slots, Request
  <1>2. Cardinality(made) \in Nat /\ IsFiniteSet(made)
    BY <1>1, FS_Subset, FS_CardinalityType DEF Names
  <1>3. /\ \A t \in New : For(made, t) \in made
        /\ \A t, u \in New : For(made, t) = For(made, u) => t = u
    BY <1>1, TicketFor
  <1>4. New \subseteq Unused /\ New \subseteq Tickets
    BY <1>2, NewTicketsFew DEF Unused
  <1>5. ticket' = [t \in Tickets |-> IF t \in New THEN RaisedFor(req[r], t) ELSE ticket[t]]
    BY DEF CloseCommit
  <1>6. \A t \in New : Nth(made, For(made, t)) \in Nat
    BY <1>2, FS_Subset, FS_CardinalityType DEF Nth
  <1>7. ASSUME NEW t \in New
        PROVE  \E n \in Nat : ticket'[t] = RaisedTicket(For(made, t), FALSE, n)
    <2>1. req[r].count + Nth(made, For(made, t)) \in Nat
      BY <1>1, <1>6
    <2>2. RaisedFor(req[r], t) = RaisedTicket(For(made, t), FALSE, req[r].count + Nth(made, For(made, t)))
      BY DEF RaisedFor
    <2>3. ticket'[t] = RaisedFor(req[r], t)
      BY <1>4, <1>5
    <2> QED BY <2>1, <2>2, <2>3
  <1>8. \A t \in Tickets \ New : ticket'[t] = ticket[t]
    BY <1>5
  <1>9. ASSUME NEW t \in New PROVE ticket'[t] \in Ticket
    <2>1. PICK n \in Nat : ticket'[t] = RaisedTicket(For(made, t), FALSE, n)
      BY <1>7
    <2>2. For(made, t) \in Sessions
      BY <1>1, <1>3
    <2> QED BY <2>1, <2>2, RaisedTyped
  <1>10. ticket' \in [Tickets -> Ticket \cup {NoTicket, Deleted}]
    <2>1. \A t \in Tickets : ticket'[t] \in Ticket \cup {NoTicket, Deleted}
      BY <1>8, <1>9 DEF TypeOK
    <2> DEFINE f == [t \in Tickets |-> IF t \in New THEN RaisedFor(req[r], t) ELSE ticket[t]]
    <2>2. DOMAIN f = Tickets /\ f = [t \in DOMAIN f |-> f[t]]
      OBVIOUS
    <2>3. ticket' = f
      BY <1>5
    <2> HIDE DEF f
    <2> QED BY <2>1, <2>2, <2>3
  <1> QED BY <1>1, <1>3, <1>4, <1>7, <1>8, <1>10 DEF RaisedRows

\* The session rows after it.
LEMMA CloseShifts ==
  ASSUME Names, TypeOK, NEW r \in Slots, CloseCommit(r), NEW s \in Sessions
  PROVE  /\ shift'[s] \in Shift
         /\ shift'[s].flag <=> shift[s].flag \/ s \in req[r].held
         /\ shift'[s].autos = IF s \in req[r].made THEN shift[s].autos + 1 ELSE shift[s].autos
         /\ shift'[s].real = shift[s].real
  <1>1. shift[s] \in Shift
    BY DEF TypeOK
  <1>2. PICK f : f = (shift[s].flag \/ s \in req[r].held)
    OBVIOUS
  <1>3. PICK o : o = IF s \in req[r].made THEN "auto" ELSE shift[s].out
    OBVIOUS
  <1>4. PICK n : n = IF s \in req[r].made THEN shift[s].autos + 1 ELSE shift[s].autos
    OBVIOUS
  <1>5. f \in BOOLEAN /\ o \in Out /\ n \in Nat
    BY <1>1, <1>2, <1>3, <1>4 DEF Shift, Out
  <1>6. shift'[s] = [shift[s] EXCEPT !.flag = f, !.out = o, !.autos = n]
    <2>1. shift'[s] = ClosedShift(req[r], s)
      BY DEF CloseCommit
    <2> QED BY <1>2, <1>3, <1>4, <2>1 DEF ClosedShift
  <1>7. /\ shift'[s] \in Shift /\ shift'[s].flag = f /\ shift'[s].autos = n
        /\ shift'[s].real = shift[s].real
    <2>1. PICK old : old = shift[s]
      OBVIOUS
    <2>2. PICK row : row = [old EXCEPT !.flag = f, !.out = o, !.autos = n]
      OBVIOUS
    <2>3. row \in Shift /\ row.flag = f /\ row.autos = n /\ row.real = old.real
      BY <1>1, <1>5, <2>1, <2>2 DEF Shift
    <2> QED BY <1>6, <2>1, <2>2, <2>3
  <1> QED BY <1>2, <1>4, <1>7

\* A finite set of numbers has a least one: the one of rank 1.
LEMMA LeastOf ==
  ASSUME NEW S, S \subseteq Nat, IsFiniteSet(S), S # {}
  PROVE  \E x \in S : \A q \in S : x <= q
  <1>1. Cardinality(S) \in Nat /\ Cardinality(S) # 0
    BY FS_CardinalityType, FS_EmptySet
  <1>2. 1 \in 1..Cardinality(S)
    BY <1>1
  <1>3. PICK x \in S : Nth(S, x) = 1
    BY <1>2, RankTaken
  <1>4. ASSUME NEW q \in S, q < x PROVE FALSE
    <2>1. Nth(S, q) < Nth(S, x)
      BY <1>4, RankBelow
    <2>2. Nth(S, q) \in 1..Cardinality(S)
      BY RankRange
    <2> QED BY <1>1, <1>3, <2>1, <2>2
  <1>5. \A q \in S : x <= q
    BY <1>4
  <1> QED BY <1>5

LEMMA ClosingTyped ==
  ASSUME Names, Typed, NEW r \in Slots, Closing(r) \/ Abort(r)
  PROVE  Typed'
  <1>0. TypeOK /\ req[r] \in Request /\ ShapeOf(req[r]) /\ lock \in Jobs \cup {0}
    BY DEF Typed, TypeOK, Slots, Shapes
  <1>1. CASE CloseNext(r)
    <2>1. PICK s : s = Next_(r)
      OBVIOUS
    <2>2. PICK K : K = IF Claims(r, s) THEN {s} ELSE {}
      OBVIOUS
    <2>3. s \in req[r].todo /\ K \subseteq Sessions /\ req[r].op = "autoclose"
      <3>1. req[r].todo # {} /\ req[r].todo \subseteq Nat /\ req[r].op = "autoclose"
        BY <1>0, <1>1 DEF CloseNext, Request, Names
      <3>2. s \in req[r].todo
        <4>1. IsFiniteSet(req[r].todo)
          BY <1>0, FS_Subset DEF Request, Names
        <4>2. \E x \in req[r].todo : \A q \in req[r].todo : x <= q
          BY <3>1, <4>1, LeastOf
        <4> QED BY <2>1, <4>2 DEF Next_
      <3> QED BY <1>0, <2>2, <3>1, <3>2 DEF Request
    <2> DEFINE c == [req[r] EXCEPT !.todo = @ \ {s}, !.held = @ \cup K, !.made = @ \cup (K \ req[r].ticketed)]
    <2>4. c \in Request /\ c.op = "autoclose"
      BY <1>0, <2>3 DEF Request
    <2>5. req' = [req EXCEPT ![r] = c] /\ UNCHANGED db
      BY <1>1, <2>1, <2>2, <2>3 DEF CloseNext
    <2>6. ShapeOf(c)
      BY <1>0, <2>3, <2>4 DEF ShapeOf, HRActions
    <2> HIDE DEF c
    <2> QED BY <1>0, <2>4, <2>5, <2>6, MoveTyped DEF db
  <1>2. CASE CloseFails(r)
    <2>1. PICK todo : todo = req[r].todo \ {Next_(r)}
      OBVIOUS
    <2>2. todo \in SUBSET Sessions /\ req[r].op = "autoclose"
      BY <1>0, <1>2, <2>1 DEF Request, CloseFails
    <2>3. CloseReads(todo) \in Request /\ CloseReads(todo).op = "autoclose"
      BY <1>0, <2>2, ReadsTyped DEF CloseReads, Idle
    <2>4. ShapeOf(CloseReads(todo))
      BY <1>0, <2>2, <2>3 DEF ShapeOf, HRActions
    <2>5. req' = [req EXCEPT ![r] = CloseReads(todo)] /\ UNCHANGED db
      BY <1>2, <2>1 DEF CloseFails
    <2> QED BY <1>0, <2>3, <2>4, <2>5, MoveTyped DEF db
  <1>3. CASE CloseCommit(r)
    <2>1. PICK made : made = req[r].made
      OBVIOUS
    <2>2. PICK New : New = NewTickets(Cardinality(made))
      OBVIOUS
    <2>3. RaisedRows(made, New)
      BY <1>0, <1>3, <2>1, <2>2, CloseWrites
    <2>4. RowsKept({})
      <3>1. \A t \in Rows : t \notin New
        BY <1>0, <2>3 DEF RaisedRows, Unused, NoTicket, Rows, Statuses
      <3> QED BY <2>3, <3>1 DEF RaisedRows, RowsKept, Rows
    <2>5. shift' \in [Sessions -> Shift]
      <3>1. \A s \in Sessions : shift'[s] \in Shift
        BY <1>0, <1>3, CloseShifts
      <3>2. shift' = [s \in Sessions |-> ClosedShift(req[r], s)]
        BY <1>3 DEF CloseCommit
      <3> QED BY <3>1, <3>2
    <2>6. PICK c : c = IF r \in Jobs THEN [Idle EXCEPT !.op = "expire"] ELSE Idle
      OBVIOUS
    <2>7. /\ c \in Request /\ c.op \in {"idle", "expire"} /\ (c.op = "idle" => c = Idle)
          /\ c.todo = {} /\ c.held = {} /\ c.made = {}
      BY <2>6 DEF Idle, Request, OpNames, Out
    <2>8. Commit(r, c, {}, {}) /\ UNCHANGED <<appeals, period, lock>>
      BY <1>3, <2>6 DEF CloseCommit
    <2>9. Shapes'
      BY <2>4, <2>7, <2>8, ShapesCommit
    <2>10. req' \in [Slots -> Request]
      BY <1>0, <2>7, <2>8, Committed
    <2> QED BY <1>0, <2>3, <2>5, <2>8, <2>9, <2>10 DEF RaisedRows, Typed, TypeOK, Slots
  <1>4. CASE Abort(r)
    <2>1. ShapeOf(Idle)
      BY DEF ShapeOf, Idle, HRActions
    <2> QED BY <1>0, <1>4, <2>1, IdleTyped, MoveTyped DEF Abort, db
  <1> QED BY <1>1, <1>2, <1>3, <1>4 DEF Closing

\* Every decision of HR leaves a ticket.
LEMMA ResolvedTyped ==
  ASSUME NEW old \in Ticket, NEW act \in HRActions
  PROVE  Resolved(act, old) \subseteq Ticket
  <1>1. \A f \in BOOLEAN : [old EXCEPT !.status = "Penalised", !.waived = FALSE, !.fined = f] \in Ticket
    BY DEF Ticket, Statuses
  <1>2. /\ [old EXCEPT !.status = "Waived", !.waived = TRUE] \in Ticket
        /\ [old EXCEPT !.status = "Closed"] \in Ticket
        /\ [old EXCEPT !.expired = FALSE] \in Ticket /\ [old EXCEPT !.status = "Pending"] \in Ticket
    BY DEF Ticket, Statuses
  <1>3. CASE act = "waive"
    BY <1>2, <1>3 DEF Resolved
  <1>4. CASE act = "penalise"
    BY <1>1, <1>4 DEF Resolved
  <1>5. CASE act = "close"
    BY <1>2, <1>5 DEF Resolved
  <1>6. CASE act = "extend"
    BY <1>2, <1>6 DEF Resolved, Extended
  <1>7. CASE act = "reopen"
    BY <1>2, <1>7 DEF Resolved, Reopened
  <1> QED BY <1>3, <1>4, <1>5, <1>6, <1>7 DEF HRActions

LEMMA FinishTyped ==
  ASSUME Names, Typed, NEW r \in Requests, Finish(r)
  PROVE  Typed'
  <1>0. /\ r \in Slots /\ TypeOK /\ req[r] \in Request /\ ShapeOf(req[r])
        /\ shift \in [Sessions -> Shift] /\ ticket \in [Tickets -> Ticket \cup {NoTicket, Deleted}]
        /\ appeals \in [Tickets -> Nat] /\ period \in Period /\ lock \in Jobs \cup {0}
    BY DEF Slots, Typed, TypeOK, Shapes
  <1>1. CASE RecalcCommit(r)
    <2>1. PICK s : s = req[r].session
      OBVIOUS
    <2>2. PICK C : C = IF RecalcFlag(r) THEN {} ELSE req[r].names \cap Rows
      OBVIOUS
    <2>3. PICK f : f = RecalcFlag(r)
      OBVIOUS
    <2>4. s \in Sessions /\ f \in BOOLEAN /\ req[r].last \in Out /\ C \subseteq Rows
      BY <1>0, <1>1, <2>1, <2>2, <2>3 DEF RecalcCommit, ShapeOf, RecalcFlag, Request
    <2>5. /\ shift' = [shift EXCEPT ![s] = [@ EXCEPT !.flag = f, !.out = req[r].last]]
          /\ ticket' = [t \in Tickets |->
                          IF t \in C THEN [ticket[t] EXCEPT !.status = "Closed"] ELSE ticket[t]]
          /\ Commit(r, Idle, C, {s}) /\ UNCHANGED <<appeals, period, lock>>
      BY <1>0, <1>1, <2>1, <2>2, <2>3, <2>4 DEF RecalcCommit
    <2>6. [shift[s] EXCEPT !.flag = f, !.out = req[r].last] \in Shift
      BY <1>0, <2>4 DEF Shift
    <2>7. shift' \in [Sessions -> Shift]
      BY <1>0, <2>4, <2>5, <2>6
    <2>8. ticket' \in [Tickets -> Ticket \cup {NoTicket, Deleted}]
      <3>1. \A t \in C : ticket[t] \in Ticket
        BY <1>0, <2>4, RowTyped
      <3>2. \A row \in Ticket : [row EXCEPT !.status = "Closed"] \in Ticket
        BY DEF Ticket, Statuses
      <3> QED BY <1>0, <2>5, <3>1, <3>2
    <2>9. RowsKept(C)
      BY <2>5 DEF RowsKept, Rows
    <2> QED BY <1>0, <2>5, <2>7, <2>8, <2>9, EndTyped
  <1>2. ASSUME NEW t \in Tickets, NEW row \in Ticket \cup {NoTicket, Deleted}, Put(t, row),
               NEW S, Commit(r, Idle, {t}, S), UNCHANGED <<shift, lock>>,
               appeals' \in [Tickets -> Nat], period' \in Period
        PROVE  Typed'
    BY <1>0, <1>2, PutTyped, PutRowsKept, EndTyped
  <1>3. ASSUME NEW f \in BOOLEAN PROVE [period EXCEPT !.asked = f] \in Period
    BY <1>0 DEF Period
  <1>4. CASE HRCommit(r)
    <2>1. PICK t : t = req[r].ticket
      OBVIOUS
    <2>2. PICK row \in Resolved(req[r].op, ticket[t]) : Put(t, row)
      BY <1>4, <2>1 DEF HRCommit
    <2>3. t \in Rows
      BY <1>0, <1>4, <2>1 DEF HRCommit, ShapeOf
    <2>4. t \in Tickets /\ ticket[t] \in Ticket
      BY <1>0, <2>3, RowTyped
    <2>5. row \in Ticket
      <3>1. req[r].op \in HRActions
        BY <1>4 DEF HRCommit
      <3>2. \A old \in Ticket, act \in HRActions : Resolved(act, old) \subseteq Ticket
        BY ResolvedTyped
      <3> QED BY <2>2, <2>4, <3>1, <3>2
    <2>6. PICK f : f = (period.asked \/ req[r].asks)
      OBVIOUS
    <2>7. f \in BOOLEAN
      BY <1>0, <2>6 DEF Period, Request
    <2>8. period' = [period EXCEPT !.asked = f] /\ Commit(r, Idle, {t}, {}) /\ UNCHANGED <<shift, appeals, lock>>
      BY <1>4, <2>1, <2>6 DEF HRCommit
    <2> QED BY <1>0, <1>2, <1>3, <2>2, <2>4, <2>5, <2>7, <2>8
  <1>5. CASE ExplainCommit(r)
    <2>1. PICK t : t = req[r].ticket
      OBVIOUS
    <2>2. /\ t \in Rows /\ Put(t, [ticket[t] EXCEPT !.status = "Explained"]) /\ Commit(r, Idle, {t}, {})
          /\ UNCHANGED <<shift, appeals, period, lock>>
      BY <1>5, <2>1 DEF ExplainCommit
    <2>3. t \in Tickets /\ [ticket[t] EXCEPT !.status = "Explained"] \in Ticket
      BY <1>0, <2>2, RowTyped DEF Ticket, Statuses
    <2> QED BY <1>0, <1>2, <2>2, <2>3
  <1>6. CASE AppealCommit(r)
    <2>1. PICK t : t = req[r].ticket
      OBVIOUS
    <2>2. PICK f : f = (period.asked \/ req[r].asks)
      OBVIOUS
    <2>3. f \in BOOLEAN
      BY <1>0, <2>2 DEF Period, Request
    <2>4. /\ t \in Rows /\ Put(t, [ticket[t] EXCEPT !.status = "Explained", !.appealed = TRUE])
          /\ Commit(r, Idle, {t}, {}) /\ UNCHANGED <<shift, lock>>
          /\ appeals' = [appeals EXCEPT ![t] = @ + 1] /\ period' = [period EXCEPT !.asked = f]
      BY <1>6, <2>1, <2>2 DEF AppealCommit
    <2>5. t \in Tickets /\ [ticket[t] EXCEPT !.status = "Explained", !.appealed = TRUE] \in Ticket
      BY <1>0, <2>4, RowTyped DEF Ticket, Statuses
    <2>6. appeals' \in [Tickets -> Nat] /\ period' \in Period
      <3>1. appeals' = [appeals EXCEPT ![t] = appeals[t] + 1] /\ appeals[t] + 1 \in Nat
        BY <1>0, <2>4, <2>5
      <3>2. period' \in Period
        BY <1>3, <2>3, <2>4
      <3> QED BY <1>0, <3>1, <3>2
    <2> QED BY <1>0, <1>2, <2>4, <2>5, <2>6
  <1>7. CASE CreateCommit(r)
    <2>1. PICK t \in NewTickets(1), f \in BOOLEAN :
            Put(t, [RaisedTicket(req[r].session, TRUE, req[r].count + 1) EXCEPT !.fined = f])
      BY <1>7 DEF CreateCommit
    <2>2. t \in Tickets
      BY <2>1 DEF NewTickets, Unused
    <2>3. PICK row : row = [RaisedTicket(req[r].session, TRUE, req[r].count + 1) EXCEPT !.fined = f]
      OBVIOUS
    <2>4. row \in Ticket /\ row.status \in Statuses
      <3>1. req[r].session \in Sessions
        BY <1>0, <1>7 DEF CreateCommit, ShapeOf
      <3>2. req[r].count + 1 \in Nat
        BY <1>0 DEF Request
      <3>3. RaisedTicket(req[r].session, TRUE, req[r].count + 1) \in Ticket
        BY <3>1, <3>2, RaisedTyped
      <3>4. \A old \in Ticket, g \in BOOLEAN : [old EXCEPT !.fined = g] \in Ticket
        BY DEF Ticket
      <3>5. row \in Ticket
        BY <2>3, <3>3, <3>4
      <3> QED BY <3>5, TicketStatus
    <2>5. RowsKept({})
      BY <1>0, <2>1, <2>2, <2>3, <2>4, PutTyped DEF RowsKept, Rows
    <2>6. ticket' \in [Tickets -> Ticket \cup {NoTicket, Deleted}]
      BY <1>0, <2>1, <2>2, <2>3, <2>4, PutTyped
    <2>7. Commit(r, Idle, {}, {}) /\ UNCHANGED <<shift, appeals, period, lock>>
      BY <1>7 DEF CreateCommit
    <2> QED BY <1>0, <2>5, <2>6, <2>7, EndTyped
  <1>8. CASE DeleteCommit(r)
    <2>1. PICK t : t = req[r].ticket
      OBVIOUS
    <2>2. /\ t \in Rows /\ Put(t, Deleted) /\ Commit(r, Idle, {t}, {})
          /\ UNCHANGED <<shift, appeals, period, lock>>
      BY <1>8, <2>1 DEF DeleteCommit
    <2>3. t \in Tickets
      BY <2>2 DEF Rows
    <2> QED BY <1>0, <1>2, <2>2, <2>3
  <1>9. CASE PayrollCalculated(r)
    <2>1. /\ period' = [period EXCEPT !.status = "Calculated", !.deducted = req[r].count, !.asked = FALSE]
          /\ Commit(r, Idle, {}, {}) /\ UNCHANGED <<shift, ticket, appeals, lock>>
      BY <1>9 DEF PayrollCalculated
    <2>2. period' \in Period
      BY <1>0, <2>1 DEF Period, PeriodStatuses, Request
    <2>3. RowsKept({})
      BY <2>1 DEF RowsKept, Rows
    <2> QED BY <1>0, <2>1, <2>2, <2>3, EndTyped
  <1> QED BY <1>1, <1>4, <1>5, <1>6, <1>7, <1>8, <1>9 DEF Finish

LEMMA HourlyTyped ==
  ASSUME Names, Typed, NEW j \in Jobs, HourlyJob(j)
  PROVE  Typed'
  <1>0. /\ j \in Slots /\ TypeOK /\ req[j] \in Request /\ ShapeOf(req[j]) /\ lock \in Jobs \cup {0}
    BY DEF Slots, Typed, TypeOK, Shapes
  <1>1. CASE TickBegin(j)
    <2>1. OpenSessions \in SUBSET Sessions
      BY DEF OpenSessions
    <2>2. CloseReads(OpenSessions) \in Request /\ CloseReads(OpenSessions).op = "autoclose"
      <3>1. CloseReads(OpenSessions) \in Request
        BY <1>0, <2>1, ReadsTyped
      <3> QED BY <3>1 DEF CloseReads, Idle
    <2>3. StartCall(j, CloseReads(OpenSessions)) /\ UNCHANGED <<shift, ticket, appeals, period>> /\ lock' = j
      BY <1>1 DEF TickBegin
    <2> HIDE DEF OpenSessions
    <2> QED BY <1>0, <2>2, <2>3, StartTyped DEF HRActions
  <1>2. CASE PenaliseBegin(j)
    <2>1. PICK N : N = Expired
      OBVIOUS
    <2>2. N \in SUBSET Tickets
      BY <2>1 DEF Expired, Pending, Rows
    <2> DEFINE c == [Idle EXCEPT !.op = "penalising", !.names = N]
    <2>3. c \in Request /\ c.op = "penalising" /\ c.todo = {} /\ c.held = {} /\ c.made = {}
      BY <2>2 DEF Idle, Request, OpNames, Out
    <2>4. req' = [req EXCEPT ![j] = c] /\ UNCHANGED db
      BY <1>2, <2>1 DEF PenaliseBegin
    <2> HIDE DEF c
    <2>5. ShapeOf(c)
      BY <2>3 DEF ShapeOf, HRActions
    <2> QED BY <1>0, <2>3, <2>4, <2>5, MoveTyped DEF db
  <1>3. ASSUME NEW t \in Tickets, PenaliseOne(j, t) PROVE Typed'
    <2>1. PICK left : left = [req[j] EXCEPT !.names = @ \ {t}]
      OBVIOUS
    <2>2. /\ left \in Request /\ left.op = "penalising"
          /\ left.todo = {} /\ left.held = {} /\ left.made = {}
      <3>1. req[j].op = "penalising"
        BY <1>3 DEF PenaliseOne
      <3>2. req[j].todo = {} /\ req[j].held = {} /\ req[j].made = {}
        BY <1>0, <3>1 DEF ShapeOf
      <3> QED BY <1>0, <2>1, <3>1, <3>2 DEF Request
    <2>3. PICK T : T \in {{}, {t}} /\ Commit(j, left, T, {})
      BY <1>3, <2>1 DEF PenaliseOne
    <2>4. /\ ticket' \in [Tickets -> Ticket \cup {NoTicket, Deleted}]
          /\ RowsKept({})
      <3>1. CASE t \in Rows
        <4>1. Put(t, [ticket[t] EXCEPT !.status = "Penalised"])
          BY <1>3, <3>1 DEF PenaliseOne
        <4>2. PICK row : row = [ticket[t] EXCEPT !.status = "Penalised"]
          OBVIOUS
        <4>3. row \in Ticket
          BY <1>0, <3>1, <4>2, RowTyped DEF Ticket, Statuses
        <4>4. row.status \in Statuses
          BY <4>3, TicketStatus
        <4>5. Put(t, row)
          BY <4>1, <4>2
        <4>6. /\ ticket' \in [Tickets -> Ticket \cup {NoTicket, Deleted}]
              /\ ticket'[t] = row /\ \A u \in Tickets \ {t} : ticket'[u] = ticket[u]
          BY <1>0, <4>3, <4>5, PutTyped
        <4> QED BY <4>4, <4>6 DEF RowsKept, Rows
      <3>2. CASE t \notin Rows
        <4>1. ticket' = ticket
          BY <1>3, <3>2 DEF PenaliseOne
        <4> QED BY <1>0, <4>1 DEF RowsKept, Rows, TypeOK
      <3> QED BY <3>1, <3>2
    <2>5. RowsKept(T)
      BY <2>4 DEF RowsKept
    <2>6. Shapes'
      BY <1>0, <2>2, <2>3, <2>5, ShapesCommit
    <2>7. req' \in [Slots -> Request]
      BY <1>0, <2>2, <2>3, Committed
    <2>8. UNCHANGED <<shift, appeals, period, lock>>
      BY <1>3 DEF PenaliseOne
    <2> QED BY <1>0, <2>4, <2>6, <2>7, <2>8 DEF Typed, TypeOK, Slots
  <1>4. CASE TickEnd(j)
    <2>1. ShapeOf(Idle)
      BY DEF ShapeOf, Idle, HRActions
    <2>2. req' = [req EXCEPT ![j] = Idle] /\ UNCHANGED <<shift, ticket, appeals, period>> /\ lock' = 0
      BY <1>4 DEF TickEnd
    <2> QED BY <1>0, <2>1, <2>2, IdleTyped, MoveTyped
  <1> QED BY <1>1, <1>2, <1>3, <1>4 DEF HourlyJob

\* The steps of no request: the clock, the employee, the payroll's buttons.
Elsewhere == World \/ LockExpires \/ PayrollClaim \/ PayrollApprove \/ PayrollGenerate \/ PayrollPublish

LEMMA ElsewhereTyped ==
  ASSUME Typed, Elsewhere
  PROVE  Typed'
  <1>0. TypeOK
    BY DEF Typed
  <1>1. ASSUME req' = req, ticket' = ticket, appeals' = appeals, shift' \in [Sessions -> Shift],
               period' \in Period, lock' \in Jobs \cup {0}
        PROVE  Typed'
    <2>1. RowsKept({})
      BY <1>1 DEF RowsKept, Rows
    <2>2. Shapes'
      BY <1>1, <2>1, ShapesWorld
    <2> QED BY <1>0, <1>1, <2>2 DEF Typed, TypeOK
  <1>2. ASSUME NEW s \in Sessions, ShiftEnds(s) PROVE Typed'
    <2>1. shift' \in [Sessions -> Shift]
      BY <1>0, <1>2 DEF ShiftEnds, TypeOK, Shift
    <2> QED BY <1>0, <1>1, <1>2, <2>1 DEF ShiftEnds, TypeOK
  <1>3. ASSUME NEW s \in Sessions, Punch(s) PROVE Typed'
    <2>1. shift' \in [Sessions -> Shift]
      BY <1>0, <1>3 DEF Punch, TypeOK, Shift
    <2> QED BY <1>0, <1>1, <1>3, <2>1 DEF Punch, TypeOK
  <1>4. ASSUME NEW t \in Tickets, GraceExpires(t) PROVE Typed'
    <2>1. PICK row : row = [ticket[t] EXCEPT !.expired = TRUE]
      OBVIOUS
    <2>2. Put(t, row) /\ t \in Rows /\ UNCHANGED <<shift, appeals, period, lock, req>>
      BY <1>4, <2>1 DEF GraceExpires
    <2>3. row \in Ticket /\ row.status \in Statuses
      <3>1. row \in Ticket
        BY <1>0, <2>1, <2>2, RowTyped DEF Ticket
      <3> QED BY <3>1, TicketStatus
    <2>4. /\ ticket' \in [Tickets -> Ticket \cup {NoTicket, Deleted}]
          /\ ticket'[t] = row /\ \A u \in Tickets \ {t} : ticket'[u] = ticket[u]
      BY <1>0, <2>2, <2>3, PutTyped
    <2>5. RowsKept({})
      BY <2>3, <2>4 DEF RowsKept, Rows
    <2>6. Shapes'
      BY <2>2, <2>5, ShapesWorld
    <2> QED BY <1>0, <2>2, <2>4, <2>6 DEF Typed, TypeOK
  <1>5. ASSUME NEW from, NEW to \in PeriodStatuses, PeriodStep(from, to) PROVE Typed'
    <2>1. period' \in Period
      <3>1. PICK f : f = (period.linked \/ to = "Slips Generated")
        OBVIOUS
      <3>2. period' = [period EXCEPT !.status = to, !.linked = f]
        BY <1>5, <3>1 DEF PeriodStep
      <3>3. f \in BOOLEAN
        BY <1>0, <3>1 DEF TypeOK, Period
      <3> QED BY <1>0, <3>2, <3>3 DEF TypeOK, Period
    <2>2. UNCHANGED <<shift, ticket, appeals, lock, req>>
      BY <1>5 DEF PeriodStep
    <2> QED BY <1>0, <1>1, <2>1, <2>2 DEF TypeOK
  <1>6. CASE World
    BY <1>2, <1>3, <1>4, <1>6 DEF World
  <1>7. CASE LockExpires
    BY <1>0, <1>1, <1>7 DEF LockExpires, TypeOK
  <1>8. CASE PayrollClaim
    BY <1>5, <1>8 DEF PayrollClaim, PeriodStatuses
  <1>9. CASE PayrollApprove
    BY <1>5, <1>9 DEF PayrollApprove, PeriodStatuses
  <1>10. CASE PayrollGenerate
    BY <1>5, <1>10 DEF PayrollGenerate, PeriodStatuses
  <1>11. CASE PayrollPublish
    BY <1>5, <1>11 DEF PayrollPublish, PeriodStatuses
  <1> QED BY <1>6, <1>7, <1>8, <1>9, <1>10, <1>11 DEF Elsewhere

\* The steps of the system, grouped.
LEMMA Steps ==
  ASSUME [Next]_vars
  PROVE  \/ UNCHANGED vars
         \/ Elsewhere
         \/ \E r \in Requests : Begin(r)
         \/ \E r \in Requests : Finish(r)
         \/ \E r \in Slots : Closing(r) \/ Abort(r)
         \/ \E j \in Jobs : HourlyJob(j)
  BY DEF Next, Elsewhere, Slots

LEMMA TypedInit == Init => Typed
  <1> SUFFICES ASSUME Init PROVE Typed
    OBVIOUS
  <1>1. \A r \in Slots : req[r] = Idle
    BY DEF Init, Slots
  <1>2. Shapes
    BY <1>1 DEF Shapes, ShapeOf, Idle, HRActions
  <1>3. req \in [Slots -> Request]
    BY IdleTyped DEF Init, Slots
  <1>4. shift \in [Sessions -> Shift] /\ period \in Period
    BY DEF Init, Shift, Out, Period, PeriodStatuses
  <1>5. ticket \in [Tickets -> Ticket \cup {NoTicket, Deleted}] /\ appeals \in [Tickets -> Nat]
    BY DEF Init
  <1>6. lock \in Jobs \cup {0}
    BY DEF Init
  <1> QED BY <1>2, <1>3, <1>4, <1>5, <1>6 DEF Typed, TypeOK, Slots

LEMMA TypedNext ==
  ASSUME Names, Typed, [Next]_vars
  PROVE  Typed'
  <1>1. CASE UNCHANGED vars
    BY <1>1 DEF vars, Typed, TypeOK, Shapes, ShapeOf, Rows
  <1> QED
    BY <1>1, Steps, ElsewhereTyped, BeginTyped, FinishTyped, ClosingTyped, HourlyTyped

\* Every session, ticket, period, lock and request has its type, whoever runs at once.
THEOREM TypeCorrect == ASSUME Names PROVE Spec => []TypeOK
  <1>1. Spec => []Typed
    BY TypedInit, TypedNext, PTL DEF Spec
  <1>2. Typed => TypeOK
    BY DEF Typed
  <1> QED BY <1>1, <1>2, PTL

-----------------------------------------------------------------------------
(* What can happen to a ticket in one step. *)

Decided(r, t)   == HRCommit(r) /\ req[r].ticket = t /\ ticket'[t] \in Resolved(req[r].op, ticket[t])
Answered(r, t)  == /\ ExplainCommit(r) /\ req[r].ticket = t
                   /\ ticket'[t] = [ticket[t] EXCEPT !.status = "Explained"]
Contested(r, t) == /\ AppealCommit(r) /\ req[r].ticket = t
                   /\ ticket'[t] = [ticket[t] EXCEPT !.status = "Explained", !.appealed = TRUE]
Dropped(r, t)   == DeleteCommit(r) /\ req[r].ticket = t /\ ticket'[t] = Deleted
Resolves(r, t)  == /\ RecalcCommit(r) /\ t \in req[r].names
                   /\ ticket'[t] = [ticket[t] EXCEPT !.status = "Closed"]
Overdue(j, t)   == PenaliseOne(j, t) /\ ticket'[t] = [ticket[t] EXCEPT !.status = "Penalised"]
Raised(r, t)    == /\ CloseCommit(r) /\ t \in NewTickets(Cardinality(req[r].made))
                   /\ \E n \in Nat : ticket'[t] = RaisedTicket(For(req[r].made, t), FALSE, n)
Created(r, t)   == /\ CreateCommit(r) /\ req[r].session \in Sessions
                   /\ \E n \in Nat, f \in BOOLEAN :
                        ticket'[t] = [RaisedTicket(req[r].session, TRUE, n) EXCEPT !.fined = f]

\* To a ticket, and to a name that is not one yet.
RowStep(t) ==
  \/ ticket'[t] = ticket[t]
  \/ ticket'[t] = [ticket[t] EXCEPT !.expired = TRUE]
  \/ \E r \in Requests : Decided(r, t) \/ Answered(r, t) \/ Contested(r, t) \/ Dropped(r, t) \/ Resolves(r, t)
  \/ \E j \in Jobs : Overdue(j, t)
NewStep(t) ==
  \/ ticket'[t] = ticket[t]
  \/ \E r \in Slots : Raised(r, t)
  \/ \E r \in Requests : Created(r, t)
TicketStep(t) ==
  \/ t \in Rows /\ RowStep(t)
  \/ t \in Unused /\ NewStep(t)
  \/ ticket'[t] = ticket[t]

LEMMA FinishSteps ==
  ASSUME Names, Typed, NEW r \in Requests, Finish(r), NEW t \in Tickets
  PROVE  TicketStep(t)
  <1>0. /\ r \in Slots /\ TypeOK /\ req[r] \in Request /\ ShapeOf(req[r])
        /\ DOMAIN ticket = Tickets /\ ticket = [u \in Tickets |-> ticket[u]]
    BY DEF Slots, Typed, TypeOK, Shapes
  <1>1. CASE RecalcCommit(r)
    <2>1. PICK C : C = IF RecalcFlag(r) THEN {} ELSE req[r].names \cap Rows
      OBVIOUS
    <2>2. ticket' = [u \in Tickets |->
                       IF u \in C THEN [ticket[u] EXCEPT !.status = "Closed"] ELSE ticket[u]]
      BY <1>1, <2>1 DEF RecalcCommit
    <2>3. CASE t \in C
      <3>1. t \in Rows /\ Resolves(r, t)
        BY <1>1, <2>1, <2>2, <2>3 DEF Resolves
      <3> QED BY <3>1 DEF TicketStep, RowStep
    <2>4. CASE t \notin C
      BY <2>2, <2>4 DEF TicketStep
    <2> QED BY <2>3, <2>4
  <1>2. ASSUME NEW u \in Tickets, NEW row, Put(u, row) PROVE ticket'[t] = IF t = u THEN row ELSE ticket[t]
    BY <1>0, <1>2 DEF Put
  <1>4. CASE HRCommit(r)
    <2>1. PICK row \in Resolved(req[r].op, ticket[req[r].ticket]) : Put(req[r].ticket, row)
      BY <1>4 DEF HRCommit
    <2>2. req[r].ticket \in Rows /\ req[r].ticket \in Tickets
      BY <1>0, <1>4 DEF HRCommit, ShapeOf, Rows
    <2>3. CASE t = req[r].ticket
      <3>1. Decided(r, t)
        BY <1>2, <1>4, <2>1, <2>2, <2>3 DEF Decided
      <3> QED BY <2>2, <2>3, <3>1 DEF TicketStep, RowStep
    <2>4. CASE t # req[r].ticket
      BY <1>2, <2>1, <2>2, <2>4 DEF TicketStep
    <2> QED BY <2>3, <2>4
  <1>5. CASE ExplainCommit(r)
    <2>1. /\ Put(req[r].ticket, [ticket[req[r].ticket] EXCEPT !.status = "Explained"])
          /\ req[r].ticket \in Rows /\ req[r].ticket \in Tickets
      BY <1>5 DEF ExplainCommit, Rows
    <2>2. CASE t = req[r].ticket
      <3>1. Answered(r, t)
        BY <1>2, <1>5, <2>1, <2>2 DEF Answered
      <3> QED BY <2>1, <2>2, <3>1 DEF TicketStep, RowStep
    <2>3. CASE t # req[r].ticket
      BY <1>2, <2>1, <2>3 DEF TicketStep
    <2> QED BY <2>2, <2>3
  <1>6. CASE AppealCommit(r)
    <2>1. /\ Put(req[r].ticket, [ticket[req[r].ticket] EXCEPT !.status = "Explained", !.appealed = TRUE])
          /\ req[r].ticket \in Rows /\ req[r].ticket \in Tickets
      BY <1>6 DEF AppealCommit, Rows
    <2>2. CASE t = req[r].ticket
      <3>1. Contested(r, t)
        BY <1>2, <1>6, <2>1, <2>2 DEF Contested
      <3> QED BY <2>1, <2>2, <3>1 DEF TicketStep, RowStep
    <2>3. CASE t # req[r].ticket
      BY <1>2, <2>1, <2>3 DEF TicketStep
    <2> QED BY <2>2, <2>3
  <1>7. CASE CreateCommit(r)
    <2>1. PICK u \in NewTickets(1), f \in BOOLEAN :
            Put(u, [RaisedTicket(req[r].session, TRUE, req[r].count + 1) EXCEPT !.fined = f])
      BY <1>7 DEF CreateCommit
    <2>2. u \in Unused /\ u \in Tickets /\ req[r].count + 1 \in Nat /\ req[r].session \in Sessions
      BY <1>0, <1>7, <2>1 DEF NewTickets, Unused, Request, CreateCommit, ShapeOf
    <2>3. CASE t = u
      <3>1. ticket'[t] = [RaisedTicket(req[r].session, TRUE, req[r].count + 1) EXCEPT !.fined = f]
        BY <1>2, <2>1, <2>2, <2>3
      <3>2. Created(r, t)
        BY <1>7, <2>2, <3>1 DEF Created
      <3> QED BY <2>2, <2>3, <3>2 DEF TicketStep, NewStep
    <2>4. CASE t # u
      BY <1>2, <2>1, <2>2, <2>4 DEF TicketStep
    <2> QED BY <2>3, <2>4
  <1>8. CASE DeleteCommit(r)
    <2>1. Put(req[r].ticket, Deleted) /\ req[r].ticket \in Rows /\ req[r].ticket \in Tickets
      BY <1>8 DEF DeleteCommit, Rows
    <2>2. CASE t = req[r].ticket
      <3>1. Dropped(r, t)
        BY <1>2, <1>8, <2>1, <2>2 DEF Dropped
      <3> QED BY <2>1, <2>2, <3>1 DEF TicketStep, RowStep
    <2>3. CASE t # req[r].ticket
      BY <1>2, <2>1, <2>3 DEF TicketStep
    <2> QED BY <2>2, <2>3
  <1>9. CASE PayrollCalculated(r)
    BY <1>9 DEF PayrollCalculated, TicketStep
  <1> QED BY <1>1, <1>4, <1>5, <1>6, <1>7, <1>8, <1>9 DEF Finish

LEMMA TicketSteps ==
  ASSUME Names, Typed, [Next]_vars, NEW t \in Tickets
  PROVE  TicketStep(t)
  <1>0. TypeOK /\ DOMAIN ticket = Tickets /\ ticket = [u \in Tickets |-> ticket[u]]
    BY DEF Typed, TypeOK
  <1>1. CASE ticket' = ticket
    BY <1>1 DEF TicketStep
  <1>2. CASE UNCHANGED vars
    BY <1>1, <1>2 DEF vars
  <1>3. CASE Elsewhere
    <2>1. CASE \E u \in Tickets : GraceExpires(u)
      <3>1. PICK u \in Tickets : GraceExpires(u)
        BY <2>1
      <3>2. u \in Rows /\ ticket'[t] = IF t = u THEN [ticket[t] EXCEPT !.expired = TRUE] ELSE ticket[t]
        BY <1>0, <3>1 DEF GraceExpires, Put
      <3> QED BY <3>2 DEF TicketStep, RowStep
    <2>2. CASE ~(\E u \in Tickets : GraceExpires(u))
      BY <1>1, <1>3, <2>2 DEF Elsewhere, World, ShiftEnds, Punch, LockExpires, PayrollClaim, PayrollApprove,
         PayrollGenerate, PayrollPublish, PeriodStep
    <2> QED BY <2>1, <2>2
  <1>4. ASSUME NEW r \in Requests, Begin(r) PROVE TicketStep(t)
    BY <1>1, <1>4 DEF Begin, CloseBegin, RecalcBegin, CreateBegin, ExplainBegin, AppealBegin, DeleteBegin,
       HRBegin, PayrollReads, db
  <1>5. ASSUME NEW r \in Slots, Closing(r) \/ Abort(r) PROVE TicketStep(t)
    <2>1. CASE CloseCommit(r)
      <3>1. RaisedRows(req[r].made, NewTickets(Cardinality(req[r].made)))
        BY <1>0, <2>1, CloseWrites
      <3>2. CASE t \in NewTickets(Cardinality(req[r].made))
        <4>1. t \in Unused /\ Raised(r, t)
          BY <2>1, <3>1, <3>2 DEF RaisedRows, Raised
        <4> QED BY <4>1 DEF TicketStep, NewStep
      <3>3. CASE t \notin NewTickets(Cardinality(req[r].made))
        BY <3>1, <3>3 DEF RaisedRows, TicketStep
      <3> QED BY <3>2, <3>3
    <2>2. CASE ~CloseCommit(r)
      BY <1>1, <1>5, <2>2 DEF Closing, CloseNext, CloseFails, Abort, db
    <2> QED BY <2>1, <2>2
  <1>6. ASSUME NEW j \in Jobs, HourlyJob(j) PROVE TicketStep(t)
    <2>1. CASE \E u \in Tickets : PenaliseOne(j, u)
      <3>1. PICK u \in Tickets : PenaliseOne(j, u)
        BY <2>1
      <3>2. CASE u \in Rows
        <4>1. ticket'[t] = IF t = u THEN [ticket[t] EXCEPT !.status = "Penalised"] ELSE ticket[t]
          BY <1>0, <3>1, <3>2 DEF PenaliseOne, Put
        <4> QED BY <3>1, <3>2, <4>1 DEF TicketStep, RowStep, Overdue
      <3>3. CASE u \notin Rows
        BY <1>1, <3>1, <3>3 DEF PenaliseOne
      <3> QED BY <3>2, <3>3
    <2>2. CASE ~(\E u \in Tickets : PenaliseOne(j, u))
      BY <1>1, <1>6, <2>2 DEF HourlyJob, TickBegin, PenaliseBegin, TickEnd, db
    <2> QED BY <2>1, <2>2
  <1> QED BY <1>2, <1>3, <1>4, <1>5, <1>6, Steps, FinishSteps

\* A ticket stays of the session it was raised for.
LEMMA RowSame ==
  ASSUME TypeOK, NEW t \in Rows, RowStep(t), ticket'[t].status # "Deleted"
  PROVE  /\ ticket'[t].session = ticket[t].session /\ ticket'[t].manual = ticket[t].manual
         /\ ticket'[t] \in Ticket
  <1>1. t \in Tickets /\ ticket[t] \in Ticket
    BY RowTyped
  <1>2. \A act \in HRActions : \A row \in Resolved(act, ticket[t]) :
           /\ row \in Ticket /\ row.session = ticket[t].session /\ row.manual = ticket[t].manual
    <2> SUFFICES ASSUME NEW act \in HRActions, NEW row \in Resolved(act, ticket[t])
                 PROVE  /\ row \in Ticket /\ row.session = ticket[t].session /\ row.manual = ticket[t].manual
      OBVIOUS
    <2>1. row \in Ticket
      BY <1>1, ResolvedTyped
    <2>2. CASE act = "penalise"
      <3>1. PICK f \in BOOLEAN : row = [ticket[t] EXCEPT !.status = "Penalised", !.waived = FALSE, !.fined = f]
        BY <2>2 DEF Resolved
      <3> QED BY <1>1, <2>1, <3>1 DEF Ticket
    <2>3. CASE act # "penalise"
      BY <1>1, <2>1, <2>3 DEF Resolved, Extended, Reopened, HRActions, Ticket
    <2> QED BY <2>2, <2>3
  <1>3. ASSUME NEW r \in Requests, Decided(r, t)
        PROVE  ticket'[t] \in Ticket /\ ticket'[t].session = ticket[t].session /\ ticket'[t].manual = ticket[t].manual
    BY <1>2, <1>3 DEF Decided, HRCommit
  <1>4. ASSUME NEW r \in Requests, Dropped(r, t) PROVE FALSE
    BY <1>4 DEF Dropped, Deleted
  <1>5. /\ [ticket[t] EXCEPT !.expired = TRUE] \in Ticket
        /\ [ticket[t] EXCEPT !.expired = TRUE].session = ticket[t].session
        /\ [ticket[t] EXCEPT !.expired = TRUE].manual = ticket[t].manual
    BY <1>1 DEF Ticket
  <1>6. \A status \in Statuses :
           /\ [ticket[t] EXCEPT !.status = status] \in Ticket
           /\ [ticket[t] EXCEPT !.status = status].session = ticket[t].session
           /\ [ticket[t] EXCEPT !.status = status].manual = ticket[t].manual
    BY <1>1 DEF Ticket
  <1>7. /\ [ticket[t] EXCEPT !.status = "Explained", !.appealed = TRUE] \in Ticket
        /\ [ticket[t] EXCEPT !.status = "Explained", !.appealed = TRUE].session = ticket[t].session
        /\ [ticket[t] EXCEPT !.status = "Explained", !.appealed = TRUE].manual = ticket[t].manual
    BY <1>1 DEF Ticket, Statuses
  <1>8. CASE \E r \in Requests : Answered(r, t) \/ Contested(r, t) \/ Resolves(r, t)
    BY <1>6, <1>7, <1>8 DEF Answered, Contested, Resolves, Statuses
  <1>9. CASE \E j \in Jobs : Overdue(j, t)
    BY <1>6, <1>9 DEF Overdue, Statuses
  <1> QED BY <1>1, <1>3, <1>4, <1>5, <1>8, <1>9 DEF RowStep

-----------------------------------------------------------------------------
(* The hourly job and the explanations. *)

\* Every commit of a request stamps the tickets it writes.
LEMMA FinishWrites ==
  ASSUME Names, Typed, NEW r \in Requests, Finish(r)
  PROVE  \E T, S : Commit(r, Idle, T, S) /\ \A t \in Rows \ T : ticket'[t] = ticket[t]
  <1>0. DOMAIN ticket = Tickets /\ Rows \subseteq Tickets
    BY DEF Typed, TypeOK, Rows
  <1>1. ASSUME NEW u, NEW row, Put(u, row) PROVE \A t \in Rows \ {u} : ticket'[t] = ticket[t]
    BY <1>0, <1>1 DEF Put
  <1>2. CASE RecalcCommit(r)
    <2>1. PICK C : C = IF RecalcFlag(r) THEN {} ELSE req[r].names \cap Rows
      OBVIOUS
    <2>2. /\ ticket' = [u \in Tickets |->
                          IF u \in C THEN [ticket[u] EXCEPT !.status = "Closed"] ELSE ticket[u]]
          /\ Commit(r, Idle, C, {req[r].session})
      BY <1>2, <2>1 DEF RecalcCommit
    <2>3. \A t \in Rows \ C : ticket'[t] = ticket[t]
      BY <1>0, <2>2
    <2> QED BY <2>2, <2>3
  <1>3. ASSUME NEW u, NEW row, Put(u, row), Commit(r, Idle, {u}, {})
        PROVE  \E T, S : Commit(r, Idle, T, S) /\ \A t \in Rows \ T : ticket'[t] = ticket[t]
    BY <1>1, <1>3
  <1>4. CASE HRCommit(r)
    BY <1>3, <1>4 DEF HRCommit
  <1>5. CASE ExplainCommit(r)
    BY <1>3, <1>5 DEF ExplainCommit
  <1>6. CASE AppealCommit(r)
    BY <1>3, <1>6 DEF AppealCommit
  <1>7. CASE DeleteCommit(r)
    BY <1>3, <1>7 DEF DeleteCommit
  <1>8. CASE CreateCommit(r)
    <2>1. Commit(r, Idle, {}, {})
      BY <1>8 DEF CreateCommit
    <2>2. PICK u \in NewTickets(1), f \in BOOLEAN :
            Put(u, [RaisedTicket(req[r].session, TRUE, req[r].count + 1) EXCEPT !.fined = f])
      BY <1>8 DEF CreateCommit
    <2>3. u \notin Rows
      BY <2>2 DEF NewTickets, Unused, Rows, NoTicket, Statuses
    <2>4. \A t \in Rows \ {} : ticket'[t] = ticket[t]
      BY <1>1, <2>2, <2>3
    <2> QED BY <2>1, <2>4
  <1>9. CASE PayrollCalculated(r)
    <2>1. Commit(r, Idle, {}, {}) /\ \A t \in Rows \ {} : ticket'[t] = ticket[t]
      BY <1>9 DEF PayrollCalculated
    <2> QED BY <2>1
  <1> QED BY <1>2, <1>4, <1>5, <1>6, <1>7, <1>8, <1>9 DEF Finish

\* What the hourly job still has to penalise is undecided, or penalised by another run.
Undecided(c) ==
  c.op = "penalising" => \A t \in c.names : t \in Rows /\ Status(t) \in {"Pending", "Penalised"}
NamesUndecided == \A q \in Slots : Undecided(req[q])

\* A row not written stays, or is penalised.
Untouched(T) == \A t \in Rows \ T : ticket'[t].status \in {ticket[t].status, "Penalised"}

LEMMA UndecidedCommit ==
  ASSUME Typed, NamesUndecided, NEW r \in Slots, NEW next, NEW T, NEW S, Commit(r, next, T, S),
         Untouched(T),
         next.op = "penalising" => req[r].op = "penalising" /\ next.names \subseteq req[r].names \ T
  PROVE  NamesUndecided'
  <1> SUFFICES ASSUME NEW q \in Slots, req'[q].op = "penalising", NEW t \in req'[q].names
               PROVE  t \in Tickets /\ ticket'[t].status \in {"Pending", "Penalised"}
    BY DEF NamesUndecided, Undecided, Rows, Status, Statuses
  <1>1. req[q].op = "penalising" /\ t \in req[q].names \ T
    <2>1. CASE q = r
      <3>1. req'[q] = next
        BY <2>1, Committed DEF Typed
      <3> QED BY <2>1, <3>1
    <2>2. CASE q # r
      <3>1. PICK c : c = req'[q]
        OBVIOUS
      <3>2. Keeps(c, req[q], T)
        BY <2>2, <3>1, CommittedOthers DEF Typed
      <3> QED BY <3>1, <3>2 DEF Keeps
    <2> QED BY <2>1, <2>2
  <1>2. t \in Rows /\ Status(t) \in {"Pending", "Penalised"}
    BY <1>1 DEF NamesUndecided, Undecided
  <1>3. ticket'[t].status \in {ticket[t].status, "Penalised"}
    BY <1>1, <1>2 DEF Untouched
  <1> QED BY <1>2, <1>3 DEF Rows, Status

LEMMA UndecidedMove ==
  ASSUME Typed, NamesUndecided, NEW r \in Slots, NEW c, req' = [req EXCEPT ![r] = c], ticket' = ticket,
         Undecided(c)
  PROVE  NamesUndecided'
  <1> SUFFICES ASSUME NEW q \in Slots PROVE Undecided(req[q])'
    BY DEF NamesUndecided
  <1>1. req'[q] = IF q = r THEN c ELSE req[q]
    BY DEF Typed, TypeOK, Slots
  <1>2. Undecided(req[q])
    BY DEF NamesUndecided
  <1> QED BY <1>1, <1>2 DEF Undecided, Rows, Status

LEMMA UndecidedNext ==
  ASSUME Names, Typed, NamesUndecided, [Next]_vars
  PROVE  NamesUndecided'
  <1>0. TypeOK /\ DOMAIN ticket = Tickets /\ DOMAIN req = Slots
    BY DEF Typed, TypeOK, Slots
  <1>1. ASSUME req' = req, \A t \in Tickets : ticket'[t].status = ticket[t].status
        PROVE  NamesUndecided'
    BY <1>1 DEF NamesUndecided, Undecided, Rows, Status
  <1>2. CASE UNCHANGED vars
    BY <1>1, <1>2 DEF vars
  <1>3. CASE Elsewhere
    <2>1. CASE \E u \in Tickets : GraceExpires(u)
      <3>1. PICK u \in Tickets : GraceExpires(u)
        BY <2>1
      <3>2. ticket[u] \in Ticket
        BY <1>0, <3>1, RowTyped DEF GraceExpires
      <3>3. PICK row : row = [ticket[u] EXCEPT !.expired = TRUE]
        OBVIOUS
      <3>4. row.status = ticket[u].status
        BY <3>2, <3>3 DEF Ticket
      <3>5. ticket' = [ticket EXCEPT ![u] = row] /\ req' = req
        BY <3>1, <3>3 DEF GraceExpires, Put
      <3>6. \A t \in Tickets : ticket'[t].status = ticket[t].status
        BY <1>0, <3>4, <3>5
      <3> QED BY <1>1, <3>5, <3>6
    <2>2. CASE ~(\E u \in Tickets : GraceExpires(u))
      <3>1. ticket' = ticket /\ req' = req
        BY <1>3, <2>2 DEF Elsewhere, World, ShiftEnds, Punch, LockExpires, PayrollClaim, PayrollApprove,
           PayrollGenerate, PayrollPublish, PeriodStep
      <3> QED BY <1>1, <3>1
    <2> QED BY <2>1, <2>2
  <1>4. ASSUME NEW r \in Slots, NEW call, StartCall(r, call), ticket' = ticket, call.op # "penalising"
        PROVE  NamesUndecided'
    <2>1. Undecided(call) /\ req' = [req EXCEPT ![r] = call]
      BY <1>4 DEF Undecided, StartCall
    <2> QED BY <1>4, <2>1, UndecidedMove
  <1>5. ASSUME NEW r \in Requests, Begin(r) PROVE NamesUndecided'
    <2>1. PICK call : Called(r, call)
      BY <1>5, BeginCalls
    <2> QED BY <1>4, <2>1 DEF Called, Slots, db
  <1>6. ASSUME NEW r \in Requests, Finish(r) PROVE NamesUndecided'
    <2>1. PICK T, S : Commit(r, Idle, T, S) /\ \A t \in Rows \ T : ticket'[t] = ticket[t]
      BY <1>6, FinishWrites
    <2>2. Untouched(T)
      BY <2>1 DEF Untouched
    <2> QED BY <2>1, <2>2, UndecidedCommit DEF Idle, Slots
  <1>7. ASSUME NEW r \in Slots, Closing(r) \/ Abort(r) PROVE NamesUndecided'
    <2>1. CASE CloseNext(r)
      <3>1. PICK K, G : req' = [req EXCEPT ![r].todo = @ \ {Next_(r)}, ![r].held = @ \cup K, ![r].made = @ \cup G]
        BY <2>1 DEF CloseNext
      <3>2. PICK c : c = [req[r] EXCEPT !.todo = @ \ {Next_(r)}, !.held = @ \cup K, !.made = @ \cup G]
        OBVIOUS
      <3>3. c.op = "autoclose"
        BY <2>1, <3>2 DEF CloseNext, Typed, TypeOK, Slots, Request
      <3>4. req' = [req EXCEPT ![r] = c] /\ ticket' = ticket
        BY <1>0, <2>1, <3>1, <3>2 DEF CloseNext, db
      <3> QED BY <3>3, <3>4, UndecidedMove DEF Undecided
    <2>2. CASE CloseFails(r)
      <3>1. PICK c : c = CloseReads(req[r].todo \ {Next_(r)})
        OBVIOUS
      <3>2. req' = [req EXCEPT ![r] = c] /\ ticket' = ticket /\ c.op = "autoclose"
        BY <2>2, <3>1 DEF CloseFails, CloseReads, Idle, db
      <3> QED BY <3>2, UndecidedMove DEF Undecided
    <2>3. CASE CloseCommit(r)
      <3>1. RaisedRows(req[r].made, NewTickets(Cardinality(req[r].made)))
        BY <1>0, <2>3, CloseWrites
      <3>2. Untouched({})
        BY <3>1 DEF Untouched, RaisedRows, Unused, Rows, NoTicket, Statuses
      <3>3. PICK c : c = IF r \in Jobs THEN [Idle EXCEPT !.op = "expire"] ELSE Idle
        OBVIOUS
      <3>4. Commit(r, c, {}, {}) /\ c.op # "penalising"
        BY <2>3, <3>3 DEF CloseCommit, Idle
      <3> QED BY <3>2, <3>4, UndecidedCommit
    <2>4. CASE Abort(r)
      BY <2>4, UndecidedMove DEF Undecided, Abort, db, Idle
    <2> QED BY <1>7, <2>1, <2>2, <2>3, <2>4 DEF Closing
  <1>8. ASSUME NEW j \in Jobs, HourlyJob(j) PROVE NamesUndecided'
    <2>0. j \in Slots
      BY DEF Slots
    <2>1. CASE TickBegin(j)
      <3>1. PICK call : call = CloseReads(OpenSessions)
        OBVIOUS
      <3>2. StartCall(j, call) /\ ticket' = ticket /\ call.op # "penalising"
        BY <2>1, <3>1 DEF TickBegin, CloseReads, Idle
      <3> QED BY <1>4, <2>0, <3>2
    <2>2. CASE PenaliseBegin(j)
      <3>1. PICK c : c = [Idle EXCEPT !.op = "penalising", !.names = Expired]
        OBVIOUS
      <3>2. req' = [req EXCEPT ![j] = c] /\ ticket' = ticket
        BY <2>2, <3>1 DEF PenaliseBegin, db
      <3>3. c.names = Expired
        BY <3>1 DEF Idle
      <3>4. Undecided(c)
        BY <3>3 DEF Undecided, Expired, Pending
      <3> QED BY <2>0, <3>2, <3>4, UndecidedMove
    <2>3. ASSUME NEW t \in Tickets, PenaliseOne(j, t) PROVE NamesUndecided'
      <3>1. PICK left : left = [req[j] EXCEPT !.names = @ \ {t}]
        OBVIOUS
      <3>2. req[j].op = "penalising" /\ left.names = req[j].names \ {t}
        BY <2>0, <2>3, <3>1 DEF PenaliseOne, Typed, TypeOK, Slots, Request
      <3>3. PICK T : T \in {{}, {t}} /\ Commit(j, left, T, {})
        BY <2>3, <3>1 DEF PenaliseOne
      <3>4. Untouched(T)
        <4>1. CASE t \in Rows
          <5>1. ticket' = [ticket EXCEPT ![t] = [ticket[t] EXCEPT !.status = "Penalised"]]
            BY <2>3, <4>1 DEF PenaliseOne, Put
          <5>2. [ticket[t] EXCEPT !.status = "Penalised"].status = "Penalised"
            BY <1>0, <4>1, RowTyped DEF Ticket
          <5>3. \A u \in Tickets : ticket'[u].status \in {ticket[u].status, "Penalised"}
            BY <1>0, <5>1, <5>2
          <5> QED BY <5>3 DEF Untouched, Rows
        <4>2. CASE t \notin Rows
          <5>1. ticket' = ticket
            BY <2>3, <4>2 DEF PenaliseOne
          <5> QED BY <5>1 DEF Untouched
        <4> QED BY <4>1, <4>2
      <3> QED BY <2>0, <3>2, <3>3, <3>4, UndecidedCommit
    <2>4. CASE TickEnd(j)
      BY <2>0, <2>4, UndecidedMove DEF Undecided, TickEnd, Idle
    <2> QED BY <1>8, <2>1, <2>2, <2>3, <2>4 DEF HourlyJob
  <1> QED BY <1>2, <1>3, <1>5, <1>6, <1>7, <1>8, Steps

LEMMA UndecidedInit == Init => NamesUndecided
  BY DEF Init, NamesUndecided, Undecided, Slots, Idle

LEMMA UndecidedAlways == ASSUME Names PROVE Spec => [](Typed /\ NamesUndecided)
  <1>1. Init => Typed /\ NamesUndecided
    BY TypedInit, UndecidedInit
  <1>2. Typed /\ NamesUndecided /\ [Next]_vars => (Typed /\ NamesUndecided)'
    BY TypedNext, UndecidedNext
  <1> QED BY <1>1, <1>2, PTL DEF Spec

\* Only HR takes a ticket from Explained to Penalised.
LEMMA ExplainedStep ==
  ASSUME Names, Typed, NamesUndecided, [Next]_vars
  PROVE  Explained
  <1> SUFFICES ASSUME NEW t \in Rows, Status(t) = "Explained", ticket'[t].status = "Penalised"
               PROVE  \E r \in Requests : req[r].ticket = t /\ req[r].op = "penalise"
    BY DEF Explained
  <1>1. t \in Tickets /\ ticket[t] \in Ticket /\ ticket[t].status = "Explained"
    BY RowTyped DEF Typed, Status
  <1>2. RowStep(t)
    BY <1>1, TicketSteps DEF TicketStep, RowStep, Unused, NoTicket
  <1>3. ASSUME NEW j \in Jobs, Overdue(j, t) PROVE FALSE
    BY <1>1, <1>3 DEF Overdue, PenaliseOne, NamesUndecided, Undecided, Slots, Status
  <1>4. ASSUME NEW r \in Requests, Answered(r, t) \/ Contested(r, t) \/ Dropped(r, t) \/ Resolves(r, t) PROVE FALSE
    <2>1. [ticket[t] EXCEPT !.status = "Explained"].status = "Explained"
      BY <1>1 DEF Ticket
    <2>2. [ticket[t] EXCEPT !.status = "Explained", !.appealed = TRUE].status = "Explained"
      BY <1>1 DEF Ticket
    <2>3. [ticket[t] EXCEPT !.status = "Closed"].status = "Closed" /\ Deleted.status = "Deleted"
      BY <1>1 DEF Ticket, Deleted
    <2> QED BY <1>4, <2>1, <2>2, <2>3 DEF Answered, Contested, Dropped, Resolves
  <1>5. ASSUME NEW r \in Requests, Decided(r, t) PROVE req[r].ticket = t /\ req[r].op = "penalise"
    BY <1>1, <1>5 DEF Decided, HRCommit, HRActions, Resolved, Extended, Reopened, Ticket
  <1>6. ticket'[t] # ticket[t] /\ ticket'[t] # [ticket[t] EXCEPT !.expired = TRUE]
    BY <1>1 DEF Ticket
  <1> QED BY <1>2, <1>3, <1>4, <1>5, <1>6 DEF RowStep

\* Whoever runs at once, the hourly job penalises no ticket whose explanation is in HR's
\* queue (penalise_expired looks at the stamp of what it saw pending).
THEOREM ExplanationStays == ASSUME Names PROVE Spec => ExplanationKept
  <1>1. Typed /\ NamesUndecided /\ [Next]_vars => [Explained]_vars
    BY ExplainedStep
  <1> QED BY <1>1, UndecidedAlways, PTL DEF Spec, ExplanationKept

-----------------------------------------------------------------------------
(* Penalised tickets and their waivers.  Reopening a waived ticket leaves its waiver,    *)
(* and the hourly job would penalise it as it is.                                        *)

WaiversEnd == "reopen" \notin Ops \/ Jobs = {}

WaiverOf(row) == /\ row.status = "Penalised" => ~row.waived
                 /\ row.status = "Pending" /\ "reopen" \notin Ops => ~row.waived
NotWaived == \A t \in Rows : WaiverOf(ticket[t])

LEMMA ResolvedWaiver ==
  ASSUME NEW old \in Ticket, WaiverOf(old), NEW act \in HRActions, act \in Ops, NEW row \in Resolved(act, old)
  PROVE  WaiverOf(row)
  <1>1. CASE act = "penalise"
    <2>1. PICK f \in BOOLEAN : row = [old EXCEPT !.status = "Penalised", !.waived = FALSE, !.fined = f]
      BY <1>1 DEF Resolved
    <2>2. row.status = "Penalised" /\ ~row.waived
      BY <2>1 DEF Ticket
    <2> QED BY <2>2 DEF WaiverOf
  <1>2. CASE act = "waive" \/ act = "close"
    <2>1. row.status \in {"Waived", "Closed"}
      BY <1>2 DEF Resolved, Ticket
    <2> QED BY <2>1 DEF WaiverOf
  <1>3. CASE act = "extend"
    <2>1. row = [old EXCEPT !.expired = FALSE]
      BY <1>3 DEF Resolved, Extended
    <2>2. row.status = old.status /\ row.waived = old.waived
      BY <2>1 DEF Ticket
    <2> QED BY <2>2 DEF WaiverOf
  <1>4. CASE act = "reopen"
    <2>1. row = [old EXCEPT !.status = "Pending"]
      BY <1>4 DEF Resolved, Reopened
    <2>2. row.status = "Pending"
      BY <2>1 DEF Ticket
    <2> QED BY <1>4, <2>2 DEF WaiverOf
  <1> QED BY <1>1, <1>2, <1>3, <1>4 DEF HRActions

LEMMA WaivedNext ==
  ASSUME Names, WaiversEnd, Typed, NamesUndecided, NotWaived, [Next]_vars
  PROVE  NotWaived'
  <1> SUFFICES ASSUME NEW t \in Tickets, ticket'[t].status \in Statuses PROVE WaiverOf(ticket'[t])
    BY DEF NotWaived, Rows
  <1>0. TypeOK
    BY DEF Typed
  <1>1. TicketStep(t)
    BY TicketSteps
  <1>2. CASE t \in Rows
    <2>0. ticket[t] \in Ticket /\ WaiverOf(ticket[t])
      BY <1>0, <1>2, RowTyped DEF NotWaived
    <2>1. CASE ticket'[t] = ticket[t]
      BY <2>0, <2>1
    <2>2. CASE ticket'[t] = [ticket[t] EXCEPT !.expired = TRUE]
      <3>1. ticket'[t].status = ticket[t].status /\ ticket'[t].waived = ticket[t].waived
        BY <2>0, <2>2 DEF Ticket
      <3> QED BY <2>0, <3>1 DEF WaiverOf
    <2>3. ASSUME NEW r \in Requests, Decided(r, t) PROVE WaiverOf(ticket'[t])
      <3>1. req[r].op \in HRActions /\ ticket'[t] \in Resolved(req[r].op, ticket[t])
        BY <2>3 DEF Decided, HRCommit
      <3>2. req[r].op \in Ops
        BY <3>1 DEF Typed, Shapes, ShapeOf, Slots, HRActions
      <3> QED BY <2>0, <3>1, <3>2, ResolvedWaiver
    <2>4. ASSUME NEW r \in Requests, Answered(r, t) \/ Contested(r, t) \/ Dropped(r, t) \/ Resolves(r, t)
          PROVE  WaiverOf(ticket'[t])
      <3>1. [ticket[t] EXCEPT !.status = "Explained"].status = "Explained"
        BY <2>0 DEF Ticket
      <3>2. [ticket[t] EXCEPT !.status = "Explained", !.appealed = TRUE].status = "Explained"
        BY <2>0 DEF Ticket
      <3>3. [ticket[t] EXCEPT !.status = "Closed"].status = "Closed" /\ Deleted.status = "Deleted"
        BY <2>0 DEF Ticket, Deleted
      <3>4. ticket'[t].status \in {"Explained", "Closed", "Deleted"}
        BY <2>4, <3>1, <3>2, <3>3 DEF Answered, Contested, Dropped, Resolves
      <3> QED BY <3>4 DEF WaiverOf
    <2>5. ASSUME NEW j \in Jobs, Overdue(j, t) PROVE WaiverOf(ticket'[t])
      <3>1. "reopen" \notin Ops
        BY DEF WaiversEnd
      <3>2. t \in req[j].names /\ req[j].op = "penalising"
        BY <2>5 DEF Overdue, PenaliseOne
      <3>3. ticket[t].status \in {"Pending", "Penalised"}
        BY <3>2 DEF NamesUndecided, Undecided, Slots, Status
      <3>4. ~ticket[t].waived
        BY <2>0, <3>1, <3>3 DEF WaiverOf
      <3>5. ticket'[t].waived = ticket[t].waived
        BY <2>0, <2>5 DEF Overdue, Ticket
      <3> QED BY <3>4, <3>5 DEF WaiverOf
    <2>6. RowStep(t)
      BY <1>1, <1>2 DEF TicketStep, RowStep, Unused, Rows, NoTicket, Statuses
    <2> QED BY <2>1, <2>2, <2>3, <2>4, <2>5, <2>6 DEF RowStep
  <1>3. CASE t \notin Rows
    <2>1. ticket'[t] # ticket[t]
      BY <1>3 DEF Rows
    <2>2. ASSUME NEW r \in Slots, Raised(r, t) PROVE WaiverOf(ticket'[t])
      <3>1. PICK n \in Nat : ticket'[t] = RaisedTicket(For(req[r].made, t), FALSE, n)
        BY <2>2 DEF Raised
      <3>2. ticket'[t].waived = FALSE
        BY <3>1 DEF RaisedTicket
      <3> QED BY <3>2 DEF WaiverOf
    <2>3. ASSUME NEW r \in Requests, Created(r, t) PROVE WaiverOf(ticket'[t])
      <3>1. PICK n \in Nat, f \in BOOLEAN :
              ticket'[t] = [RaisedTicket(req[r].session, TRUE, n) EXCEPT !.fined = f]
        BY <2>3 DEF Created
      <3>2. ticket'[t].waived = FALSE
        BY <3>1 DEF RaisedTicket
      <3> QED BY <3>2 DEF WaiverOf
    <2> QED BY <1>1, <1>3, <2>1, <2>2, <2>3 DEF TicketStep, NewStep
  <1> QED BY <1>2, <1>3

\* Whoever decides at the same time, a penalised ticket is one the payroll deducts
\* (_apply_decision takes the waiver back).
THEOREM PenaltyIsDeducted == ASSUME Names, WaiversEnd PROVE Spec => []PenalisedIsDeducted
  <1>1. Init => NotWaived
    BY DEF Init, NotWaived, Rows, NoTicket, Statuses
  <1>2. Typed /\ NamesUndecided /\ NotWaived /\ [Next]_vars => NotWaived'
    BY WaivedNext
  <1>3. NotWaived => PenalisedIsDeducted
    BY DEF NotWaived, WaiverOf, PenalisedIsDeducted, Status
  <1> QED BY <1>1, <1>2, <1>3, UndecidedAlways, PTL DEF Spec

-----------------------------------------------------------------------------
(* The guarded claim: a session in nobody's hands or in those of one.                    *)

AutosOnce == \A s \in Sessions : shift[s].autos <= 1 /\ (shift[s].autos > 0 => shift[s].flag)
FlagTells == \A t \in Rows : Engine(t) => shift[ticket[t].session].flag
OneEach   == \A t, u \in Rows : Engine(t) /\ Engine(u) /\ ticket[t].session = ticket[u].session => t = u
HeldOpen  == \A q \in Slots : /\ req[q].made \subseteq req[q].held
                              /\ \A s \in req[q].held : ~shift[s].flag
HeldApart == \A p, q \in Slots : p # q => req[p].held \cap req[q].held = {}
Claimed == AutosOnce /\ FlagTells /\ OneEach /\ HeldOpen /\ HeldApart

\* A step that closes and claims nothing.
Keeping == \A q \in Slots : \/ req'[q].held = req[q].held /\ req'[q].made = req[q].made
                            \/ req'[q].held = {} /\ req'[q].made = {}
SameShifts == \A s \in Sessions : shift'[s].flag = shift[s].flag /\ shift'[s].autos = shift[s].autos

LEMMA KeepingCommit ==
  ASSUME TypeOK, NEW r \in Slots, NEW next, NEW T, NEW S, Commit(r, next, T, S),
         next.held = {} /\ next.made = {}
  PROVE  Keeping
  <1> SUFFICES ASSUME NEW q \in Slots
               PROVE  \/ req'[q].held = req[q].held /\ req'[q].made = req[q].made
                      \/ req'[q].held = {} /\ req'[q].made = {}
    BY DEF Keeping
  <1>1. CASE q = r
    BY <1>1, Committed
  <1>2. CASE q # r
    <2>1. PICK c : c = req'[q]
      OBVIOUS
    <2>2. Keeps(c, req[q], T)
      BY <1>2, <2>1, CommittedOthers
    <2> QED BY <2>1, <2>2 DEF Keeps
  <1> QED BY <1>1, <1>2

LEMMA KeepingMove ==
  ASSUME TypeOK, NEW r \in Slots, NEW c, req' = [req EXCEPT ![r] = c],
         c.held = {} /\ c.made = {}
  PROVE  Keeping
  BY DEF Keeping, TypeOK, Slots

\* Nothing but CloseNext and CloseCommit claims, and nothing but CloseCommit and a
\* recalculation writes the flags.
LEMMA OthersKeep ==
  ASSUME Names, Typed, [Next]_vars, \A r \in Slots : ~CloseNext(r) /\ ~CloseCommit(r)
  PROVE  /\ Keeping
         /\ SameShifts \/ \E r \in Requests : RecalcCommit(r)
  <1>0. TypeOK /\ DOMAIN req = Slots /\ shift \in [Sessions -> Shift]
    BY DEF Typed, TypeOK, Slots
  <1>1. shift' = shift => SameShifts
    BY DEF SameShifts
  <1>2. req' = req => Keeping
    BY DEF Keeping
  <1>3. CASE UNCHANGED vars
    BY <1>1, <1>2, <1>3 DEF vars
  <1>4. CASE Elsewhere
    <2>1. req' = req
      BY <1>4 DEF Elsewhere, World, ShiftEnds, Punch, GraceExpires, LockExpires, PayrollClaim, PayrollApprove,
         PayrollGenerate, PayrollPublish, PeriodStep
    <2>2. SameShifts
      <3>1. ASSUME NEW s \in Sessions, ShiftEnds(s) PROVE SameShifts
        BY <1>0, <3>1 DEF ShiftEnds, SameShifts, Shift
      <3>2. ASSUME NEW s \in Sessions, Punch(s) PROVE SameShifts
        BY <1>0, <3>2 DEF Punch, SameShifts, Shift
      <3>3. CASE shift' = shift
        BY <1>1, <3>3
      <3> QED BY <1>4, <3>1, <3>2, <3>3 DEF Elsewhere, World, GraceExpires, LockExpires, PayrollClaim,
             PayrollApprove, PayrollGenerate, PayrollPublish, PeriodStep
    <2> QED BY <1>2, <2>1, <2>2
  <1>5. ASSUME NEW r \in Requests, Begin(r) PROVE Keeping /\ SameShifts
    <2>1. PICK call : Called(r, call)
      BY <1>5, BeginCalls
    <2>2. req' = [req EXCEPT ![r] = call] /\ shift' = shift /\ call.held = {} /\ call.made = {} /\ r \in Slots
      BY <2>1 DEF Called, StartCall, db, Slots
    <2> QED BY <1>0, <1>1, <2>2, KeepingMove
  <1>6. ASSUME NEW r \in Requests, Finish(r) PROVE Keeping /\ (SameShifts \/ RecalcCommit(r))
    <2>1. PICK T, S : Commit(r, Idle, T, S)
      BY <1>6, FinishWrites
    <2>2. Keeping
      BY <1>0, <2>1, KeepingCommit DEF Idle, Slots
    <2>3. shift' = shift \/ RecalcCommit(r)
      BY <1>6 DEF Finish, HRCommit, ExplainCommit, AppealCommit, CreateCommit, DeleteCommit, PayrollCalculated
    <2> QED BY <1>1, <2>2, <2>3
  <1>7. ASSUME NEW r \in Slots, Closing(r) \/ Abort(r) PROVE Keeping /\ SameShifts
    <2>1. CASE CloseFails(r)
      <3>1. PICK c : c = CloseReads(req[r].todo \ {Next_(r)})
        OBVIOUS
      <3>2. req' = [req EXCEPT ![r] = c] /\ shift' = shift /\ c.held = {} /\ c.made = {}
        BY <2>1, <3>1 DEF CloseFails, CloseReads, Idle, db
      <3> QED BY <1>0, <1>1, <3>2, KeepingMove
    <2>2. CASE Abort(r)
      <3>1. req' = [req EXCEPT ![r] = Idle] /\ shift' = shift /\ Idle.held = {} /\ Idle.made = {}
        BY <2>2 DEF Abort, db, Idle
      <3> QED BY <1>0, <1>1, <3>1, KeepingMove
    <2> QED BY <1>7, <2>1, <2>2 DEF Closing
  <1>8. ASSUME NEW j \in Jobs, HourlyJob(j) PROVE Keeping /\ SameShifts
    <2>0. j \in Slots /\ req[j] \in Request /\ ShapeOf(req[j])
      BY DEF Slots, Typed, TypeOK, Shapes
    <2>1. shift' = shift
      BY <1>8 DEF HourlyJob, TickBegin, PenaliseBegin, PenaliseOne, TickEnd, db
    <2>2. CASE TickBegin(j)
      <3>1. PICK c : c = CloseReads(OpenSessions)
        OBVIOUS
      <3>2. req' = [req EXCEPT ![j] = c] /\ c.held = {} /\ c.made = {}
        BY <2>2, <3>1 DEF TickBegin, StartCall, CloseReads, Idle
      <3> QED BY <1>0, <1>1, <2>0, <2>1, <3>2, KeepingMove
    <2>3. CASE PenaliseBegin(j)
      <3>1. PICK c : c = [Idle EXCEPT !.op = "penalising", !.names = Expired]
        OBVIOUS
      <3>2. req' = [req EXCEPT ![j] = c] /\ c.held = {} /\ c.made = {}
        BY <2>3, <3>1 DEF PenaliseBegin, Idle
      <3> QED BY <1>0, <1>1, <2>0, <2>1, <3>2, KeepingMove
    <2>4. ASSUME NEW t \in Tickets, PenaliseOne(j, t) PROVE Keeping
      <3>1. PICK left : left = [req[j] EXCEPT !.names = @ \ {t}]
        OBVIOUS
      <3>2. left.held = {} /\ left.made = {}
        <4>1. req[j].op = "penalising"
          BY <2>4 DEF PenaliseOne
        <4>2. req[j].held = {} /\ req[j].made = {}
          BY <2>0, <4>1 DEF ShapeOf
        <4> QED BY <2>0, <3>1, <4>2 DEF Request
      <3>3. PICK T : Commit(j, left, T, {})
        BY <2>4, <3>1 DEF PenaliseOne
      <3> QED BY <1>0, <2>0, <3>2, <3>3, KeepingCommit
    <2>5. CASE TickEnd(j)
      <3>1. req' = [req EXCEPT ![j] = Idle] /\ Idle.held = {} /\ Idle.made = {}
        BY <2>5 DEF TickEnd, Idle
      <3> QED BY <1>0, <1>1, <2>0, <2>1, <3>1, KeepingMove
    <2> QED BY <1>1, <1>8, <2>1, <2>2, <2>3, <2>4, <2>5 DEF HourlyJob
  <1> QED BY <1>3, <1>4, <1>5, <1>6, <1>7, <1>8, Steps DEF Slots

\* A ticket of the engine that is there after a step that does not close sessions was
\* there before.
LEMMA EngineKept ==
  ASSUME Names, Typed, [Next]_vars, \A r \in Slots : ~CloseCommit(r), NEW t \in Tickets,
         ticket'[t].status \in Statuses, ~ticket'[t].manual
  PROVE  t \in Rows /\ Engine(t) /\ ticket'[t].session = ticket[t].session
  <1>1. TicketStep(t) /\ TypeOK
    BY TicketSteps DEF Typed
  <1>2. CASE t \in Rows
    <2>1. RowStep(t)
      BY <1>1, <1>2 DEF TicketStep, RowStep, Unused, Rows, NoTicket, Statuses
    <2> QED BY <1>1, <1>2, <2>1, RowSame DEF Statuses, Engine
  <1>3. CASE t \notin Rows
    <2>1. ticket'[t] # ticket[t]
      BY <1>3 DEF Rows
    <2>2. PICK r \in Requests : Created(r, t)
      BY <1>1, <1>3, <2>1 DEF TicketStep, NewStep, Raised
    <2>3. PICK n \in Nat, f \in BOOLEAN :
            ticket'[t] = [RaisedTicket(req[r].session, TRUE, n) EXCEPT !.fined = f]
      BY <2>2 DEF Created
    <2>4. ticket'[t].manual = TRUE
      BY <2>3 DEF RaisedTicket
    <2> QED BY <2>4
  <1> QED BY <1>2, <1>3

LEMMA ClaimedNext ==
  ASSUME Names, "recalc" \notin Ops, Typed, Claimed, [Next]_vars
  PROVE  Claimed'
  <1>0. TypeOK /\ shift \in [Sessions -> Shift] /\ req \in [Slots -> Request]
    BY DEF Typed, TypeOK, Slots
  <1>1. ASSUME SameShifts, \A r \in Slots : ~CloseCommit(r)
        PROVE  AutosOnce' /\ FlagTells' /\ OneEach'
    <2>1. AutosOnce'
      BY <1>1 DEF SameShifts, Claimed, AutosOnce
    <2>2. ASSUME NEW t \in Tickets, ticket'[t].status \in Statuses, ~ticket'[t].manual
          PROVE  t \in Rows /\ Engine(t) /\ ticket'[t].session = ticket[t].session /\ ticket[t].session \in Sessions
      <3>1. t \in Rows /\ Engine(t) /\ ticket'[t].session = ticket[t].session
        BY <1>1, <2>2, EngineKept
      <3> QED BY <1>0, <3>1, RowTyped DEF Ticket
    <2>3. FlagTells'
      <3> SUFFICES ASSUME NEW t \in Tickets, ticket'[t].status \in Statuses, ~ticket'[t].manual
                   PROVE  shift'[ticket'[t].session].flag
        BY DEF FlagTells, Rows, Engine
      <3> QED BY <1>1, <2>2 DEF SameShifts, Claimed, FlagTells
    <2>4. OneEach'
      <3> SUFFICES ASSUME NEW t \in Tickets, ticket'[t].status \in Statuses, ~ticket'[t].manual,
                          NEW u \in Tickets, ticket'[u].status \in Statuses, ~ticket'[u].manual,
                          ticket'[t].session = ticket'[u].session
                   PROVE  t = u
        BY DEF OneEach, Rows, Engine
      <3> QED BY <2>2 DEF Claimed, OneEach
    <2> QED BY <2>1, <2>3, <2>4
  <1>2. CASE \A r \in Slots : ~CloseNext(r) /\ ~CloseCommit(r)
    <2>1. ASSUME NEW r \in Requests, RecalcCommit(r) PROVE FALSE
      BY <2>1 DEF RecalcCommit, Typed, Shapes, ShapeOf, Slots
    <2>2. Keeping /\ SameShifts
      BY <1>2, <2>1, OthersKeep
    <2>3. HeldOpen'
      <3> SUFFICES ASSUME NEW q \in Slots
                   PROVE  req'[q].made \subseteq req'[q].held /\ \A s \in req'[q].held : ~shift'[s].flag
        BY DEF HeldOpen
      <3>1. req[q].made \subseteq req[q].held /\ req[q].held \subseteq Sessions
            /\ \A s \in req[q].held : ~shift[s].flag
        BY <1>0 DEF Claimed, HeldOpen, Request
      <3> QED BY <2>2, <3>1 DEF Keeping, SameShifts
    <2>4. HeldApart'
      <3> SUFFICES ASSUME NEW p \in Slots, NEW q \in Slots, p # q PROVE req'[p].held \cap req'[q].held = {}
        BY DEF HeldApart
      <3>1. req[p].held \cap req[q].held = {}
        BY DEF Claimed, HeldApart
      <3> QED BY <2>2, <3>1 DEF Keeping
    <2> QED BY <1>1, <1>2, <2>2, <2>3, <2>4 DEF Claimed
  <1>3. ASSUME NEW r \in Slots, CloseNext(r) PROVE Claimed'
    <2>1. PICK s : s = Next_(r)
      OBVIOUS
    <2>2. PICK K : K = IF Claims(r, s) THEN {s} ELSE {}
      OBVIOUS
    <2>3. PICK c : c = [req[r] EXCEPT !.todo = @ \ {s}, !.held = @ \cup K, !.made = @ \cup (K \ req[r].ticketed)]
      OBVIOUS
    <2>4. req' = [req EXCEPT ![r] = c] /\ shift' = shift /\ ticket' = ticket
      BY <1>0, <1>3, <2>1, <2>2, <2>3 DEF CloseNext, db
    <2>5. c.held = req[r].held \cup K /\ c.made = req[r].made \cup (K \ req[r].ticketed)
      BY <1>0, <2>3 DEF Request
    <2>6. \A q \in Slots : s \notin req[q].held
      <3>1. ASSUME NEW q \in Slots, q \in InFlight PROVE s \notin req[q].held
        BY <1>3, <2>1, <3>1 DEF CloseNext
      <3>2. ASSUME NEW q \in Slots, q \notin InFlight PROVE s \notin req[q].held
        BY <3>2 DEF InFlight, Slots, Typed, Shapes, ShapeOf, Idle
      <3> QED BY <3>1, <3>2
    <2>7. HeldOpen'
      <3> SUFFICES ASSUME NEW q \in Slots
                   PROVE  req'[q].made \subseteq req'[q].held /\ \A x \in req'[q].held : ~shift'[x].flag
        BY DEF HeldOpen
      <3>1. req[q].made \subseteq req[q].held /\ \A x \in req[q].held : ~shift[x].flag
        BY DEF Claimed, HeldOpen
      <3>2. \A x \in K : ~shift[x].flag
        BY <2>2 DEF Claims
      <3>3. req'[q] = IF q = r THEN c ELSE req[q]
        BY <1>0, <2>4
      <3> QED BY <2>4, <2>5, <3>1, <3>2, <3>3
    <2>8. HeldApart'
      <3> SUFFICES ASSUME NEW p \in Slots, NEW q \in Slots, p # q PROVE req'[p].held \cap req'[q].held = {}
        BY DEF HeldApart
      <3>1. req[p].held \cap req[q].held = {}
        BY DEF Claimed, HeldApart
      <3>2. K \cap req[q].held = {} /\ K \cap req[p].held = {}
        BY <2>2, <2>6
      <3>3. req'[q] = (IF q = r THEN c ELSE req[q]) /\ req'[p] = IF p = r THEN c ELSE req[p]
        BY <1>0, <2>4
      <3> QED BY <2>5, <3>1, <3>2, <3>3
    <2>9. AutosOnce' /\ FlagTells' /\ OneEach'
      BY <2>4 DEF Claimed, AutosOnce, FlagTells, OneEach, Rows, Engine
    <2> QED BY <2>7, <2>8, <2>9 DEF Claimed
  <1>4. ASSUME NEW r \in Slots, CloseCommit(r) PROVE Claimed'
    <2>1. PICK made : made = req[r].made
      OBVIOUS
    <2>2. PICK New : New = NewTickets(Cardinality(made))
      OBVIOUS
    <2>3. RaisedRows(made, New)
      BY <1>0, <1>4, <2>1, <2>2, CloseWrites
    <2>4. made \subseteq req[r].held /\ req[r].held \subseteq Sessions /\ \A s \in req[r].held : ~shift[s].flag
      BY <1>0, <2>1 DEF Claimed, HeldOpen, Request
    <2>5. \A s \in Sessions : /\ shift'[s].flag <=> shift[s].flag \/ s \in req[r].held
                              /\ shift'[s].autos = IF s \in made THEN shift[s].autos + 1 ELSE shift[s].autos
      BY <1>0, <1>4, <2>1, CloseShifts
    <2>6. AutosOnce'
      <3> SUFFICES ASSUME NEW s \in Sessions PROVE shift'[s].autos <= 1 /\ (shift'[s].autos > 0 => shift'[s].flag)
        BY DEF AutosOnce
      <3>1. shift[s].autos \in Nat /\ shift[s].autos <= 1 /\ (shift[s].autos > 0 => shift[s].flag)
        BY <1>0 DEF Shift, Claimed, AutosOnce
      <3>2. CASE s \in made
        <4>1. shift[s].autos = 0
          BY <2>4, <3>1, <3>2
        <4> QED BY <2>4, <2>5, <3>2, <4>1
      <3>3. CASE s \notin made
        BY <2>5, <3>1, <3>3
      <3> QED BY <3>2, <3>3
    <2>7. ASSUME NEW t \in Tickets, ticket'[t].status \in Statuses, ~ticket'[t].manual
          PROVE  \/ t \in New /\ ticket'[t].session = For(made, t) /\ For(made, t) \in made
                 \/ /\ t \in Rows /\ t \notin New /\ Engine(t) /\ ticket'[t] = ticket[t]
                    /\ ticket[t].session \in Sessions /\ shift[ticket[t].session].flag
      <3>1. CASE t \in New
        <4>1. PICK n \in Nat : ticket'[t] = RaisedTicket(For(made, t), FALSE, n)
          BY <2>3, <3>1 DEF RaisedRows
        <4>2. ticket'[t].session = For(made, t)
          BY <4>1 DEF RaisedTicket
        <4> QED BY <2>3, <3>1, <4>2 DEF RaisedRows
      <3>2. CASE t \notin New
        <4>1. ticket'[t] = ticket[t]
          BY <2>3, <3>2 DEF RaisedRows
        <4>2. t \in Rows /\ Engine(t)
          BY <2>7, <4>1 DEF Rows, Engine
        <4>3. ticket[t].session \in Sessions
          BY <1>0, <4>2, RowTyped DEF Ticket
        <4> QED BY <3>2, <4>1, <4>2, <4>3 DEF Claimed, FlagTells
      <3> QED BY <3>1, <3>2
    <2>8. FlagTells'
      <3> SUFFICES ASSUME NEW t \in Tickets, ticket'[t].status \in Statuses, ~ticket'[t].manual
                   PROVE  shift'[ticket'[t].session].flag
        BY DEF FlagTells, Rows, Engine
      <3> QED BY <2>4, <2>5, <2>7
    <2>9. OneEach'
      <3> SUFFICES ASSUME NEW t \in Tickets, ticket'[t].status \in Statuses, ~ticket'[t].manual,
                          NEW u \in Tickets, ticket'[u].status \in Statuses, ~ticket'[u].manual,
                          ticket'[t].session = ticket'[u].session
                   PROVE  t = u
        BY DEF OneEach, Rows, Engine
      <3>1. CASE t \in New /\ u \in New
        <4>1. For(made, t) = For(made, u)
          BY <2>7, <3>1
        <4> QED BY <2>3, <3>1, <4>1 DEF RaisedRows
      <3>2. CASE t \notin New /\ u \notin New
        BY <2>7, <3>2 DEF Claimed, OneEach
      <3>3. CASE t \in New <=> u \notin New
        BY <2>4, <2>7, <3>3
      <3> QED BY <3>1, <3>2, <3>3
    <2>10. PICK next : next = IF r \in Jobs THEN [Idle EXCEPT !.op = "expire"] ELSE Idle
      OBVIOUS
    <2>11. Commit(r, next, {}, {}) /\ next.held = {} /\ next.made = {}
      BY <1>4, <2>10 DEF CloseCommit, Idle
    <2>12. Keeping /\ req'[r].held = {} /\ req'[r].made = {}
      BY <1>0, <2>11, KeepingCommit, Committed
    <2>13. HeldOpen'
      <3> SUFFICES ASSUME NEW q \in Slots
                   PROVE  req'[q].made \subseteq req'[q].held /\ \A s \in req'[q].held : ~shift'[s].flag
        BY DEF HeldOpen
      <3>1. CASE q = r
        BY <2>12, <3>1
      <3>2. CASE q # r
        <4>1. req[q].made \subseteq req[q].held /\ req[q].held \subseteq Sessions
              /\ \A s \in req[q].held : ~shift[s].flag
          BY <1>0 DEF Claimed, HeldOpen, Request
        <4>2. req[q].held \cap req[r].held = {}
          BY <3>2 DEF Claimed, HeldApart
        <4> QED BY <2>5, <2>12, <4>1, <4>2 DEF Keeping
      <3> QED BY <3>1, <3>2
    <2>14. HeldApart'
      <3> SUFFICES ASSUME NEW p \in Slots, NEW q \in Slots, p # q PROVE req'[p].held \cap req'[q].held = {}
        BY DEF HeldApart
      <3>1. req[p].held \cap req[q].held = {}
        BY DEF Claimed, HeldApart
      <3> QED BY <2>12, <3>1 DEF Keeping
    <2> QED BY <2>6, <2>8, <2>9, <2>13, <2>14 DEF Claimed
  <1> QED BY <1>2, <1>3, <1>4

LEMMA ClaimedInit == Init => Claimed
  <1> SUFFICES ASSUME Init PROVE Claimed
    OBVIOUS
  <1>1. Rows = {} /\ (\A r \in Slots : req[r] = Idle) /\ \A s \in Sessions : shift[s].autos = 0
    BY DEF Init, Rows, NoTicket, Statuses, Slots
  <1> QED BY <1>1 DEF Claimed, AutosOnce, FlagTells, OneEach, HeldOpen, HeldApart, Idle

\* At most one of a set whose members are all the same.
LEMMA AtMostOne ==
  ASSUME NEW S, \A x, y \in S : x = y
  PROVE  Cardinality(S) <= 1
  <1>1. CASE S = {}
    BY <1>1, FS_EmptySet
  <1>2. CASE S # {}
    <2>1. PICK x : S = {x}
      BY <1>2
    <2> QED BY <2>1, FS_Singleton
  <1> QED BY <1>1, <1>2

LEMMA ClaimedOne ==
  ASSUME Claimed
  PROVE  OneTicketPerSession
  <1> SUFFICES ASSUME NEW s \in Sessions
               PROVE  Cardinality({t \in TicketsOf(s) : Engine(t)}) <= 1 /\ shift[s].autos <= 1
    BY DEF OneTicketPerSession
  <1>1. \A x, y \in {t \in TicketsOf(s) : Engine(t)} : x = y
    BY DEF Claimed, OneEach, TicketsOf
  <1> QED BY <1>1, AtMostOne DEF Claimed, AutosOnce

\* Whoever closes a session at the same time, check-ins and hourly runs, it gets one OUT
\* log and one ticket (the guarded UPDATE of _close_session), as long as no
\* recalculation takes the flag back meanwhile.
THEOREM SessionClosedOnce == ASSUME Names, "recalc" \notin Ops PROVE Spec => []OneTicketPerSession
  <1>1. Spec => []Typed
    BY TypedInit, TypedNext, PTL DEF Spec
  <1>2. Typed /\ Claimed /\ [Next]_vars => Claimed'
    BY ClaimedNext
  <1>3. Claimed => OneTicketPerSession
    BY ClaimedOne
  <1> QED BY <1>1, <1>2, <1>3, ClaimedInit, PTL DEF Spec

-----------------------------------------------------------------------------
(* One request at a time: what a request read is still so when it commits. *)

Serial == MaxInFlight = 1
Alone == \A p, q \in Slots : req[p] # Idle /\ req[q] # Idle => p = q

\* Only what the operation decided on; the rest of a snapshot may be stale.
Holds(c) ==
  /\ c.op = "autoclose" => \A s \in c.todo \cup c.made : shift[s].real = "none" /\ shift[s].autos = 0
  /\ c.op = "recalc"    => \A t \in c.names \cap Rows : Status(t) \in {"Pending", "Explained"}
  /\ c.op = "explain"   => c.ticket \in Rows /\ Status(c.ticket) \in {"Pending", "Explained"}
  /\ c.op = "appeal"    => c.ticket \in Rows /\ ~ticket[c.ticket].appealed
AllHold == \A r \in Slots : Holds(req[r])

Guarded == {"autoclose", "recalc", "explain", "appeal"}

LEMMA Unguarded ==
  ASSUME NEW c, c.op \notin Guarded
  PROVE  Holds(c) /\ Holds(c)'
  BY DEF Holds, Guarded

\* A request starts when no other runs.
LEMMA Nobody ==
  ASSUME Serial, Typed, Alone, Cardinality(InFlight) < MaxInFlight
  PROVE  \A q \in Slots : req[q] = Idle
  <1>1. InFlight = {}
    <2>1. \A p, q \in InFlight : p = q
      BY DEF Alone, InFlight, Slots, Idle
    <2>2. SUFFICES ASSUME InFlight # {} PROVE FALSE
      OBVIOUS
    <2>3. PICK p : InFlight = {p}
      BY <2>1, <2>2
    <2>4. Cardinality(InFlight) = 1
      BY <2>3, FS_Singleton
    <2> QED BY <2>4 DEF Serial
  <1>2. \A q \in Slots : req[q].op = "idle"
    BY <1>1 DEF InFlight, Slots
  <1> QED BY <1>2 DEF Typed, Shapes, ShapeOf

\* Whoever moves is the one in flight.
LEMMA OnlyOne ==
  ASSUME Typed, Alone, NEW r \in Slots, req[r].op # "idle", NEW q \in Slots, q # r
  PROVE  req[q] = Idle
  BY DEF Alone, Idle

LEMMA HoldsMove ==
  ASSUME Typed, NEW r \in Slots, \A q \in Slots \ {r} : req[q] = Idle,
         NEW c, req' = [req EXCEPT ![r] = c], Holds(c)'
  PROVE  Alone' /\ AllHold'
  <1>1. \A q \in Slots : req'[q] = IF q = r THEN c ELSE Idle
    BY DEF Typed, TypeOK, Slots
  <1>2. Alone'
    BY <1>1 DEF Alone
  <1>3. Holds(Idle)'
    BY Unguarded DEF Idle, Guarded
  <1>4. AllHold'
    <2> SUFFICES ASSUME NEW q \in Slots PROVE Holds(req[q])'
      BY DEF AllHold
    <2>1. CASE q = r
      <3>1. req'[q] = c
        BY <1>1, <2>1
      <3> QED BY <3>1 DEF Holds
    <2>2. CASE q # r
      <3>1. req'[q] = Idle
        BY <1>1, <2>2
      <3> QED BY <1>3, <3>1 DEF Holds
    <2> QED BY <2>1, <2>2
  <1> QED BY <1>2, <1>4

LEMMA HoldsCommit ==
  ASSUME Typed, NEW r \in Slots, \A q \in Slots \ {r} : req[q] = Idle,
         NEW next, NEW T, NEW S, Commit(r, next, T, S), next.op \notin Guarded
  PROVE  Alone' /\ AllHold'
  <1>1. ASSUME NEW q \in Slots PROVE req'[q] = IF q = r THEN next ELSE Idle
    <2>1. CASE q = r
      BY <2>1, Committed DEF Typed
    <2>2. CASE q # r
      <3>1. PICK c : c = req'[q]
        OBVIOUS
      <3>2. Keeps(c, req[q], T)
        BY <2>2, <3>1, CommittedOthers DEF Typed
      <3> QED BY <2>2, <3>1, <3>2 DEF Keeps
    <2> QED BY <2>1, <2>2
  <1>2. Alone'
    BY <1>1 DEF Alone
  <1>3. AllHold'
    <2> SUFFICES ASSUME NEW q \in Slots PROVE Holds(req[q])'
      BY DEF AllHold
    <2>1. req'[q].op \notin Guarded
      BY <1>1 DEF Idle, Guarded
    <2> QED BY <2>1 DEF Holds, Guarded
  <1> QED BY <1>2, <1>3

\* The sessions a transaction means to close have no OUT.
LEMMA OpenHasNoOut ==
  ASSUME TypeOK, NEW s \in OpenSessions
  PROVE  shift[s].real = "none" /\ shift[s].autos = 0
  <1>1. s \in Sessions /\ shift[s] \in Shift /\ LastOut(s) = "none"
    BY DEF OpenSessions, TypeOK
  <1> QED BY <1>1 DEF LastOut, Shift

LEMMA HoldsBegin ==
  ASSUME Names, Serial, Typed, Alone, AllHold, NEW r \in Requests, Begin(r)
  PROVE  Alone' /\ AllHold'
  <1>0. r \in Slots /\ TypeOK
    BY DEF Slots, Typed
  <1>1. PICK call : Called(r, call)
    BY BeginCalls
  <1>2. /\ req' = [req EXCEPT ![r] = call] /\ shift' = shift /\ ticket' = ticket
        /\ \A q \in Slots : req[q] = Idle
    BY <1>1, Nobody DEF Called, StartCall, db
  <1>3. call = req'[r]
    BY <1>0, <1>2 DEF TypeOK, Slots
  <1>4. Holds(call)'
    <2>1. CASE CloseBegin(r)
      <3>1. call = CloseReads(OpenSessions)
        BY <1>0, <1>3, <2>1 DEF CloseBegin, StartCall, TypeOK, Slots
      <3>2. call.op = "autoclose" /\ call.todo = OpenSessions /\ call.made = {}
        BY <3>1 DEF CloseReads, Idle
      <3>3. \A s \in call.todo \cup call.made : shift'[s].real = "none" /\ shift'[s].autos = 0
        BY <1>0, <1>2, <3>2, OpenHasNoOut
      <3> QED BY <3>2, <3>3 DEF Holds
    <2>2. ASSUME NEW s \in Sessions, RecalcBegin(r, s) PROVE Holds(call)'
      <3>1. PICK N : N = {t \in TicketsOf(s) : Status(t) \in {"Pending", "Explained"}}
        OBVIOUS
      <3>2. call = [Idle EXCEPT !.op = "recalc", !.session = s, !.fresh = TRUE, !.last = LastOut(s), !.names = N]
        BY <1>0, <1>3, <2>2, <3>1 DEF RecalcBegin, StartCall, TypeOK, Slots
      <3>3. call.op = "recalc" /\ call.names = N
        BY <3>2 DEF Idle
      <3> QED BY <1>2, <3>1, <3>3 DEF Holds, Status
    <2>3. ASSUME NEW s \in Sessions, CreateBegin(r, s) PROVE Holds(call)'
      <3>1. call.op = "create"
        BY <1>0, <1>3, <2>3 DEF CreateBegin, StartCall, TypeOK, Slots, Idle
      <3> QED BY <3>1, Unguarded DEF Guarded
    <2>4. ASSUME NEW t \in Tickets, ExplainBegin(r, t) PROVE Holds(call)'
      <3>1. call = [Idle EXCEPT !.op = "explain", !.ticket = t]
        BY <1>0, <1>3, <2>4 DEF ExplainBegin, StartCall, TypeOK, Slots
      <3>2. call.op = "explain" /\ call.ticket = t
        BY <3>1 DEF Idle
      <3> QED BY <1>2, <2>4, <3>2 DEF Holds, ExplainBegin, Explainable, Rows, Status
    <2>5. ASSUME NEW t \in Tickets, AppealBegin(r, t) PROVE Holds(call)'
      <3>1. call = [Idle EXCEPT !.op = "appeal", !.ticket = t, !.asks = payroll_calculated]
        BY <1>0, <1>3, <2>5 DEF AppealBegin, StartCall, TypeOK, Slots
      <3>2. call.op = "appeal" /\ call.ticket = t
        BY <3>1 DEF Idle
      <3> QED BY <1>2, <2>5, <3>2 DEF Holds, AppealBegin, Appealable, Rows
    <2>6. ASSUME NEW t \in Tickets, DeleteBegin(r, t) PROVE Holds(call)'
      <3>1. call.op = "delete"
        BY <1>0, <1>3, <2>6 DEF DeleteBegin, StartCall, TypeOK, Slots, Idle
      <3> QED BY <3>1, Unguarded DEF Guarded
    <2>7. ASSUME NEW t \in Tickets, NEW act \in HRActions, HRBegin(r, t, act) PROVE Holds(call)'
      <3>1. call.op = act
        BY <1>0, <1>3, <2>7 DEF HRBegin, StartCall, TypeOK, Slots, Idle
      <3> QED BY <3>1, Unguarded DEF Guarded, HRActions
    <2>8. CASE PayrollReads(r)
      <3>1. call.op = "calculate"
        BY <1>0, <1>3, <2>8 DEF PayrollReads, StartCall, TypeOK, Slots, Idle
      <3> QED BY <3>1, Unguarded DEF Guarded
    <2> QED BY <2>1, <2>2, <2>3, <2>4, <2>5, <2>6, <2>7, <2>8 DEF Begin
  <1> QED BY <1>0, <1>2, <1>4, HoldsMove

LEMMA HoldsClosing ==
  ASSUME Names, Serial, Typed, Alone, AllHold, NEW r \in Slots, Closing(r) \/ Abort(r)
  PROVE  Alone' /\ AllHold'
  <1>0. TypeOK /\ req[r] \in Request /\ Holds(req[r]) /\ ShapeOf(req[r])
    BY DEF Typed, TypeOK, Slots, AllHold, Shapes
  <1>1. \A q \in Slots \ {r} : req[q] = Idle
    BY OnlyOne DEF Closing, CloseNext, CloseFails, CloseCommit, Abort, Alone
  <1>2. CASE CloseNext(r)
    <2>1. PICK s : s = Next_(r)
      OBVIOUS
    <2>2. PICK K : K = IF Claims(r, s) THEN {s} ELSE {}
      OBVIOUS
    <2>3. PICK c : c = [req[r] EXCEPT !.todo = @ \ {s}, !.held = @ \cup K, !.made = @ \cup (K \ req[r].ticketed)]
      OBVIOUS
    <2>4. req' = [req EXCEPT ![r] = c] /\ shift' = shift /\ req[r].op = "autoclose" /\ req[r].todo # {}
      BY <1>0, <1>2, <2>1, <2>2, <2>3 DEF CloseNext, db, TypeOK, Slots
    <2>5. s \in req[r].todo
      <3>1. req[r].todo \subseteq Nat /\ IsFiniteSet(req[r].todo)
        BY <1>0, FS_Subset DEF Request, Names
      <3>2. \E x \in req[r].todo : \A q \in req[r].todo : x <= q
        BY <2>4, <3>1, LeastOf
      <3> QED BY <2>1, <3>2 DEF Next_
    <2>6. c.op = "autoclose" /\ c.todo \cup c.made \subseteq req[r].todo \cup req[r].made
      BY <1>0, <2>2, <2>3, <2>4, <2>5 DEF Request
    <2>7. Holds(c)'
      BY <1>0, <2>4, <2>6 DEF Holds
    <2> QED BY <1>1, <2>4, <2>7, HoldsMove
  <1>3. CASE CloseFails(r)
    <2>1. PICK c : c = CloseReads(req[r].todo \ {Next_(r)})
      OBVIOUS
    <2>2. req' = [req EXCEPT ![r] = c] /\ shift' = shift /\ req[r].op = "autoclose"
      BY <1>3, <2>1 DEF CloseFails, db
    <2>3. c.op = "autoclose" /\ c.todo \cup c.made \subseteq req[r].todo
      BY <2>1 DEF CloseReads, Idle
    <2>4. Holds(c)'
      BY <1>0, <2>2, <2>3 DEF Holds
    <2> QED BY <1>1, <2>2, <2>4, HoldsMove
  <1>4. CASE CloseCommit(r)
    <2>1. PICK c : c = IF r \in Jobs THEN [Idle EXCEPT !.op = "expire"] ELSE Idle
      OBVIOUS
    <2>2. Commit(r, c, {}, {}) /\ c.op \notin Guarded
      BY <1>4, <2>1 DEF CloseCommit, Idle, Guarded
    <2> QED BY <1>1, <2>2, HoldsCommit
  <1>5. CASE Abort(r)
    <2>1. req' = [req EXCEPT ![r] = Idle] /\ Holds(Idle)'
      BY <1>5, Unguarded DEF Abort, Idle, Guarded
    <2> QED BY <1>1, <2>1, HoldsMove
  <1> QED BY <1>2, <1>3, <1>4, <1>5 DEF Closing

LEMMA HoldsHourly ==
  ASSUME Names, Serial, Typed, Alone, AllHold, NEW j \in Jobs, HourlyJob(j)
  PROVE  Alone' /\ AllHold'
  <1>0. j \in Slots /\ TypeOK
    BY DEF Slots, Typed
  <1>1. CASE TickBegin(j)
    <2>1. PICK c : c = CloseReads(OpenSessions)
      OBVIOUS
    <2>2. /\ req' = [req EXCEPT ![j] = c] /\ shift' = shift
          /\ \A q \in Slots : req[q] = Idle
      BY <1>1, <2>1, Nobody DEF TickBegin, StartCall
    <2>3. c.op = "autoclose" /\ c.todo = OpenSessions /\ c.made = {}
      BY <2>1 DEF CloseReads, Idle
    <2>4. \A s \in c.todo \cup c.made : shift'[s].real = "none" /\ shift'[s].autos = 0
      BY <1>0, <2>2, <2>3, OpenHasNoOut
    <2>5. Holds(c)'
      BY <2>3, <2>4 DEF Holds
    <2> QED BY <1>0, <2>2, <2>5, HoldsMove
  <1>2. CASE ~TickBegin(j)
    <2>1. \A q \in Slots \ {j} : req[q] = Idle
      BY <1>0, <1>2, OnlyOne DEF HourlyJob, PenaliseBegin, PenaliseOne, TickEnd
    <2>2. CASE PenaliseBegin(j)
      <3>1. PICK c : c = [Idle EXCEPT !.op = "penalising", !.names = Expired]
        OBVIOUS
      <3>2. req' = [req EXCEPT ![j] = c] /\ c.op \notin Guarded
        BY <2>2, <3>1 DEF PenaliseBegin, Idle, Guarded
      <3>3. Holds(c)'
        BY <3>2, Unguarded
      <3> QED BY <1>0, <2>1, <3>2, <3>3, HoldsMove
    <2>3. ASSUME NEW t \in Tickets, PenaliseOne(j, t) PROVE Alone' /\ AllHold'
      <3>1. PICK left : left = [req[j] EXCEPT !.names = @ \ {t}]
        OBVIOUS
      <3>2. left.op \notin Guarded
        BY <1>0, <2>3, <3>1 DEF PenaliseOne, TypeOK, Slots, Request, Guarded
      <3>3. PICK T : Commit(j, left, T, {})
        BY <2>3, <3>1 DEF PenaliseOne
      <3> QED BY <1>0, <2>1, <3>2, <3>3, HoldsCommit
    <2>4. CASE TickEnd(j)
      <3>1. req' = [req EXCEPT ![j] = Idle] /\ Holds(Idle)'
        BY <2>4, Unguarded DEF TickEnd, Idle, Guarded
      <3> QED BY <1>0, <2>1, <3>1, HoldsMove
    <2> QED BY <1>2, <2>2, <2>3, <2>4 DEF HourlyJob
  <1> QED BY <1>1, <1>2

LEMMA HoldsNext ==
  ASSUME Names, Serial, Typed, Alone, AllHold, [Next]_vars
  PROVE  Alone' /\ AllHold'
  <1>0. TypeOK
    BY DEF Typed
  <1>1. CASE UNCHANGED vars
    BY <1>1 DEF vars, Alone, AllHold, Holds, Rows, Status
  <1>2. CASE Elsewhere
    <2>1. req' = req
      BY <1>2 DEF Elsewhere, World, ShiftEnds, Punch, GraceExpires, LockExpires, PayrollClaim, PayrollApprove,
         PayrollGenerate, PayrollPublish, PeriodStep
    <2>2. Alone'
      BY <2>1 DEF Alone
    <2>3. CASE \A q \in Slots : req[q] = Idle
      BY <2>1, <2>2, <2>3 DEF AllHold, Holds, Idle
    <2>4. CASE ~(\A q \in Slots : req[q] = Idle)
      <3>1. ASSUME NEW s \in Sessions, Punch(s) PROVE FALSE
        BY <2>4, <3>1, Nobody DEF Punch
      <3>2. \A s \in Sessions : shift'[s].real = shift[s].real /\ shift'[s].autos = shift[s].autos
        <4>1. ASSUME NEW s \in Sessions, ShiftEnds(s)
              PROVE  \A q \in Sessions : shift'[q].real = shift[q].real /\ shift'[q].autos = shift[q].autos
          BY <1>0, <4>1 DEF ShiftEnds, TypeOK, Shift
        <4>2. shift' = shift \/ \E s \in Sessions : ShiftEnds(s)
          BY <1>2, <3>1 DEF Elsewhere, World, GraceExpires, LockExpires, PayrollClaim, PayrollApprove,
             PayrollGenerate, PayrollPublish, PeriodStep
        <4> QED BY <4>1, <4>2
      <3>3. \A t \in Tickets : ticket'[t].status = ticket[t].status /\ (t \in Rows => ticket'[t].appealed = ticket[t].appealed)
        <4>1. CASE \E u \in Tickets : GraceExpires(u)
          <5>1. PICK u \in Tickets : GraceExpires(u)
            BY <4>1
          <5>2. PICK row : row = [ticket[u] EXCEPT !.expired = TRUE]
            OBVIOUS
          <5>3. row.status = ticket[u].status /\ row.appealed = ticket[u].appealed
            BY <1>0, <5>1, <5>2, RowTyped DEF GraceExpires, Ticket
          <5>4. ticket' = [ticket EXCEPT ![u] = row]
            BY <5>1, <5>2 DEF GraceExpires, Put
          <5> QED BY <1>0, <5>3, <5>4 DEF TypeOK
        <4>2. CASE ~(\E u \in Tickets : GraceExpires(u))
          BY <1>2, <4>2 DEF Elsewhere, World, ShiftEnds, Punch, LockExpires, PayrollClaim, PayrollApprove,
             PayrollGenerate, PayrollPublish, PeriodStep
        <4> QED BY <4>1, <4>2
      <3>4. AllHold'
        <4> SUFFICES ASSUME NEW q \in Slots PROVE Holds(req[q])'
          BY DEF AllHold
        <4>1. Holds(req[q]) /\ req[q] \in Request /\ req'[q] = req[q]
          BY <1>0, <2>1 DEF AllHold, TypeOK, Slots
        <4>2. req[q].todo \subseteq Sessions /\ req[q].made \subseteq Sessions /\ req[q].names \subseteq Tickets
          BY <4>1 DEF Request
        <4> QED BY <3>2, <3>3, <4>1, <4>2 DEF Holds, Rows, Status
      <3> QED BY <2>2, <3>4
    <2> QED BY <2>3, <2>4
  <1>3. ASSUME NEW r \in Requests, Finish(r) PROVE Alone' /\ AllHold'
    <2>1. PICK T, S : Commit(r, Idle, T, S)
      BY <1>3, FinishWrites
    <2>2. \A q \in Slots \ {r} : req[q] = Idle
      BY <1>3, OnlyOne DEF Slots, Finish, RecalcCommit, HRCommit, ExplainCommit, AppealCommit, CreateCommit,
         DeleteCommit, PayrollCalculated, HRActions
    <2> QED BY <2>1, <2>2, HoldsCommit DEF Slots, Idle, Guarded
  <1> QED BY <1>1, <1>2, <1>3, HoldsBegin, HoldsClosing, HoldsHourly, Steps

Settled == Typed /\ NamesUndecided /\ Alone /\ AllHold

LEMMA SettledAlways == ASSUME Names, Serial PROVE Spec => []Settled
  <1>1. Init => Alone /\ AllHold
    BY DEF Init, Alone, AllHold, Holds, Idle, Slots
  <1>2. Typed /\ NamesUndecided /\ Alone /\ AllHold /\ [Next]_vars => (Alone /\ AllHold)'
    BY HoldsNext
  <1> QED BY <1>1, <1>2, UndecidedAlways, PTL DEF Spec, Settled

\* What the status and the appeal of a written row are.
LEMMA RowWrites ==
  ASSUME NEW row \in Ticket
  PROVE  /\ \A v \in Statuses : /\ [row EXCEPT !.status = v].status = v
                                /\ [row EXCEPT !.status = v].appealed = row.appealed
         /\ [row EXCEPT !.expired = TRUE].status = row.status
         /\ [row EXCEPT !.expired = TRUE].appealed = row.appealed
         /\ [row EXCEPT !.status = "Explained", !.appealed = TRUE].status = "Explained"
         /\ [row EXCEPT !.status = "Explained", !.appealed = TRUE].appealed = TRUE
  BY DEF Ticket

\* A decided ticket changes by a request of HR, by an appeal or with its row.
LEMMA StandsStep ==
  ASSUME Names, Settled, [Next]_vars
  PROVE  Stands
  <1> SUFFICES ASSUME NEW t \in Rows, Status(t) \in {"Waived", "Penalised", "Closed"},
                      ticket'[t].status # Status(t)
               PROVE  \E r \in Requests : /\ req[r].ticket = t /\ req'[r] = Idle
                                          /\ req[r].op \in HRActions \cup {"appeal", "delete"}
    BY DEF Stands
  <1>0. TypeOK /\ Typed /\ t \in Tickets /\ ticket[t] \in Ticket
    BY RowTyped DEF Settled, Typed
  <1>1. RowStep(t)
    BY <1>0, TicketSteps DEF TicketStep, RowStep, Unused, NoTicket, Rows, Statuses
  <1>2. ticket'[t] # ticket[t] /\ ticket'[t] # [ticket[t] EXCEPT !.expired = TRUE]
    BY <1>0, RowWrites DEF Status
  <1>3. ASSUME NEW r \in Requests, NEW T, NEW S, Commit(r, Idle, T, S) PROVE req'[r] = Idle
    BY <1>0, <1>3, Committed DEF Slots
  <1>4. ASSUME NEW r \in Requests, Decided(r, t)
        PROVE  req[r].ticket = t /\ req'[r] = Idle /\ req[r].op \in HRActions
    BY <1>3, <1>4 DEF Decided, HRCommit
  <1>5. ASSUME NEW r \in Requests, Contested(r, t)
        PROVE  req[r].ticket = t /\ req'[r] = Idle /\ req[r].op = "appeal"
    BY <1>3, <1>5 DEF Contested, AppealCommit
  <1>6. ASSUME NEW r \in Requests, Dropped(r, t)
        PROVE  req[r].ticket = t /\ req'[r] = Idle /\ req[r].op = "delete"
    BY <1>3, <1>6 DEF Dropped, DeleteCommit
  <1>7. ASSUME NEW r \in Requests PROVE Holds(req[r])
    BY DEF Settled, AllHold, Slots
  <1>8. ASSUME NEW r \in Requests, Answered(r, t) PROVE FALSE
    BY <1>7, <1>8 DEF Answered, ExplainCommit, Holds
  <1>9. ASSUME NEW r \in Requests, Resolves(r, t) PROVE FALSE
    BY <1>7, <1>9 DEF Resolves, RecalcCommit, Holds
  <1>10. ASSUME NEW j \in Jobs, Overdue(j, t) PROVE FALSE
    <2>1. Status(t) \in {"Pending", "Penalised"}
      BY <1>10 DEF Overdue, PenaliseOne, Settled, NamesUndecided, Undecided, Slots
    <2>2. ticket'[t].status = "Penalised"
      BY <1>0, <1>10, RowWrites DEF Overdue, Statuses
    <2> QED BY <2>1, <2>2
  <1> QED BY <1>1, <1>2, <1>4, <1>5, <1>6, <1>8, <1>9, <1>10 DEF RowStep

\* One request at a time: a decided ticket (waived, penalised, closed) changes its status
\* only by a request of HR, an appeal or its deletion, never by an explanation, the
\* hourly job or a recalculation (_auto_resolve_checkout_miss, submit_explanation).
THEOREM DecidedStays == ASSUME Names, Serial PROVE Spec => DecisionStands
  <1>1. Settled /\ [Next]_vars => [Stands]_vars
    BY StandsStep
  <1> QED BY <1>1, SettledAlways, PTL DEF Spec, DecisionStands

\* Only a transaction that closes a session writes an OUT log of the engine.
LEMMA AutosStep ==
  ASSUME Names, Typed, [Next]_vars, NEW s \in Sessions, shift'[s].autos # shift[s].autos
  PROVE  \E r \in Slots : CloseCommit(r) /\ s \in req[r].made /\ shift'[s].autos = shift[s].autos + 1
  <1>0. TypeOK /\ shift \in [Sessions -> Shift]
    BY DEF Typed, TypeOK
  <1>1. CASE \A r \in Slots : ~CloseNext(r) /\ ~CloseCommit(r)
    <2>1. ~SameShifts
      BY DEF SameShifts
    <2>2. PICK r \in Requests : RecalcCommit(r)
      BY <1>1, <2>1, OthersKeep
    <2>3. PICK f, o : shift' = [shift EXCEPT ![req[r].session].flag = f, ![req[r].session].out = o]
      BY <2>2 DEF RecalcCommit
    <2>4. shift'[s].autos = shift[s].autos
      BY <1>0, <2>3 DEF Shift
    <2> QED BY <2>4
  <1>2. ASSUME NEW r \in Slots, CloseNext(r) PROVE FALSE
    BY <1>2 DEF CloseNext, db
  <1>3. ASSUME NEW r \in Slots, CloseCommit(r)
        PROVE  CloseCommit(r) /\ s \in req[r].made /\ shift'[s].autos = shift[s].autos + 1
    <2>1. shift'[s].autos = IF s \in req[r].made THEN shift[s].autos + 1 ELSE shift[s].autos
      BY <1>0, <1>3, CloseShifts
    <2> QED BY <1>3, <2>1
  <1> QED BY <1>1, <1>2, <1>3

\* One request at a time: no OUT of the engine is put on top of one the employee made
\* (FINDING-P1, run_auto_checkout).
THEOREM NoSecondOut == ASSUME Names, Serial PROVE Spec => NoDoubleOut
  <1>1. Settled /\ [Next]_vars => [OutOverNone]_vars
    <2> SUFFICES ASSUME Settled, [Next]_vars, NEW s \in Sessions, shift'[s].autos > shift[s].autos
                 PROVE  shift[s].real = "none"
      BY DEF OutOverNone
    <2>1. shift[s].autos \in Nat
      BY DEF Settled, Typed, TypeOK, Shift
    <2>2. PICK r \in Slots : CloseCommit(r) /\ s \in req[r].made
      BY <2>1, AutosStep DEF Settled
    <2>3. Holds(req[r])
      BY DEF Settled, AllHold
    <2> QED BY <2>2, <2>3 DEF CloseCommit, Holds
  <1> QED BY <1>1, SettledAlways, PTL DEF Spec, NoDoubleOut

\* A session without an OUT log of the engine has no ticket of it.
OnceEach ==
  /\ \A s \in Sessions : shift[s].autos <= 1
  /\ \A t \in Rows : Engine(t) => shift[ticket[t].session].autos > 0
  /\ OneEach

LEMMA OnceNext ==
  ASSUME Names, Settled, OnceEach, [Next]_vars
  PROVE  OnceEach'
  <1>0. Typed /\ TypeOK /\ shift \in [Sessions -> Shift]
    BY DEF Settled, Typed, TypeOK
  <1>1. \A s \in Sessions : shift[s].autos \in Nat /\ shift[s].autos <= 1
    BY <1>0 DEF OnceEach, Shift
  <1>2. \A s \in Sessions : shift'[s].autos <= 1 /\ (shift[s].autos > 0 => shift'[s].autos > 0)
    <2> SUFFICES ASSUME NEW s \in Sessions
                 PROVE  shift'[s].autos <= 1 /\ (shift[s].autos > 0 => shift'[s].autos > 0)
      OBVIOUS
    <2>1. CASE shift'[s].autos = shift[s].autos
      BY <1>1, <2>1
    <2>2. CASE shift'[s].autos # shift[s].autos
      <3>1. PICK r \in Slots : CloseCommit(r) /\ s \in req[r].made /\ shift'[s].autos = shift[s].autos + 1
        BY <1>0, <2>2, AutosStep
      <3>2. shift[s].autos = 0
        BY <3>1 DEF Settled, AllHold, Holds, CloseCommit
      <3> QED BY <3>1, <3>2
    <2> QED BY <2>1, <2>2
  <1>3. CASE \A r \in Slots : ~CloseCommit(r)
    <2>1. ASSUME NEW t \in Tickets, ticket'[t].status \in Statuses, ~ticket'[t].manual
          PROVE  t \in Rows /\ Engine(t) /\ ticket'[t].session = ticket[t].session /\ ticket[t].session \in Sessions
      <3>1. t \in Rows /\ Engine(t) /\ ticket'[t].session = ticket[t].session
        BY <1>0, <1>3, <2>1, EngineKept
      <3> QED BY <1>0, <3>1, RowTyped DEF Ticket
    <2>2. ASSUME NEW t \in Tickets, ticket'[t].status \in Statuses, ~ticket'[t].manual
          PROVE  shift'[ticket'[t].session].autos > 0
      BY <1>2, <2>1, <2>2 DEF OnceEach
    <2>3. ASSUME NEW t \in Tickets, ticket'[t].status \in Statuses, ~ticket'[t].manual,
                 NEW u \in Tickets, ticket'[u].status \in Statuses, ~ticket'[u].manual,
                 ticket'[t].session = ticket'[u].session
          PROVE  t = u
      BY <2>1, <2>3 DEF OnceEach, OneEach
    <2> QED BY <1>2, <2>2, <2>3 DEF OnceEach, OneEach, Rows, Engine
  <1>4. ASSUME NEW r \in Slots, CloseCommit(r) PROVE OnceEach'
    <2>1. PICK made : made = req[r].made
      OBVIOUS
    <2>2. PICK New : New = NewTickets(Cardinality(made))
      OBVIOUS
    <2>3. RaisedRows(made, New)
      BY <1>0, <1>4, <2>1, <2>2, CloseWrites
    <2>4. \A s \in made : s \in Sessions /\ shift[s].autos = 0
      BY <1>4, <2>1, <2>3 DEF Settled, AllHold, Holds, CloseCommit, RaisedRows
    <2>5. \A s \in made : shift'[s].autos > 0
      <3> SUFFICES ASSUME NEW s \in made PROVE shift'[s].autos > 0
        OBVIOUS
      <3>1. shift'[s].autos = IF s \in req[r].made THEN shift[s].autos + 1 ELSE shift[s].autos
        BY <1>0, <1>4, <2>4, CloseShifts
      <3> QED BY <2>1, <2>4, <3>1
    <2>6. ASSUME NEW t \in Tickets, ticket'[t].status \in Statuses, ~ticket'[t].manual
          PROVE  \/ t \in New /\ ticket'[t].session = For(made, t) /\ For(made, t) \in made
                 \/ /\ t \in Rows /\ t \notin New /\ Engine(t) /\ ticket'[t] = ticket[t]
                    /\ ticket[t].session \in Sessions /\ shift[ticket[t].session].autos > 0
      <3>1. CASE t \in New
        <4>1. PICK n \in Nat : ticket'[t] = RaisedTicket(For(made, t), FALSE, n)
          BY <2>3, <3>1 DEF RaisedRows
        <4>2. ticket'[t].session = For(made, t)
          BY <4>1 DEF RaisedTicket
        <4> QED BY <2>3, <3>1, <4>2 DEF RaisedRows
      <3>2. CASE t \notin New
        <4>1. ticket'[t] = ticket[t]
          BY <2>3, <3>2 DEF RaisedRows
        <4>2. t \in Rows /\ Engine(t)
          BY <2>6, <4>1 DEF Rows, Engine
        <4>3. ticket[t].session \in Sessions
          BY <1>0, <4>2, RowTyped DEF Ticket
        <4> QED BY <3>2, <4>1, <4>2, <4>3 DEF OnceEach
      <3> QED BY <3>1, <3>2
    <2>7. ASSUME NEW t \in Tickets, ticket'[t].status \in Statuses, ~ticket'[t].manual
          PROVE  shift'[ticket'[t].session].autos > 0
      BY <1>2, <2>5, <2>6, <2>7
    <2>8. ASSUME NEW t \in Tickets, ticket'[t].status \in Statuses, ~ticket'[t].manual,
                 NEW u \in Tickets, ticket'[u].status \in Statuses, ~ticket'[u].manual,
                 ticket'[t].session = ticket'[u].session
          PROVE  t = u
      <3>1. CASE t \in New /\ u \in New
        <4>1. For(made, t) = For(made, u)
          BY <2>6, <2>8, <3>1
        <4> QED BY <2>3, <3>1, <4>1 DEF RaisedRows
      <3>2. CASE t \notin New /\ u \notin New
        BY <2>6, <2>8, <3>2 DEF OnceEach, OneEach
      <3>3. CASE t \in New /\ u \notin New
        <4>1. ticket'[t].session \in made /\ shift[ticket'[u].session].autos > 0
          BY <2>6, <2>8, <3>3
        <4>2. shift[ticket'[t].session].autos = 0
          BY <2>4, <4>1
        <4> QED BY <2>8, <4>1, <4>2
      <3>4. CASE t \notin New /\ u \in New
        <4>1. ticket'[u].session \in made /\ shift[ticket'[t].session].autos > 0
          BY <2>6, <2>8, <3>4
        <4>2. shift[ticket'[u].session].autos = 0
          BY <2>4, <4>1
        <4> QED BY <2>8, <4>1, <4>2
      <3> QED BY <3>1, <3>2, <3>3, <3>4
    <2> QED BY <1>2, <2>7, <2>8 DEF OnceEach, OneEach, Rows, Engine
  <1> QED BY <1>3, <1>4

\* One request at a time, recalculations included: a session gets one OUT log of the
\* engine and one ticket of it, however often its flag is taken back.
THEOREM SessionClosedOnceAlone == ASSUME Names, Serial PROVE Spec => []OneTicketPerSession
  <1>1. Init => OnceEach
    <2> SUFFICES ASSUME Init PROVE OnceEach
      OBVIOUS
    <2>1. Rows = {} /\ \A s \in Sessions : shift[s].autos = 0
      BY DEF Init, Rows, NoTicket, Statuses
    <2> QED BY <2>1 DEF OnceEach, OneEach
  <1>2. Settled /\ OnceEach /\ [Next]_vars => OnceEach'
    BY OnceNext
  <1>3. OnceEach => OneTicketPerSession
    <2> SUFFICES ASSUME OnceEach, NEW s \in Sessions
                 PROVE  Cardinality({t \in TicketsOf(s) : Engine(t)}) <= 1 /\ shift[s].autos <= 1
      BY DEF OneTicketPerSession
    <2>1. \A x, y \in {t \in TicketsOf(s) : Engine(t)} : x = y
      BY DEF OnceEach, OneEach, TicketsOf
    <2> QED BY <2>1, AtMostOne DEF OnceEach
  <1> QED BY <1>1, <1>2, <1>3, SettledAlways, PTL DEF Spec

\* The ticket shows that an appeal was accepted.
AppealsShow == \A t \in Tickets : /\ appeals[t] <= 1
                                  /\ t \in Unused => appeals[t] = 0
                                  /\ t \in Rows /\ appeals[t] = 1 => ticket[t].appealed

LEMMA AppealedStays ==
  ASSUME TypeOK, NEW t \in Rows, RowStep(t), ticket'[t].status # "Deleted", ticket[t].appealed
  PROVE  ticket'[t].appealed
  <1>1. t \in Tickets /\ ticket[t] \in Ticket
    BY RowTyped
  <1>2. \A act \in HRActions : \A row \in Resolved(act, ticket[t]) : row.appealed = ticket[t].appealed
    <2> SUFFICES ASSUME NEW act \in HRActions, NEW row \in Resolved(act, ticket[t])
                 PROVE  row.appealed = ticket[t].appealed
      OBVIOUS
    <2>1. CASE act = "penalise"
      <3>1. PICK f \in BOOLEAN : row = [ticket[t] EXCEPT !.status = "Penalised", !.waived = FALSE, !.fined = f]
        BY <2>1 DEF Resolved
      <3> QED BY <1>1, <3>1 DEF Ticket
    <2>2. CASE act # "penalise"
      BY <1>1, <2>2 DEF Resolved, Extended, Reopened, HRActions, Ticket
    <2> QED BY <2>1, <2>2
  <1>3. ASSUME NEW r \in Requests, Decided(r, t) PROVE ticket'[t].appealed
    BY <1>2, <1>3 DEF Decided, HRCommit
  <1>4. ASSUME NEW r \in Requests, Dropped(r, t) PROVE FALSE
    BY <1>4 DEF Dropped, Deleted
  <1>5. CASE \E r \in Requests : Answered(r, t) \/ Contested(r, t) \/ Resolves(r, t)
    <2>1. [ticket[t] EXCEPT !.status = "Explained"].appealed = ticket[t].appealed
      BY <1>1 DEF Ticket
    <2>2. [ticket[t] EXCEPT !.status = "Closed"].appealed = ticket[t].appealed
      BY <1>1 DEF Ticket
    <2>3. [ticket[t] EXCEPT !.status = "Explained", !.appealed = TRUE].appealed
      BY <1>1 DEF Ticket
    <2> QED BY <1>5, <2>1, <2>2, <2>3 DEF Answered, Contested, Resolves
  <1>6. CASE \E j \in Jobs : Overdue(j, t)
    BY <1>1, <1>6, RowWrites DEF Overdue, Statuses
  <1>7. CASE ticket'[t] = [ticket[t] EXCEPT !.expired = TRUE]
    BY <1>1, <1>7, RowWrites
  <1> QED BY <1>3, <1>4, <1>5, <1>6, <1>7 DEF RowStep

LEMMA AppealsNext ==
  ASSUME Names, Settled, AppealsShow, [Next]_vars
  PROVE  AppealsShow'
  <1>0. Typed /\ TypeOK /\ appeals \in [Tickets -> Nat]
    BY DEF Settled, Typed, TypeOK
  <1>1. ASSUME NEW t \in Tickets, ticket'[t] = NoTicket PROVE ticket[t] = NoTicket
    <2>1. TicketStep(t)
      BY <1>0, TicketSteps
    <2>2. CASE t \in Rows
      <3>1. ticket'[t].status = "None" /\ NoTicket \notin Ticket
        BY <1>1 DEF NoTicket, Ticket, Statuses
      <3>2. RowStep(t)
        BY <2>1, <2>2 DEF TicketStep, RowStep, Unused, Rows, NoTicket, Statuses
      <3> QED BY <1>0, <1>1, <2>2, <3>1, <3>2, RowSame
    <2> QED BY <1>1, <2>1, <2>2 DEF TicketStep, Unused
  <1>2. ASSUME NEW t \in Tickets, ticket'[t].status \in Statuses
        PROVE  \/ t \in Rows /\ (ticket[t].appealed => ticket'[t].appealed)
               \/ t \in Unused
    <2>1. TicketStep(t)
      BY <1>0, TicketSteps
    <2>2. CASE t \in Rows
      <3>1. RowStep(t)
        BY <2>1, <2>2 DEF TicketStep, RowStep, Unused, Rows, NoTicket, Statuses
      <3> QED BY <1>0, <1>2, <2>2, <3>1, AppealedStays DEF Statuses
    <2> QED BY <1>2, <2>1, <2>2 DEF TicketStep, Unused, Rows
  <1>3. CASE appeals' = appeals
    <2> SUFFICES ASSUME NEW t \in Tickets
                 PROVE  /\ appeals'[t] <= 1
                        /\ ticket'[t] = NoTicket => appeals'[t] = 0
                        /\ ticket'[t].status \in Statuses /\ appeals'[t] = 1 => ticket'[t].appealed
      BY DEF AppealsShow, Unused, Rows
    <2>1. /\ appeals[t] <= 1 /\ (ticket[t] = NoTicket => appeals[t] = 0)
          /\ (t \in Rows /\ appeals[t] = 1 => ticket[t].appealed) /\ (t \in Unused => appeals[t] = 0)
      BY DEF AppealsShow, Unused
    <2> QED BY <1>1, <1>2, <1>3, <2>1
  <1>4. ASSUME NEW r \in Requests, AppealCommit(r) PROVE AppealsShow'
    <2>1. PICK u : u = req[r].ticket
      OBVIOUS
    <2>2. u \in Rows /\ ~ticket[u].appealed
      BY <1>4, <2>1 DEF Settled, AllHold, Holds, Slots, AppealCommit
    <2>3. u \in Tickets /\ ticket[u] \in Ticket /\ appeals[u] = 0
      <3>1. u \in Tickets /\ ticket[u] \in Ticket
        BY <1>0, <2>2, RowTyped
      <3>2. appeals[u] \in Nat /\ appeals[u] <= 1 /\ appeals[u] # 1
        BY <1>0, <2>2, <3>1 DEF AppealsShow
      <3> QED BY <3>1, <3>2
    <2>4. /\ appeals' = [appeals EXCEPT ![u] = appeals[u] + 1]
          /\ ticket' = [ticket EXCEPT ![u] = [ticket[u] EXCEPT !.status = "Explained", !.appealed = TRUE]]
      BY <1>0, <1>4, <2>1, <2>3 DEF AppealCommit, Put
    <2>5. appeals'[u] = 1 /\ \A t \in Tickets \ {u} : appeals'[t] = appeals[t]
      BY <1>0, <2>3, <2>4
    <2>6. ticket'[u].appealed = TRUE /\ ticket'[u].status = "Explained"
      BY <1>0, <2>3, <2>4, RowWrites DEF TypeOK
    <2> SUFFICES ASSUME NEW t \in Tickets
                 PROVE  /\ appeals'[t] <= 1
                        /\ ticket'[t] = NoTicket => appeals'[t] = 0
                        /\ ticket'[t].status \in Statuses /\ appeals'[t] = 1 => ticket'[t].appealed
      BY DEF AppealsShow, Unused, Rows
    <2>7. CASE t = u
      BY <2>5, <2>6, <2>7 DEF NoTicket
    <2>8. CASE t # u
      <3>1. /\ appeals[t] <= 1 /\ (ticket[t] = NoTicket => appeals[t] = 0)
            /\ (t \in Rows /\ appeals[t] = 1 => ticket[t].appealed) /\ (t \in Unused => appeals[t] = 0)
        BY DEF AppealsShow, Unused
      <3> QED BY <1>1, <1>2, <2>5, <2>8, <3>1
    <2> QED BY <2>7, <2>8
  <1>5. appeals' = appeals \/ \E r \in Requests : AppealCommit(r)
    <2>1. Elsewhere => appeals' = appeals
      BY DEF Elsewhere, World, ShiftEnds, Punch, GraceExpires, LockExpires, PayrollClaim, PayrollApprove,
         PayrollGenerate, PayrollPublish, PeriodStep
    <2>2. ASSUME NEW r \in Requests, Begin(r) PROVE appeals' = appeals
      BY <1>0, <2>2, BeginCalls DEF Called, db
    <2>3. ASSUME NEW r \in Requests, Finish(r), ~AppealCommit(r) PROVE appeals' = appeals
      BY <2>3 DEF Finish, RecalcCommit, HRCommit, ExplainCommit, CreateCommit, DeleteCommit, PayrollCalculated
    <2>4. ASSUME NEW r \in Slots, Closing(r) \/ Abort(r) PROVE appeals' = appeals
      BY <2>4 DEF Closing, CloseNext, CloseFails, CloseCommit, Abort, db
    <2>5. ASSUME NEW j \in Jobs, HourlyJob(j) PROVE appeals' = appeals
      BY <2>5 DEF HourlyJob, TickBegin, PenaliseBegin, PenaliseOne, TickEnd, db
    <2>6. UNCHANGED vars => appeals' = appeals
      BY DEF vars
    <2> QED BY <2>1, <2>2, <2>3, <2>4, <2>5, <2>6, Steps
  <1> QED BY <1>3, <1>4, <1>5

\* One request at a time: one appeal against a ticket (appeal_checkout_miss).
THEOREM AppealedOnce == ASSUME Names, Serial PROVE Spec => []OneAppeal
  <1>1. Init => AppealsShow
    BY DEF Init, AppealsShow, Rows, NoTicket, Statuses
  <1>2. Settled /\ AppealsShow /\ [Next]_vars => AppealsShow'
    BY AppealsNext
  <1>3. AppealsShow => OneAppeal
    BY DEF AppealsShow, OneAppeal
  <1> QED BY <1>1, <1>2, <1>3, SettledAlways, PTL DEF Spec

-----------------------------------------------------------------------------
(* The deduction of the payroll line.  The hourly job penalises and a manual ticket is   *)
(* deleted without asking for a recalculation: both are left out.                        *)

Asking == Serial /\ Jobs = {} /\ "delete" \notin Ops

Due(t) == t \in Rows /\ Status(t) = "Penalised" /\ ~ticket[t].waived /\ ticket[t].fined

\* The requests that write what the payroll deducts.
Charging == (HRActions \ {"extend"}) \cup {"appeal"}
HoldsPay(c) ==
  /\ c.op = "calculate" => c.count = PenaltyDue
  /\ c.op \in Charging /\ period.status \in {"Calculated", "Approved"} => c.asks
Paid == DeductionIsCurrent /\ \A r \in Slots : HoldsPay(req[r])

LEMMA DueSame ==
  ASSUME \A t \in Tickets : Due(t)' <=> Due(t)
  PROVE  PenaltyDue' = PenaltyDue
  <1>1. /\ {t \in Rows : Status(t) = "Penalised" /\ ~ticket[t].waived /\ ticket[t].fined}
             = {t \in Tickets : Due(t)}
    BY DEF Due, Rows
  <1>2. /\ {t \in Rows' : Status(t)' = "Penalised" /\ ~ticket'[t].waived /\ ticket'[t].fined}
             = {t \in Tickets : Due(t)'}
    BY DEF Due, Rows
  <1>3. {t \in Tickets : Due(t)} = {t \in Tickets : Due(t)'}
    OBVIOUS
  <1> QED BY <1>1, <1>2, <1>3 DEF PenaltyDue

\* Nothing else touches a penalised ticket.
LEMMA DueStays ==
  ASSUME Names, Asking, Settled, [Next]_vars,
         \A r \in Requests : ~AppealCommit(r) /\ ~(HRCommit(r) /\ req[r].op # "extend")
  PROVE  PenaltyDue' = PenaltyDue
  <1> SUFFICES ASSUME NEW t \in Tickets PROVE Due(t)' <=> Due(t)
    BY DueSame
  <1>0. Typed /\ TypeOK /\ TicketStep(t)
    BY TicketSteps DEF Settled, Typed
  <1>1. CASE ticket'[t] = ticket[t]
    BY <1>1 DEF Due, Rows, Status
  <1>2. CASE t \in Rows /\ ticket'[t] # ticket[t]
    <2>0. RowStep(t) /\ ticket[t] \in Ticket
      BY <1>0, <1>2, RowTyped DEF TicketStep, Unused, Rows, NoTicket, Statuses
    <2>1. ASSUME NEW f \in BOOLEAN, ticket'[t] = [ticket[t] EXCEPT !.expired = f] PROVE Due(t)' <=> Due(t)
      <3>1. /\ ticket'[t].status = ticket[t].status /\ ticket'[t].waived = ticket[t].waived
            /\ ticket'[t].fined = ticket[t].fined
        BY <2>0, <2>1 DEF Ticket
      <3> QED BY <3>1 DEF Due, Rows, Status
    <2>2. ASSUME NEW r \in Requests PROVE Holds(req[r]) /\ ShapeOf(req[r])
      BY <1>0 DEF Settled, AllHold, Typed, Shapes, Slots
    <2>3. ASSUME NEW r \in Requests, Decided(r, t) PROVE Due(t)' <=> Due(t)
      <3>1. ticket'[t] = [ticket[t] EXCEPT !.expired = FALSE]
        BY <2>3 DEF Decided, Resolved, Extended
      <3> QED BY <2>1, <3>1
    <2>4. ASSUME NEW r \in Requests, Answered(r, t) PROVE Due(t)' <=> Due(t)
      <3>1. Status(t) \in {"Pending", "Explained"}
        BY <2>2, <2>4 DEF Answered, ExplainCommit, Holds
      <3>2. ticket'[t].status = "Explained"
        BY <2>0, <2>4, RowWrites DEF Answered, Statuses
      <3> QED BY <3>1, <3>2 DEF Due, Status
    <2>5. ASSUME NEW r \in Requests, Resolves(r, t) PROVE Due(t)' <=> Due(t)
      <3>1. Status(t) \in {"Pending", "Explained"}
        BY <1>2, <2>2, <2>5 DEF Resolves, RecalcCommit, Holds
      <3>2. ticket'[t].status = "Closed"
        BY <2>0, <2>5, RowWrites DEF Resolves, Statuses
      <3> QED BY <3>1, <3>2 DEF Due, Status
    <2>6. ASSUME NEW r \in Requests, Contested(r, t) \/ Dropped(r, t) PROVE FALSE
      BY <2>2, <2>6 DEF Contested, Dropped, DeleteCommit, ShapeOf, Asking
    <2>7. ~(\E j \in Jobs : Overdue(j, t))
      BY DEF Asking
    <2> QED BY <1>2, <2>0, <2>1, <2>3, <2>4, <2>5, <2>6, <2>7 DEF RowStep
  <1>3. CASE t \notin Rows /\ ticket'[t] # ticket[t]
    <2>1. NewStep(t)
      BY <1>0, <1>3 DEF TicketStep
    <2>2. ticket'[t].status = "Pending"
      <3>1. ASSUME NEW r \in Slots, Raised(r, t) PROVE ticket'[t].status = "Pending"
        BY <3>1 DEF Raised, RaisedTicket
      <3>2. ASSUME NEW r \in Requests, Created(r, t) PROVE ticket'[t].status = "Pending"
        <4>1. PICK n \in Nat, f \in BOOLEAN :
                ticket'[t] = [RaisedTicket(req[r].session, TRUE, n) EXCEPT !.fined = f]
          BY <3>2 DEF Created
        <4> QED BY <4>1 DEF RaisedTicket
      <3> QED BY <1>3, <2>1, <3>1, <3>2 DEF NewStep
    <2> QED BY <1>3, <2>2 DEF Due, Status
  <1> QED BY <1>1, <1>2, <1>3

\* A request that is not about the payroll holds nothing of it.
LEMMA PayFree ==
  ASSUME NEW c, c.op \notin Charging \cup {"calculate"}
  PROVE  HoldsPay(c)'
  BY DEF HoldsPay

LEMMA PayMove ==
  ASSUME Typed, NEW r \in Slots, \A q \in Slots \ {r} : req[q] = Idle,
         NEW c, req' = [req EXCEPT ![r] = c], HoldsPay(c)'
  PROVE  \A q \in Slots : HoldsPay(req[q])'
  <1> SUFFICES ASSUME NEW q \in Slots PROVE HoldsPay(req[q])'
    OBVIOUS
  <1>1. req'[q] = IF q = r THEN c ELSE Idle
    BY DEF Typed, TypeOK, Slots
  <1>2. HoldsPay(Idle)'
    BY PayFree DEF Idle, Charging, HRActions
  <1>3. CASE q = r
    <2>1. req'[q] = c
      BY <1>1, <1>3
    <2> QED BY <2>1 DEF HoldsPay
  <1>4. CASE q # r
    <2>1. req'[q] = Idle
      BY <1>1, <1>4
    <2> QED BY <1>2, <2>1 DEF HoldsPay
  <1> QED BY <1>3, <1>4

LEMMA PayCommit ==
  ASSUME Typed, NEW r \in Slots, \A q \in Slots \ {r} : req[q] = Idle,
         NEW next, NEW T, NEW S, Commit(r, next, T, S), next.op \notin Charging \cup {"calculate"}
  PROVE  \A q \in Slots : HoldsPay(req[q])'
  <1> SUFFICES ASSUME NEW q \in Slots PROVE HoldsPay(req[q])'
    OBVIOUS
  <1>1. CASE q = r
    <2>1. req'[q] = next
      BY <1>1, Committed DEF Typed
    <2> QED BY <2>1 DEF HoldsPay
  <1>2. CASE q # r
    <2>1. PICK c : c = req'[q]
      OBVIOUS
    <2>2. Keeps(c, req[q], T)
      BY <1>2, <2>1, CommittedOthers DEF Typed
    <2>3. c = Idle
      BY <1>2, <2>2 DEF Keeps
    <2> QED BY <2>1, <2>3 DEF HoldsPay, Idle, Charging, HRActions
  <1> QED BY <1>1, <1>2

LEMMA PayBegin ==
  ASSUME Names, Asking, Settled, Paid, NEW r \in Requests, Begin(r)
  PROVE  \A q \in Slots : HoldsPay(req[q])'
  <1>0. r \in Slots /\ Typed /\ TypeOK
    BY DEF Slots, Settled, Typed
  <1>1. PICK call : Called(r, call)
    BY <1>0, BeginCalls
  <1>2. /\ req' = [req EXCEPT ![r] = call] /\ ticket' = ticket /\ period' = period
        /\ \A q \in Slots : req[q] = Idle
    BY <1>1, Nobody DEF Called, StartCall, db, Settled, Asking
  <1>3. call = req'[r]
    BY <1>0, <1>2 DEF TypeOK, Slots
  <1>4. PenaltyDue' = PenaltyDue
    BY <1>2, DueSame DEF Due, Rows, Status
  <1>5. HoldsPay(call)'
    <2>1. CASE CloseBegin(r)
      <3>1. call.op = "autoclose"
        BY <1>0, <1>3, <2>1 DEF CloseBegin, StartCall, CloseReads, Idle, TypeOK, Slots
      <3> QED BY <3>1, PayFree DEF Charging, HRActions
    <2>2. ASSUME NEW s \in Sessions, RecalcBegin(r, s) \/ CreateBegin(r, s) PROVE HoldsPay(call)'
      <3>1. call.op \in {"recalc", "create"}
        BY <1>0, <1>3, <2>2 DEF RecalcBegin, CreateBegin, StartCall, Idle, TypeOK, Slots
      <3> QED BY <3>1, PayFree DEF Charging, HRActions
    <2>3. ASSUME NEW t \in Tickets, ExplainBegin(r, t) \/ DeleteBegin(r, t) PROVE HoldsPay(call)'
      <3>1. call.op \in {"explain", "delete"}
        BY <1>0, <1>3, <2>3 DEF ExplainBegin, DeleteBegin, StartCall, Idle, TypeOK, Slots
      <3> QED BY <3>1, PayFree DEF Charging, HRActions
    <2>4. ASSUME NEW t \in Tickets, AppealBegin(r, t) PROVE HoldsPay(call)'
      <3>1. PICK a : a = payroll_calculated
        OBVIOUS
      <3>2. call = [Idle EXCEPT !.op = "appeal", !.ticket = t, !.asks = a] /\ ~payroll_locked
        BY <1>0, <1>3, <2>4, <3>1 DEF AppealBegin, StartCall, TypeOK, Slots, not_locked
      <3>3. call.op = "appeal" /\ call.asks = a
        BY <3>2 DEF Idle
      <3>4. period.status \in {"Calculated", "Approved"} => a
        BY <3>1, <3>2 DEF payroll_locked, payroll_calculated
      <3> QED BY <1>2, <3>3, <3>4 DEF HoldsPay
    <2>5. ASSUME NEW t \in Tickets, NEW act \in HRActions, HRBegin(r, t, act) PROVE HoldsPay(call)'
      <3>1. PICK a : a = (act # "extend" /\ payroll_calculated)
        OBVIOUS
      <3>2. call = [Idle EXCEPT !.op = act, !.ticket = t, !.fresh = TRUE, !.asks = a]
        BY <1>0, <1>3, <2>5, <3>1 DEF HRBegin, StartCall, TypeOK, Slots
      <3>3. call.op = act /\ call.asks = a
        BY <3>2 DEF Idle
      <3>4. act # "extend" /\ period.status \in {"Calculated", "Approved"} => a
        BY <2>5, <3>1 DEF HRBegin, not_locked, payroll_locked, payroll_calculated
      <3> QED BY <1>2, <3>3, <3>4 DEF HoldsPay, Charging, HRActions
    <2>6. CASE PayrollReads(r)
      <3>1. call = [Idle EXCEPT !.op = "calculate", !.count = PenaltyDue]
        BY <1>0, <1>3, <2>6 DEF PayrollReads, StartCall, TypeOK, Slots
      <3>2. call.op = "calculate" /\ call.count = PenaltyDue
        BY <3>1 DEF Idle
      <3> QED BY <1>4, <3>2 DEF HoldsPay, Charging, HRActions
    <2> QED BY <2>1, <2>2, <2>3, <2>4, <2>5, <2>6 DEF Begin
  <1> QED BY <1>0, <1>2, <1>5, PayMove

LEMMA PaidNext ==
  ASSUME Names, Asking, Settled, Paid, [Next]_vars
  PROVE  Paid'
  <1>0. Typed /\ TypeOK /\ Alone /\ period \in Period
    BY DEF Settled, Typed, TypeOK
  <1>1. ASSUME PenaltyDue' = PenaltyDue, period' = period PROVE DeductionIsCurrent'
    BY <1>1 DEF Paid, DeductionIsCurrent
  <1>2. ASSUME PenaltyDue' = PenaltyDue, period' = period, req' = req PROVE Paid'
    BY <1>1, <1>2 DEF Paid, HoldsPay
  <1>3. CASE UNCHANGED vars
    <2>1. PenaltyDue' = PenaltyDue
      BY <1>3, DueSame DEF vars, Due, Rows, Status
    <2> QED BY <1>2, <1>3, <2>1 DEF vars
  <1>4. CASE Elsewhere
    <2>1. req' = req
      BY <1>4 DEF Elsewhere, World, ShiftEnds, Punch, GraceExpires, LockExpires, PayrollClaim, PayrollApprove,
         PayrollGenerate, PayrollPublish, PeriodStep
    <2>2. PenaltyDue' = PenaltyDue
      <3>1. ASSUME NEW u \in Tickets, GraceExpires(u) PROVE PenaltyDue' = PenaltyDue
        <4>1. PICK row : row = [ticket[u] EXCEPT !.expired = TRUE]
          OBVIOUS
        <4>2. ticket' = [ticket EXCEPT ![u] = row]
          BY <3>1, <4>1 DEF GraceExpires, Put
        <4>3. row.status = ticket[u].status /\ row.waived = ticket[u].waived /\ row.fined = ticket[u].fined
          BY <1>0, <3>1, <4>1, RowTyped DEF GraceExpires, Ticket
        <4>4. \A t \in Tickets : Due(t)' <=> Due(t)
          BY <1>0, <4>2, <4>3 DEF Due, Rows, Status, TypeOK
        <4> QED BY <4>4, DueSame
      <3>2. CASE ticket' = ticket
        BY <3>2, DueSame DEF Due, Rows, Status
      <3> QED BY <1>4, <3>1, <3>2 DEF Elsewhere, World, ShiftEnds, Punch, LockExpires, PayrollClaim,
             PayrollApprove, PayrollGenerate, PayrollPublish, PeriodStep
    <2>3. CASE period' = period
      BY <1>2, <2>1, <2>2, <2>3
    <2>4. ASSUME NEW from, NEW to, PeriodStep(from, to), to \in {"Calculated", "Approved"} => from \subseteq {"Calculated", "Approved"}
          PROVE  Paid'
      <3>1. PICK f : f = (period.linked \/ to = "Slips Generated")
        OBVIOUS
      <3>2. period' = [period EXCEPT !.status = to, !.linked = f] /\ period.status \in from
        BY <2>4, <3>1 DEF PeriodStep
      <3>3. period'.status = to /\ period'.deducted = period.deducted /\ period'.asked = period.asked
        BY <1>0, <3>2 DEF Period
      <3>4. DeductionIsCurrent'
        BY <2>2, <2>4, <3>2, <3>3 DEF Paid, DeductionIsCurrent
      <3>5. \A q \in Slots : req[q] = Idle
        BY <1>0, <2>4, Nobody DEF PeriodStep, Asking
      <3>6. \A q \in Slots : HoldsPay(req[q])'
        BY <2>1, <3>5 DEF HoldsPay, Idle, Charging, HRActions
      <3> QED BY <3>4, <3>6 DEF Paid
    <2>5. CASE PayrollClaim
      BY <2>4, <2>5 DEF PayrollClaim
    <2>6. CASE PayrollApprove
      BY <2>4, <2>6 DEF PayrollApprove
    <2>7. CASE PayrollGenerate
      BY <2>4, <2>7 DEF PayrollGenerate
    <2>8. CASE PayrollPublish
      BY <2>4, <2>8 DEF PayrollPublish
    <2> QED BY <1>4, <2>3, <2>5, <2>6, <2>7, <2>8 DEF Elsewhere, World, ShiftEnds, Punch, GraceExpires, LockExpires
  <1>5. ASSUME NEW r \in Requests, Begin(r) PROVE Paid'
    <2>1. ticket' = ticket /\ period' = period
      BY <1>0, <1>5, BeginCalls DEF Called, db
    <2>2. PenaltyDue' = PenaltyDue
      BY <2>1, DueSame DEF Due, Rows, Status
    <2> QED BY <1>1, <1>5, <2>1, <2>2, PayBegin DEF Paid
  <1>6. ASSUME NEW r \in Requests, Finish(r) PROVE Paid'
    <2>1. PICK T, S : Commit(r, Idle, T, S)
      BY <1>0, <1>6, FinishWrites
    <2>2. \A q \in Slots \ {r} : req[q] = Idle
      BY <1>0, <1>6, OnlyOne DEF Slots, Finish, RecalcCommit, HRCommit, ExplainCommit, AppealCommit, CreateCommit,
         DeleteCommit, PayrollCalculated, HRActions
    <2>3. \A q \in Slots : HoldsPay(req[q])'
      BY <1>0, <2>1, <2>2, PayCommit DEF Slots, Idle, Charging, HRActions
    <2>4. req[r] \in Request /\ ShapeOf(req[r]) /\ HoldsPay(req[r])
      BY <1>0 DEF Typed, TypeOK, Slots, Shapes, Paid
    <2>5. CASE HRCommit(r) \/ AppealCommit(r)
      <3>1. PICK f : f = (period.asked \/ req[r].asks)
        OBVIOUS
      <3>2. period' = [period EXCEPT !.asked = f]
        BY <2>5, <3>1 DEF HRCommit, AppealCommit
      <3>3. period'.status = period.status /\ period'.deducted = period.deducted /\ period'.asked = f
        BY <1>0, <3>2 DEF Period
      <3>4. CASE HRCommit(r) /\ req[r].op = "extend"
        <4>1. \A q \in Requests : ~AppealCommit(q) /\ ~(HRCommit(q) /\ req[q].op # "extend")
          <5> SUFFICES ASSUME NEW q \in Requests, AppealCommit(q) \/ (HRCommit(q) /\ req[q].op # "extend") PROVE FALSE
            OBVIOUS
          <5>1. req[q].op # "idle"
            BY DEF AppealCommit, HRCommit, HRActions
          <5>2. q = r
            BY <2>2, <5>1 DEF Slots, Idle
          <5> QED BY <3>4, <5>2 DEF AppealCommit
        <4>2. PenaltyDue' = PenaltyDue
          BY <4>1, DueStays
        <4>3. DeductionIsCurrent'
          BY <3>1, <3>3, <4>2 DEF Paid, DeductionIsCurrent
        <4> QED BY <2>3, <4>3 DEF Paid
      <3>5. CASE ~(HRCommit(r) /\ req[r].op = "extend")
        <4>1. req[r].op \in Charging
          BY <2>5, <3>5 DEF HRCommit, AppealCommit, Charging
        <4>2. period.status \in {"Calculated", "Approved"} => f
          BY <2>4, <3>1, <4>1 DEF HoldsPay
        <4>3. DeductionIsCurrent'
          BY <3>3, <4>2 DEF DeductionIsCurrent
        <4> QED BY <2>3, <4>3 DEF Paid
      <3> QED BY <3>4, <3>5
    <2>6. CASE PayrollCalculated(r)
      <3>1. /\ period' = [period EXCEPT !.status = "Calculated", !.deducted = req[r].count, !.asked = FALSE]
            /\ ticket' = ticket /\ req[r].op = "calculate"
        BY <2>6 DEF PayrollCalculated
      <3>2. PenaltyDue' = PenaltyDue
        BY <3>1, DueSame DEF Due, Rows, Status
      <3>3. period'.deducted = PenaltyDue'
        BY <1>0, <2>4, <3>1, <3>2 DEF Period, HoldsPay
      <3>4. DeductionIsCurrent'
        BY <3>3 DEF DeductionIsCurrent
      <3> QED BY <2>3, <3>4 DEF Paid
    <2>7. CASE RecalcCommit(r) \/ ExplainCommit(r) \/ CreateCommit(r)
      <3>1. \A q \in Requests : ~AppealCommit(q) /\ ~(HRCommit(q) /\ req[q].op # "extend")
        <4> SUFFICES ASSUME NEW q \in Requests, AppealCommit(q) \/ HRCommit(q) PROVE FALSE
          OBVIOUS
        <4>1. req[q].op \in HRActions \cup {"appeal"}
          BY DEF AppealCommit, HRCommit
        <4>2. q = r
          BY <2>2, <4>1 DEF Slots, Idle, HRActions
        <4> QED BY <2>7, <4>1, <4>2 DEF RecalcCommit, ExplainCommit, CreateCommit, HRActions
      <3>2. PenaltyDue' = PenaltyDue /\ period' = period
        BY <2>7, <3>1, DueStays DEF RecalcCommit, ExplainCommit, CreateCommit
      <3> QED BY <1>1, <2>3, <3>2 DEF Paid
    <2>8. CASE DeleteCommit(r)
      BY <2>4, <2>8 DEF DeleteCommit, ShapeOf, Asking
    <2> QED BY <1>6, <2>5, <2>6, <2>7, <2>8 DEF Finish
  <1>7. ASSUME NEW r \in Slots, Closing(r) \/ Abort(r) PROVE Paid'
    <2>1. \A q \in Slots \ {r} : req[q] = Idle
      BY <1>0, <1>7, OnlyOne DEF Closing, CloseNext, CloseFails, CloseCommit, Abort, Alone
    <2>2. period' = period
      BY <1>7 DEF Closing, CloseNext, CloseFails, CloseCommit, Abort, db
    <2>3. PenaltyDue' = PenaltyDue
      <3>1. CASE CloseCommit(r)
        <4>1. \A q \in Requests : ~AppealCommit(q) /\ ~(HRCommit(q) /\ req[q].op # "extend")
          <5> SUFFICES ASSUME NEW q \in Requests, AppealCommit(q) \/ HRCommit(q) PROVE FALSE
            OBVIOUS
          <5>1. req[q].op \in HRActions \cup {"appeal"}
            BY DEF AppealCommit, HRCommit
          <5>2. q = r
            BY <2>1, <5>1 DEF Slots, Idle, HRActions
          <5> QED BY <3>1, <5>1, <5>2 DEF CloseCommit, HRActions
        <4> QED BY <4>1, DueStays
      <3>2. CASE ~CloseCommit(r)
        <4>1. ticket' = ticket
          BY <1>7, <3>2 DEF Closing, CloseNext, CloseFails, Abort, db
        <4> QED BY <4>1, DueSame DEF Due, Rows, Status
      <3> QED BY <3>1, <3>2
    <2>4. \A q \in Slots : HoldsPay(req[q])'
      <3>1. CASE CloseNext(r)
        <4>1. PICK K, G : req' = [req EXCEPT ![r].todo = @ \ {Next_(r)}, ![r].held = @ \cup K, ![r].made = @ \cup G]
          BY <3>1 DEF CloseNext
        <4>2. PICK c : c = [req[r] EXCEPT !.todo = @ \ {Next_(r)}, !.held = @ \cup K, !.made = @ \cup G]
          OBVIOUS
        <4>3. req' = [req EXCEPT ![r] = c] /\ c.op = "autoclose"
          <5>1. DOMAIN req = Slots /\ req[r] \in Request /\ req[r].op = "autoclose"
            BY <1>0, <3>1 DEF CloseNext, TypeOK, Slots
          <5>2. c.op = "autoclose"
            BY <4>2, <5>1 DEF Request
          <5>3. req' = [req EXCEPT ![r] = c]
            BY <4>1, <4>2, <5>1
          <5> QED BY <5>2, <5>3
        <4>4. HoldsPay(c)'
          BY <4>3, PayFree DEF Charging, HRActions
        <4> QED BY <1>0, <2>1, <4>3, <4>4, PayMove
      <3>2. CASE CloseFails(r)
        <4>1. PICK c : c = CloseReads(req[r].todo \ {Next_(r)})
          OBVIOUS
        <4>2. req' = [req EXCEPT ![r] = c] /\ c.op = "autoclose"
          BY <3>2, <4>1 DEF CloseFails, CloseReads, Idle
        <4>3. HoldsPay(c)'
          BY <4>2, PayFree DEF Charging, HRActions
        <4> QED BY <1>0, <2>1, <4>2, <4>3, PayMove
      <3>3. CASE CloseCommit(r)
        <4>1. PICK c : c = IF r \in Jobs THEN [Idle EXCEPT !.op = "expire"] ELSE Idle
          OBVIOUS
        <4>2. Commit(r, c, {}, {}) /\ c.op \notin Charging \cup {"calculate"}
          BY <3>3, <4>1 DEF CloseCommit, Idle, Charging, HRActions
        <4> QED BY <1>0, <2>1, <4>2, PayCommit
      <3>4. CASE Abort(r)
        <4>1. req' = [req EXCEPT ![r] = Idle] /\ HoldsPay(Idle)'
          BY <3>4, PayFree DEF Abort, Idle, Charging, HRActions
        <4> QED BY <1>0, <2>1, <4>1, PayMove
      <3> QED BY <1>7, <3>1, <3>2, <3>3, <3>4 DEF Closing
    <2> QED BY <1>1, <2>2, <2>3, <2>4 DEF Paid
  <1>8. ~(\E j \in Jobs : HourlyJob(j))
    BY DEF Asking
  <1> QED BY <1>3, <1>4, <1>5, <1>6, <1>7, <1>8, Steps

\* One request at a time: what the payroll line deducts is what the tickets say, or some
\* response told HR to recalculate since (payroll_recalc_required).
THEOREM DeductionStaysCurrent == ASSUME Names, Asking PROVE Spec => []DeductionIsCurrent
  <1>1. Init => Paid
    BY DEF Init, Paid, DeductionIsCurrent, HoldsPay, Idle, Charging, HRActions, Slots
  <1>2. Settled /\ Paid /\ [Next]_vars => Paid'
    BY PaidNext
  <1>3. Spec => []Settled
    BY SettledAlways DEF Asking
  <1>4. Paid => DeductionIsCurrent
    BY DEF Paid
  <1> QED BY <1>1, <1>2, <1>3, <1>4, PTL DEF Spec

-----------------------------------------------------------------------------
(* Punches and sessions: what the rows of Attendance are (SessionsTyped), what the       *)
(* portal's taps make (TapsAreKept), that no save counts less than the one before        *)
(* (NothingUncounted), and, one request at a time, that a session with an IN is not      *)
(* absent (AbsentShowsNoIn).  Attendance is the instance of MCAttendance.                *)

\* The hours and the shifts of a behaviour are finitely many, and there is a first hour.
Hourly == At!ShiftPlan /\ Times # {} /\ IsFiniteSet(Times) /\ IsFiniteSet(Shifts)

-----------------------------------------------------------------------------
(* The least and the greatest of some hours. *)

\* Some naturals have a least one.
LEMMA LeastExists ==
  ASSUME NEW S \in SUBSET Nat, S # {}
  PROVE  \E x \in S : \A y \in S : x <= y
  <1> DEFINE Less == {p \in Nat \X Nat : p[1] < p[2]}
  <1>1. OpToRel(<, Nat) = Less
    BY Zenon DEF OpToRel
  <1>2. IsWellFoundedOn(Less, Nat)
    BY <1>1, NatLessThanWellFounded, Zenon
  <1>3. PICK x \in S : \A y \in S : <<y, x>> \notin Less
    BY <1>2, WFMin
  <1> SUFFICES ASSUME NEW y \in S PROVE x <= y
    OBVIOUS
  <1>4. x \in Nat /\ y \in Nat /\ <<y, x>> \in Nat \X Nat
    OBVIOUS
  <1>5. ~(y < x)
    BY <1>3, <1>4
  <1> QED BY <1>4, <1>5

\* So Min is one of them.
LEMMA MinIsLeast ==
  ASSUME NEW S \in SUBSET Nat, S # {}
  PROVE  At!Min(S) \in S /\ \A y \in S : At!Min(S) <= y
  BY LeastExists DEF At!Min

\* Finitely many naturals have a greatest one: the one that fewest of them reach.
LEMMA GreatestExists ==
  ASSUME NEW S \in SUBSET Nat, S # {}, IsFiniteSet(S)
  PROVE  \E x \in S : \A y \in S : x >= y
  <1> DEFINE From(x) == {y \in S : y >= x}
             CountsKept == {Cardinality(From(x)) : x \in S}
  <1>1. \A x \in S : IsFiniteSet(From(x)) /\ Cardinality(From(x)) \in Nat
    BY FS_Subset, FS_CardinalityType
  <1>2. CountsKept \in SUBSET Nat /\ CountsKept # {}
    BY <1>1
  <1>3. PICK x \in S : \A y \in S : Cardinality(From(x)) <= Cardinality(From(y))
    <2>1. PICK c \in CountsKept : \A d \in CountsKept : c <= d
      BY <1>2, LeastExists
    <2> QED BY <2>1
  <1>4. ASSUME NEW y \in S, y > x PROVE FALSE
    <2>0. x \in Nat /\ y \in Nat
      OBVIOUS
    <2>1. From(y) \subseteq From(x) /\ x \in From(x) /\ x \notin From(y)
      <3>1. ASSUME NEW z \in S, z >= y PROVE z >= x
        <4>1. z \in Nat
          OBVIOUS
        <4> QED BY <1>4, <2>0, <3>1, <4>1
      <3>2. x >= x /\ ~(x >= y)
        BY <1>4, <2>0
      <3> QED BY <3>1, <3>2
    <2>2. From(y) # From(x)
      BY <2>1
    <2>3. Cardinality(From(y)) < Cardinality(From(x))
      BY <1>1, <2>1, <2>2, FS_Subset
    <2> QED BY <1>1, <1>3, <2>3
  <1> QED BY <1>4

LEMMA MaxIsGreatest ==
  ASSUME NEW S \in SUBSET Nat, S # {}, IsFiniteSet(S)
  PROVE  At!Max(S) \in S /\ \A y \in S : At!Max(S) >= y
  BY GreatestExists DEF At!Max

-----------------------------------------------------------------------------
(* Types: the rows of the tables, and what a request holds on to. *)

Portal  == [op : {"tap"}, tap : Taps, type : At!Types]
Waiting == [op : {"inline", "absent"}, todo : SUBSET Shifts]
Results == UNION {[S -> At!Session] : S \in SUBSET Shifts}
Snap    == [op : At!Snapshots, fresh : SUBSET Shifts, read : SUBSET Punches, result : Results,
            stuck : SUBSET Shifts, inline : BOOLEAN, punch : Punches \cup {0}]
Calls   == {At!Idle} \cup Portal \cup Waiting \cup Snap

WellTyped == At!TypeOK /\ inflight \in [Callers -> Calls]

\* Which of the four a request is, by its operation.
LEMMA CallFields ==
  ASSUME NEW q \in Calls
  PROVE  /\ q.op = "idle" <=> q = At!Idle
         /\ q.op = "tap" => q.tap \in Taps /\ q.type \in At!Types
         /\ q.op \in {"inline", "absent"} => q.todo \in SUBSET Shifts
         /\ q.op \in At!Snapshots => q \in Snap
  <1>1. CASE q = At!Idle
    BY <1>1 DEF At!Idle, At!Snapshots
  <1>2. CASE q \in Portal
    BY <1>2 DEF Portal, At!Idle, At!Snapshots
  <1>3. CASE q \in Waiting
    BY <1>3 DEF Waiting, At!Idle, At!Snapshots
  <1>4. CASE q \in Snap
    BY <1>4 DEF Snap, At!Idle, At!Snapshots
  <1> QED BY <1>1, <1>2, <1>3, <1>4 DEF Calls

LEMMA SnapFields ==
  ASSUME NEW q \in Snap
  PROVE  /\ q.op \in At!Snapshots /\ q.fresh \in SUBSET Shifts /\ q.read \in SUBSET Punches
         /\ DOMAIN q.result \in SUBSET Shifts /\ q.stuck \in SUBSET Shifts
         /\ q.punch \in Punches \cup {0}
         /\ \A s \in DOMAIN q.result : q.result[s] \in At!Session
         /\ \A S \in SUBSET Shifts : [q EXCEPT !.fresh = S] \in Snap
  <1>1. q.result \in Results
    BY DEF Snap
  <1>2. PICK S \in SUBSET Shifts : q.result \in [S -> At!Session]
    BY <1>1 DEF Results
  <1> QED BY <1>2 DEF Snap

\* The rows of the table have their fields.
LEMMA RowFields ==
  ASSUME At!TypeOK, NEW p \in At!Rows
  PROVE  punch[p] \in At!Punch
  BY DEF At!TypeOK, At!Rows

LEMMA SessionFields ==
  ASSUME At!TypeOK, NEW s \in At!Existing
  PROVE  session[s] \in At!Session
  BY DEF At!TypeOK, At!Existing

\* The hours a punch may have are finitely many naturals.
LEMMA ClockFinite ==
  ASSUME Hourly
  PROVE  At!Clock \in SUBSET Nat /\ IsFiniteSet(At!Clock)
  <1> DEFINE ends == {Ends[s] : s \in Shifts}
             f == [s \in Shifts |-> Ends[s]]
  <1>1. f \in Surjection(Shifts, ends)
    BY DEF Surjection
  <1>2. IsFiniteSet(ends)
    BY <1>1, FS_Surjection DEF Hourly
  <1>3. ends \in SUBSET Nat /\ Times \in SUBSET Nat
    BY DEF Hourly, At!ShiftPlan
  <1> QED BY <1>2, <1>3, FS_Union DEF At!Clock, Hourly

\* What a calculation of some rows gives: a session, and no absence.
LEMMA CalculatedTyped ==
  ASSUME Hourly, At!TypeOK, NEW P \in SUBSET At!Rows, NEW s \in Shifts
  PROVE  /\ At!calculate_work_session(P, s) \in At!Session
         /\ At!calculate_work_session(P, s).absent = FALSE
  <1> DEFINE kept == At!_filter_logs_to_window(P, s)
             ins  == At!Hours(At!Of(kept, "IN"))
             outs == At!Hours(At!Of(kept, "OUT"))
  <1>1. kept \subseteq At!Rows
    BY DEF At!_filter_logs_to_window, At!_drop_adjacent_session_punches
  <1>2. ins \subseteq At!Clock /\ outs \subseteq At!Clock
    BY <1>1, RowFields DEF At!Of, At!Hours, At!Punch
  <1>3. \A T \in SUBSET At!Clock : At!First(T) \in At!Clock \cup {At!NONE} /\ At!Last(T) \in At!Clock \cup {At!NONE}
    <2> SUFFICES ASSUME NEW T \in SUBSET At!Clock, T # {} PROVE At!Min(T) \in At!Clock /\ At!Max(T) \in At!Clock
      BY DEF At!First, At!Last
    <2>1. T \in SUBSET Nat /\ IsFiniteSet(T)
      BY ClockFinite, FS_Subset
    <2> QED BY <2>1, MinIsLeast, MaxIsGreatest
  <1>4. At!First(ins) \in At!Clock \cup {At!NONE} /\ At!Last(outs) \in At!Clock \cup {At!NONE}
    BY <1>2, <1>3
  <1>5. PICK out, auto : /\ out = At!Last(outs)
                         /\ auto = \E p \in At!Of(kept, "OUT") : punch[p].time = out /\ punch[p].auto
    OBVIOUS
  <1>6. auto \in BOOLEAN
    BY <1>5
  <1>7. At!calculate_work_session(P, s) =
          [status |-> "Calculated", in |-> At!First(ins), out |-> out, auto |-> auto,
           leave |-> s \in leave, absent |-> FALSE, approved |-> FALSE]
    BY <1>5 DEF At!calculate_work_session
  <1> QED BY <1>4, <1>5, <1>6, <1>7 DEF At!Session

\* A snapshot of rows is one.
LEMMA SnapshotTyped ==
  ASSUME Hourly, At!TypeOK, NEW op \in At!Snapshots, NEW S \in SUBSET Shifts, NEW P \in SUBSET At!Rows,
         NEW inline \in BOOLEAN, NEW row \in Punches \cup {0}
  PROVE  At!Snapshot(op, S, P, inline, row) \in Snap
  <1>1. [s \in S |-> At!calculate_work_session(P, s)] \in [S -> At!Session]
    BY CalculatedTyped
  <1>2. [s \in S |-> At!calculate_work_session(P, s)] \in Results
    BY <1>1 DEF Results
  <1>3. {s \in S : session[s].status = "Recalculating"} \in SUBSET Shifts /\ P \in SUBSET Punches
    BY DEF At!Rows
  <1> QED BY <1>2, <1>3 DEF At!Snapshot, Snap

\* A commit keeps the requests well formed.
LEMMA CommitTyped ==
  ASSUME inflight \in [Callers -> Calls], NEW r \in Callers, NEW next \in Calls,
         NEW S \in SUBSET Shifts, At!Commit(r, next, S)
  PROVE  /\ inflight' \in [Callers -> Calls]
         /\ inflight'[r] = next
         /\ \A q \in Callers \ {r} :
              /\ inflight[q].op \notin At!Snapshots => inflight'[q] = inflight[q]
              /\ inflight[q].op \in At!Snapshots => inflight'[q] = [inflight[q] EXCEPT !.fresh = @ \ S]
              /\ inflight'[q].op = inflight[q].op
  <1> SUFFICES ASSUME NEW q \in Callers
               PROVE  /\ inflight'[q] \in Calls
                      /\ q = r => inflight'[q] = next
                      /\ q # r => /\ inflight[q].op \notin At!Snapshots => inflight'[q] = inflight[q]
                                  /\ inflight[q].op \in At!Snapshots => inflight'[q] = [inflight[q] EXCEPT !.fresh = @ \ S]
                                  /\ inflight'[q].op = inflight[q].op
    BY DEF At!Commit
  <1>1. CASE q = r
    BY <1>1 DEF At!Commit
  <1>2. CASE q # r /\ inflight[q].op \notin At!Snapshots
    BY <1>2 DEF At!Commit
  <1>3. CASE q # r /\ inflight[q].op \in At!Snapshots
    <2>1. inflight[q] \in Snap
      BY <1>3, CallFields
    <2>2. inflight'[q] = [inflight[q] EXCEPT !.fresh = @ \ S]
      BY <1>3 DEF At!Commit
    <2>3. PICK F : F = inflight[q].fresh \ S
      OBVIOUS
    <2>4. inflight'[q] = [inflight[q] EXCEPT !.fresh = F] /\ F \in SUBSET Shifts
      BY <2>1, <2>2, <2>3, SnapFields
    <2>5. inflight'[q] \in Snap
      BY <2>1, <2>4, SnapFields
    <2>6. inflight'[q].op = inflight[q].op
      BY <2>1, <2>4 DEF Snap
    <2> QED BY <1>3, <2>2, <2>5, <2>6 DEF Calls
  <1> QED BY <1>1, <1>2, <1>3

\* HR's approval takes one session's stamp away from every snapshot.
LEMMA ChangedTyped ==
  ASSUME inflight \in [Callers -> Calls], NEW s \in Shifts, inflight' = At!Changed(s)
  PROVE  /\ inflight' \in [Callers -> Calls]
         /\ \A q \in Callers :
              /\ inflight[q].op \notin At!Snapshots => inflight'[q] = inflight[q]
              /\ inflight[q].op \in At!Snapshots => inflight'[q] = [inflight[q] EXCEPT !.fresh = @ \ {s}]
              /\ inflight'[q].op = inflight[q].op
  <1> SUFFICES ASSUME NEW q \in Callers
               PROVE  /\ inflight'[q] \in Calls
                      /\ inflight[q].op \notin At!Snapshots => inflight'[q] = inflight[q]
                      /\ inflight[q].op \in At!Snapshots => inflight'[q] = [inflight[q] EXCEPT !.fresh = @ \ {s}]
                      /\ inflight'[q].op = inflight[q].op
    BY DEF At!Changed
  <1>1. CASE inflight[q].op \notin At!Snapshots
    BY <1>1 DEF At!Changed
  <1>2. CASE inflight[q].op \in At!Snapshots
    <2>1. inflight[q] \in Snap
      BY <1>2, CallFields
    <2>2. inflight'[q] = [inflight[q] EXCEPT !.fresh = @ \ {s}]
      BY <1>2 DEF At!Changed
    <2>3. PICK F : F = inflight[q].fresh \ {s}
      OBVIOUS
    <2>4. inflight'[q] = [inflight[q] EXCEPT !.fresh = F] /\ F \in SUBSET Shifts
      BY <2>1, <2>2, <2>3, SnapFields
    <2>5. inflight'[q] \in Snap
      BY <2>1, <2>4, SnapFields
    <2>6. inflight'[q].op = inflight[q].op
      BY <2>1, <2>4 DEF Snap
    <2> QED BY <1>2, <2>2, <2>5, <2>6 DEF Calls
  <1> QED BY <1>1, <1>2

\* The save of one or of several sessions: the sessions W it writes are ones whose stamp it
\* still has.
Saves(r) == At!Recalculate(r) \/ \E W \in SUBSET Shifts : At!RecalculateAll(r, W)
Writes(q, W) ==
  /\ W \in SUBSET (DOMAIN q.result \cap q.fresh)
  /\ session' = [s \in Shifts |-> IF s \in W THEN q.result[s] ELSE session[s]]
  /\ newer'   = [s \in Shifts |-> IF s \in W THEN {} ELSE newer[s]]
  /\ counted' = [s \in Shifts |-> IF s \in W THEN q.read ELSE counted[s]]
  /\ attendance' = [s \in Shifts |-> IF s \in W THEN At!_sync_attendance(s, q.result[s])
                                     ELSE attendance[s]]
  /\ noshow' \ noshow \subseteq W /\ noshow \subseteq noshow'

LEMMA SavesWhat ==
  ASSUME WellTyped, NEW r \in Callers, Saves(r)
  PROVE  /\ inflight[r] \in Snap
         /\ \E W : Writes(inflight[r], W) /\ At!Commit(r, At!Idle, W)
         /\ punch' = IF inflight[r].op = "delete" THEN [punch EXCEPT ![inflight[r].punch] = At!Deleted] ELSE punch
         /\ queue' \in SUBSET Shifts
         /\ UNCHANGED <<now, taps, leave, locked>>
  <1>1. inflight[r].op \in At!Snapshots
    BY DEF Saves, At!Recalculate, At!RecalculateAll, At!Snapshots
  <1>2. inflight[r] \in Snap
    BY <1>1, CallFields DEF WellTyped
  <1>3. CASE At!Recalculate(r)
    <2> DEFINE V == {s \in DOMAIN inflight[r].result : s \in inflight[r].stuck \/ At!KeepsStamp(inflight[r], s)}
               W == V \ inflight[r].stuck
    <2>1. At!Persist(inflight[r], V) /\ At!Commit(r, At!Idle, W)
      BY <1>3 DEF At!Recalculate
    <2>2. Writes(inflight[r], W)
      BY <2>1 DEF At!Persist, Writes, At!KeepsStamp
    <2>3. UNCHANGED <<now, punch, taps, leave, locked>> /\ inflight[r].op = "recalc"
      BY <1>3 DEF At!Recalculate
    <2>4. queue' \in SUBSET Shifts
      BY <1>2, <1>3, SnapFields DEF At!Recalculate, WellTyped, At!TypeOK
    <2> HIDE DEF V, W
    <2> QED BY <1>2, <2>1, <2>2, <2>3, <2>4
  <1>4. ASSUME NEW V \in SUBSET Shifts, At!RecalculateAll(r, V)
        PROVE  \E W : Writes(inflight[r], W) /\ At!Commit(r, At!Idle, W)
    <2> DEFINE W == V \ inflight[r].stuck
    <2>1. At!Persist(inflight[r], V) /\ At!Commit(r, At!Idle, W)
      BY <1>4 DEF At!RecalculateAll
    <2>2. \A s \in V : s \in DOMAIN inflight[r].result /\ (s \in inflight[r].stuck \/ s \in inflight[r].fresh)
      BY <1>4 DEF At!RecalculateAll, At!KeepsStamp
    <2>3. Writes(inflight[r], W)
      BY <2>1, <2>2 DEF At!Persist, Writes
    <2> HIDE DEF W
    <2> QED BY <2>1, <2>3
  <1>5. ASSUME NEW V \in SUBSET Shifts, At!RecalculateAll(r, V)
        PROVE  /\ punch' = IF inflight[r].op = "delete" THEN [punch EXCEPT ![inflight[r].punch] = At!Deleted]
                           ELSE punch
               /\ queue' \in SUBSET Shifts
               /\ UNCHANGED <<now, taps, leave, locked>>
    BY <1>5 DEF At!RecalculateAll, WellTyped, At!TypeOK
  <1> QED BY <1>2, <1>3, <1>4, <1>5 DEF Saves

\* A request that starts.
LEMMA OpenTyped ==
  ASSUME inflight \in [Callers -> Calls], NEW r \in Callers, NEW call \in Calls, At!Open(r, call)
  PROVE  /\ inflight' \in [Callers -> Calls] /\ inflight'[r] = call /\ inflight[r] = At!Idle
         /\ \A q \in Callers \ {r} : inflight'[q] = inflight[q]
  BY DEF At!Open

\* The groups of steps: one for what the proofs tell apart.
StartSnap(r) ==
  \/ At!InlineBegin(r)
  \/ \E p \in Punches : At!DeleteBegin(r, p)
  \/ \E s \in Shifts : At!JobBegin(r, s)
  \/ At!HealBegin(r) \/ At!PeriodBegin(r)
Arrives(p) ==
  \E t \in Times, type \in At!Types : (\E quiet \in BOOLEAN : At!DevicePunch(p, t, type, quiet))
                                   \/ At!create_checkin(p, t, type)
OnSession(s) ==
  \/ At!JobLost(s) \/ At!recalculate_work_session(s) \/ At!LeaveApproved(s)
  \/ \E st \in {"Present", "Absent"}, o \in BOOLEAN : At!mark_attendance_bulk(s, st, o)

LEMMA AttendanceSteps ==
  ASSUME [At!Next]_At!vars
  PROVE  \/ UNCHANGED At!vars
         \/ At!Hour \/ At!LockMonth \/ At!backfill_attendance
         \/ \E s \in Shifts : OnSession(s) \/ At!approve_session_overtime(s)
         \/ \E p \in Punches :
              \/ Arrives(p) \/ \E s \in Shifts : At!_close_session(s, p)
              \/ \E t \in Times, type \in At!Types : At!update_checkin(p, t, type)
         \/ \E r \in Callers :
              \/ Saves(r) \/ StartSnap(r) \/ At!Abort(r) \/ At!TapRejected(r)
              \/ At!AbsentBegin(r) \/ At!auto_mark_absent_job(r)
              \/ (\E k \in Taps : At!TapBegin(r, k)) \/ (\E p \in Punches : At!TapInsert(r, p))
  BY DEF At!Next, At!Tap, At!OtherPunch, At!Recalculation, At!Mark, Saves, StartSnap, Arrives, OnSession

\* What a request that starts to recalculate holds: a snapshot of the rows (without the one
\* it deletes), whose stamps are current.
Begun(q) ==
  /\ q \in Snap
  /\ q.read = IF q.op = "delete" THEN At!Rows \ {q.punch} ELSE At!Rows
  /\ \A s \in DOMAIN q.result : q.result[s].absent = FALSE

LEMMA SnapshotIs ==
  ASSUME NEW op, NEW S, NEW P, NEW inline, NEW row
  PROVE  /\ At!Snapshot(op, S, P, inline, row).op = op
         /\ At!Snapshot(op, S, P, inline, row).read = P
         /\ At!Snapshot(op, S, P, inline, row).punch = row
         /\ At!Snapshot(op, S, P, inline, row).result = [s \in S |-> At!calculate_work_session(P, s)]
  BY DEF At!Snapshot

LEMMA SnapshotBegun ==
  ASSUME Hourly, At!TypeOK, NEW op \in At!Snapshots, NEW S \in SUBSET Shifts,
         NEW inline \in BOOLEAN, NEW row \in Punches \cup {0},
         NEW P, P = IF op = "delete" THEN At!Rows \ {row} ELSE At!Rows
  PROVE  Begun(At!Snapshot(op, S, P, inline, row))
  <1>0. P \in SUBSET At!Rows
    OBVIOUS
  <1>1. PICK q : q = At!Snapshot(op, S, P, inline, row)
    OBVIOUS
  <1>2. q \in Snap
    BY <1>0, <1>1, SnapshotTyped
  <1>3. q.op = op /\ q.read = P /\ q.punch = row /\ q.result = [s \in S |-> At!calculate_work_session(P, s)]
    <2> DEFINE made == At!Snapshot(op, S, P, inline, row)
    <2>1. made.op = op /\ made.read = P /\ made.punch = row
      BY DEF At!Snapshot
    <2>2. made.result = [s \in S |-> At!calculate_work_session(P, s)]
      BY DEF At!Snapshot
    <2> HIDE DEF made
    <2>3. q = made
      BY <1>1 DEF made
    <2> QED BY <2>1, <2>2, <2>3
  <1>4. \A s \in DOMAIN q.result : q.result[s].absent = FALSE
    BY <1>0, <1>3, CalculatedTyped
  <1>5. Begun(q)
    BY <1>2, <1>3, <1>4 DEF Begun
  <1> QED BY <1>1, <1>5

LEMMA StartsBegun ==
  ASSUME Hourly, WellTyped, NEW r \in Callers, StartSnap(r)
  PROVE  /\ Begun(inflight'[r])
         /\ inflight'[r].op = "delete" => "delete" \in ops
         /\ \A q \in Callers \ {r} : inflight'[q] = inflight[q]
         /\ inflight' \in [Callers -> Calls]
         /\ queue' \in SUBSET queue
         /\ inflight[r] = At!Idle \/ inflight[r].op = "inline"
         /\ UNCHANGED <<now, punch, At!rows, taps, leave, locked>>
  <1> DEFINE Goes(q) == /\ Begun(q) /\ (q.op = "delete" => "delete" \in ops)
                        /\ inflight' = [inflight EXCEPT ![r] = q]
  <1>1. ASSUME NEW q, Goes(q)
        PROVE  /\ Begun(inflight'[r]) /\ inflight' \in [Callers -> Calls]
               /\ inflight'[r].op = "delete" => "delete" \in ops
               /\ \A u \in Callers \ {r} : inflight'[u] = inflight[u]
    <2>1. q \in Calls
      BY <1>1 DEF Begun, Calls
    <2>2. inflight'[r] = q /\ inflight' \in [Callers -> Calls] /\ \A u \in Callers \ {r} : inflight'[u] = inflight[u]
      BY <1>1, <2>1 DEF WellTyped
    <2> QED BY <1>1, <2>2
  <1>2. CASE At!InlineBegin(r)
    <2>1. inflight[r].todo \in SUBSET Shifts
      BY <1>2, CallFields DEF At!InlineBegin, WellTyped
    <2>2. Goes(At!Snapshot("recalc", inflight[r].todo, At!Rows, TRUE, 0))
      <3>1. PICK T : T = inflight[r].todo
        OBVIOUS
      <3>2. Begun(At!Snapshot("recalc", T, At!Rows, TRUE, 0))
        BY <2>1, <3>1, SnapshotBegun DEF WellTyped, At!Snapshots
      <3>3. At!Snapshot("recalc", T, At!Rows, TRUE, 0).op = "recalc"
        BY DEF At!Snapshot
      <3> QED BY <1>2, <3>1, <3>2, <3>3 DEF At!InlineBegin
    <2> HIDE DEF Goes
    <2> QED BY <1>1, <1>2, <2>2 DEF At!InlineBegin
  <1>3. ASSUME NEW p \in Punches, At!DeleteBegin(r, p) PROVE \E q : Goes(q)
    <2>1. PICK S : /\ S \in SUBSET Shifts
                   /\ At!Open(r, At!Snapshot("delete", S, At!Rows \ {p}, FALSE, p))
      BY <1>3 DEF At!DeleteBegin, At!Existing
    <2>2. Goes(At!Snapshot("delete", S, At!Rows \ {p}, FALSE, p))
      BY <2>1, SnapshotBegun, SnapshotIs DEF At!Open, WellTyped, At!Snapshots
    <2> HIDE DEF Goes
    <2> QED BY <2>2
  <1>4. ASSUME NEW s \in Shifts, At!JobBegin(r, s) PROVE \E q : Goes(q)
    <2>1. Goes(At!Snapshot("recalc", {s}, At!Rows, FALSE, 0))
      BY <1>4, SnapshotBegun, SnapshotIs DEF At!JobBegin, At!Open, WellTyped, At!Snapshots
    <2> HIDE DEF Goes
    <2> QED BY <2>1
  <1>5. CASE At!HealBegin(r)
    <2>1. PICK H \in At!HealSets : At!Open(r, At!Snapshot("heal", H, At!Rows, FALSE, 0))
      BY <1>5 DEF At!HealBegin
    <2>2. H \in SUBSET Shifts
      BY DEF At!HealSets, At!Stale, At!Existing
    <2>3. Goes(At!Snapshot("heal", H, At!Rows, FALSE, 0))
      BY <2>1, <2>2, SnapshotBegun, SnapshotIs DEF At!Open, WellTyped, At!Snapshots
    <2> HIDE DEF Goes
    <2> QED BY <1>1, <1>5, <2>1, <2>3 DEF At!HealBegin, At!Open
  <1>6. CASE At!PeriodBegin(r)
    <2>1. Goes(At!Snapshot("period", Shifts, At!Rows, FALSE, 0))
      BY <1>6, SnapshotBegun, SnapshotIs DEF At!PeriodBegin, At!Open, WellTyped, At!Snapshots
    <2> HIDE DEF Goes
    <2> QED BY <1>1, <1>6, <2>1 DEF At!PeriodBegin, At!Open
  <1>7. ASSUME NEW p \in Punches, At!DeleteBegin(r, p)
        PROVE  UNCHANGED <<now, punch, At!rows, queue, taps, leave, locked>> /\ inflight[r] = At!Idle
    BY <1>7 DEF At!DeleteBegin, At!Open
  <1>8. ASSUME NEW s \in Shifts, At!JobBegin(r, s)
        PROVE  /\ UNCHANGED <<now, punch, At!rows, taps, leave, locked>> /\ queue' \in SUBSET queue
               /\ inflight[r] = At!Idle
    BY <1>8 DEF At!JobBegin, At!Open
  <1> HIDE DEF Goes
  <1> QED BY <1>1, <1>2, <1>3, <1>4, <1>5, <1>6, <1>7, <1>8 DEF StartSnap, At!InlineBegin, At!HealBegin,
             At!PeriodBegin, At!Open

\* The row that a step puts in the table.
LEMMA InsertTyped ==
  ASSUME At!TypeOK, NEW p \in Punches, NEW row \in At!Punch, At!NewRow(row, p)
  PROVE  /\ punch' \in [Punches -> At!Punch \cup {At!NoRow, At!Deleted}]
         /\ punch[p] = At!NoRow /\ punch'[p] = row
         /\ \A q \in Punches \ {p} : punch'[q] = punch[q]
  BY DEF At!NewRow, At!TypeOK

LEMMA SyncTyped ==
  ASSUME At!TypeOK, NEW s \in Shifts, NEW new \in At!Session
  PROVE  At!_sync_attendance(s, new) \in At!Core \cup {At!NoRow}
  <1>1. attendance[s] \in At!Core \cup {At!NoRow}
    BY DEF At!TypeOK
  <1>4. CASE At!Work(s) > At!Day(now) \/ new.status # "Calculated"
    BY <1>1, <1>4 DEF At!_sync_attendance
  <1>5. CASE ~(At!Work(s) > At!Day(now) \/ new.status # "Calculated")
    <2>1. \A b \in BOOLEAN : [status |-> IF new.absent THEN "Absent" ELSE "Present", submitted |-> b] \in At!Core
      BY DEF At!Core
    <2>2. (At!_is_date_locked(At!Work(s)) \/ (attendance[s] # At!NoRow /\ attendance[s].submitted)) \in BOOLEAN
      OBVIOUS
    <2> QED BY <1>5, <2>1, <2>2, Zenon DEF At!_sync_attendance
  <1> QED BY <1>4, <1>5

LEMMA SavesTyped ==
  ASSUME WellTyped, NEW r \in Callers, Saves(r)
  PROVE  WellTyped'
  <1>1. PICK W : Writes(inflight[r], W) /\ At!Commit(r, At!Idle, W)
    BY SavesWhat
  <1>2. /\ inflight[r] \in Snap /\ queue' \in SUBSET Shifts
        /\ UNCHANGED <<now, taps, leave, locked>>
        /\ punch' = punch \/ punch' = [punch EXCEPT ![inflight[r].punch] = At!Deleted]
    BY SavesWhat
  <1>3. W \in SUBSET Shifts /\ W \in SUBSET DOMAIN inflight[r].result
    BY <1>1, <1>2, SnapFields DEF Writes
  <1>4. inflight' \in [Callers -> Calls]
    BY <1>1, <1>3, CommitTyped DEF WellTyped, Calls
  <1>5. \A s \in W : inflight[r].result[s] \in At!Session
    BY <1>2, <1>3, SnapFields
  <1>6. session' \in [Shifts -> At!Session \cup {At!NoRow}]
    BY <1>1, <1>5 DEF Writes, WellTyped, At!TypeOK
  <1>7. counted' \in [Shifts -> SUBSET Punches] /\ newer' \in [Shifts -> SUBSET Punches]
    BY <1>1, <1>2, SnapFields DEF Writes, WellTyped, At!TypeOK
  <1>8. attendance' \in [Shifts -> At!Core \cup {At!NoRow}]
    <2>1. \A s \in W : At!_sync_attendance(s, inflight[r].result[s]) \in At!Core \cup {At!NoRow}
      BY <1>3, <1>5, SyncTyped DEF WellTyped
    <2> QED BY <1>1, <2>1 DEF Writes, WellTyped, At!TypeOK
  <1>9. noshow' \in SUBSET Shifts
    BY <1>1, <1>3 DEF Writes, WellTyped, At!TypeOK
  <1>10. punch' \in [Punches -> At!Punch \cup {At!NoRow, At!Deleted}]
    BY <1>2 DEF WellTyped, At!TypeOK
  <1> QED BY <1>2, <1>4, <1>6, <1>7, <1>8, <1>9, <1>10 DEF WellTyped, At!TypeOK

\* The shift instances a punch recalculates are some.
LEMMA PickTyped ==
  ASSUME NEW t, NEW type
  PROVE  At!pick_shift_instance(t, type) \in SUBSET Shifts
  BY DEF At!pick_shift_instance

LEMMA FreshTyped ==
  ASSUME At!TypeOK, NEW p \in Punches, At!Fresh(p) \/ newer' = newer
  PROVE  newer' \in [Shifts -> SUBSET Punches]
  BY DEF At!Fresh, At!TypeOK

LEMMA TapTyped ==
  ASSUME WellTyped, NEW r \in Callers,
         (\E k \in Taps : At!TapBegin(r, k)) \/ (\E p \in Punches : At!TapInsert(r, p))
         \/ At!TapRejected(r) \/ At!Abort(r)
  PROVE  WellTyped'
  <1>1. ASSUME NEW k \in Taps, At!TapBegin(r, k) PROVE WellTyped'
    <2>1. At!decide_log_type \in At!Types
      BY DEF At!decide_log_type, At!Types
    <2>2. [op |-> "tap", tap |-> k, type |-> At!decide_log_type] \in Calls
      BY <2>1 DEF Calls, Portal
    <2>3. inflight' \in [Callers -> Calls]
      BY <1>1, <2>2, OpenTyped DEF At!TapBegin, WellTyped
    <2> QED BY <1>1, <2>3 DEF At!TapBegin, WellTyped, At!TypeOK, At!rows
  <1>2. ASSUME NEW p \in Punches, At!TapInsert(r, p) PROVE WellTyped'
    <2>1. inflight[r].tap \in Taps /\ inflight[r].type \in At!Types
      BY <1>2, CallFields DEF At!TapInsert, WellTyped
    <2>2. [time |-> now, type |-> inflight[r].type, auto |-> FALSE, tap |-> inflight[r].tap] \in At!Punch
      BY <2>1 DEF At!Punch, At!Clock, WellTyped, At!TypeOK
    <2>3. punch' \in [Punches -> At!Punch \cup {At!NoRow, At!Deleted}]
      BY <1>2, <2>2, InsertTyped DEF At!TapInsert, WellTyped
    <2>4. newer' \in [Shifts -> SUBSET Punches]
      BY <1>2, FreshTyped DEF At!TapInsert, WellTyped
    <2>5. [op |-> "inline", todo |-> At!pick_shift_instance(now, inflight[r].type)] \in Calls
      BY PickTyped DEF Calls, Waiting
    <2>6. inflight' \in [Callers -> Calls]
      BY <1>2, <2>5 DEF At!TapInsert, WellTyped
    <2> QED BY <1>2, <2>1, <2>3, <2>4, <2>6 DEF At!TapInsert, WellTyped, At!TypeOK
  <1>3. CASE At!TapRejected(r) \/ At!Abort(r)
    BY <1>3 DEF At!TapRejected, At!Abort, WellTyped, At!TypeOK, Calls, At!rows
  <1> QED BY <1>1, <1>2, <1>3

LEMMA PunchTyped ==
  ASSUME WellTyped, NEW p \in Punches,
         \/ Arrives(p) \/ \E s \in Shifts : At!_close_session(s, p)
         \/ \E t \in Times, type \in At!Types : At!update_checkin(p, t, type)
  PROVE  WellTyped'
  <1>1. ASSUME NEW t \in Times, NEW type \in At!Types,
               (\E quiet \in BOOLEAN : At!DevicePunch(p, t, type, quiet)) \/ At!create_checkin(p, t, type)
        PROVE  WellTyped'
    <2>1. [time |-> t, type |-> type, auto |-> FALSE, tap |-> 0] \in At!Punch
      BY DEF At!Punch, At!Clock
    <2>2. punch' \in [Punches -> At!Punch \cup {At!NoRow, At!Deleted}]
      BY <1>1, <2>1, InsertTyped DEF At!DevicePunch, At!create_checkin, WellTyped
    <2>3. newer' \in [Shifts -> SUBSET Punches]
      BY <1>1, FreshTyped DEF At!DevicePunch, At!create_checkin, WellTyped
    <2>4. queue' \in SUBSET Shifts
      BY <1>1, PickTyped DEF At!DevicePunch, At!create_checkin, WellTyped, At!TypeOK
    <2> QED BY <1>1, <2>2, <2>3, <2>4 DEF At!DevicePunch, At!create_checkin, WellTyped, At!TypeOK
  <1>2. ASSUME NEW s \in Shifts, At!_close_session(s, p) PROVE WellTyped'
    <2>1. PICK row : row = [time |-> Ends[s], type |-> "OUT", auto |-> TRUE, tap |-> 0] /\ At!NewRow(row, p)
      BY <1>2 DEF At!_close_session
    <2>2. Ends[s] \in At!Clock
      BY DEF At!Clock
    <2>3. row \in At!Punch
      BY <2>1, <2>2 DEF At!Punch, At!Types
    <2>4. punch' \in [Punches -> At!Punch \cup {At!NoRow, At!Deleted}]
      BY <2>1, <2>3, InsertTyped DEF WellTyped
    <2>5. session[s] \in At!Session
      BY <1>2, SessionFields DEF At!_close_session, WellTyped
    <2>6. [session[s] EXCEPT !.auto = TRUE, !.out = Ends[s]] \in At!Session
      BY <2>2, <2>5 DEF At!Session
    <2>7. session' \in [Shifts -> At!Session \cup {At!NoRow}]
      <3>1. session' = [session EXCEPT ![s] = [session[s] EXCEPT !.auto = TRUE, !.out = Ends[s]]]
        BY <1>2 DEF At!_close_session, WellTyped, At!TypeOK
      <3> QED BY <2>6, <3>1 DEF WellTyped, At!TypeOK
    <2>8. newer' \in [Shifts -> SUBSET Punches]
      BY <1>2, FreshTyped DEF At!_close_session, WellTyped
    <2>9. queue' \in SUBSET Shifts
      BY <1>2, PickTyped DEF At!_close_session, WellTyped, At!TypeOK
    <2> QED BY <1>2, <2>4, <2>7, <2>8, <2>9 DEF At!_close_session, WellTyped, At!TypeOK
  <1>3. ASSUME NEW t \in Times, NEW type \in At!Types, At!update_checkin(p, t, type) PROVE WellTyped'
    <2>1. punch[p] \in At!Punch
      BY <1>3, RowFields DEF At!update_checkin, WellTyped
    <2>2. [punch[p] EXCEPT !.time = t, !.type = type] \in At!Punch
      BY <2>1 DEF At!Punch, At!Clock
    <2>3. punch' = [punch EXCEPT ![p] = [punch[p] EXCEPT !.time = t, !.type = type]]
      BY <1>3 DEF At!update_checkin, WellTyped, At!TypeOK
    <2>4. punch' \in [Punches -> At!Punch \cup {At!NoRow, At!Deleted}]
      BY <2>2, <2>3 DEF WellTyped, At!TypeOK
    <2>5. queue' \in SUBSET Shifts
      BY <1>3, PickTyped DEF At!update_checkin, WellTyped, At!TypeOK
    <2> QED BY <1>3, <2>4, <2>5 DEF At!update_checkin, At!rows, WellTyped, At!TypeOK
  <1> QED BY <1>1, <1>2, <1>3 DEF Arrives

\* One session, its row or its queued job, or its core Attendance.
LEMMA SessionTyped ==
  ASSUME WellTyped, NEW s \in Shifts, OnSession(s) \/ At!approve_session_overtime(s)
  PROVE  WellTyped'
  <1>1. CASE At!JobLost(s) \/ At!LeaveApproved(s)
    BY <1>1 DEF At!JobLost, At!LeaveApproved, At!rows, WellTyped, At!TypeOK
  <1>2. CASE At!recalculate_work_session(s)
    <2>1. session[s] \in At!Session
      BY <1>2, SessionFields DEF At!recalculate_work_session, WellTyped
    <2>2. [session[s] EXCEPT !.status = "Recalculating"] \in At!Session
      BY <2>1 DEF At!Session
    <2>3. session' = [session EXCEPT ![s] = [session[s] EXCEPT !.status = "Recalculating"]]
      BY <1>2 DEF At!recalculate_work_session, WellTyped, At!TypeOK
    <2>4. session' \in [Shifts -> At!Session \cup {At!NoRow}]
      BY <2>2, <2>3 DEF WellTyped, At!TypeOK
    <2> QED BY <1>2, <2>4 DEF At!recalculate_work_session, WellTyped, At!TypeOK
  <1>3. ASSUME NEW st \in {"Present", "Absent"}, NEW o \in BOOLEAN, At!mark_attendance_bulk(s, st, o)
        PROVE  WellTyped'
    <2>1. (attendance[s] # At!NoRow /\ attendance[s].submitted) \in BOOLEAN
      OBVIOUS
    <2>2. \A b \in BOOLEAN : [status |-> st, submitted |-> b] \in At!Core
      BY DEF At!Core
    <2>3. PICK new \in At!Core : attendance' = [attendance EXCEPT ![s] = new]
      BY <1>3, <2>1, <2>2, Zenon DEF At!mark_attendance_bulk
    <2>4. attendance' \in [Shifts -> At!Core \cup {At!NoRow}]
      BY <2>3 DEF WellTyped, At!TypeOK
    <2> QED BY <1>3, <2>4 DEF At!mark_attendance_bulk, WellTyped, At!TypeOK
  <1>4. CASE At!approve_session_overtime(s)
    <2>1. session[s] \in At!Session
      BY <1>4, SessionFields DEF At!approve_session_overtime, WellTyped
    <2>2. [session[s] EXCEPT !.approved = TRUE] \in At!Session
      BY <2>1 DEF At!Session
    <2>3. session' = [session EXCEPT ![s] = [session[s] EXCEPT !.approved = TRUE]]
      BY <1>4 DEF At!approve_session_overtime, WellTyped, At!TypeOK
    <2>4. session' \in [Shifts -> At!Session \cup {At!NoRow}]
      BY <2>2, <2>3 DEF WellTyped, At!TypeOK
    <2>5. inflight' \in [Callers -> Calls]
      BY <1>4, ChangedTyped DEF At!approve_session_overtime, WellTyped
    <2> QED BY <1>4, <2>4, <2>5 DEF At!approve_session_overtime, WellTyped, At!TypeOK
  <1> QED BY <1>1, <1>2, <1>3, <1>4 DEF OnSession

\* The job of 02:00, and the marks of every session at once.
LEMMA AbsentTyped ==
  ASSUME WellTyped, NEW r \in Callers, At!AbsentBegin(r) \/ At!auto_mark_absent_job(r)
  PROVE  WellTyped'
  <1>1. CASE At!AbsentBegin(r)
    <2>1. PICK T \in SUBSET Shifts : At!Open(r, [op |-> "absent", todo |-> T])
      BY <1>1 DEF At!AbsentBegin, At!Existing
    <2>2. [op |-> "absent", todo |-> T] \in Calls
      BY DEF Calls, Waiting
    <2>3. inflight' \in [Callers -> Calls]
      BY <2>1, <2>2, OpenTyped DEF WellTyped
    <2> QED BY <1>1, <2>3 DEF At!AbsentBegin, At!rows, WellTyped, At!TypeOK
  <1>2. CASE At!auto_mark_absent_job(r)
    <2>1. inflight[r].todo \in SUBSET Shifts
      BY <1>2, CallFields DEF At!auto_mark_absent_job, WellTyped
    <2>2. inflight' \in [Callers -> Calls]
      BY <1>2, <2>1, CommitTyped DEF At!auto_mark_absent_job, WellTyped, Calls
    <2>3. ASSUME NEW s \in Shifts PROVE session'[s] \in At!Session \cup {At!NoRow}
      <3>1. session[s] \in At!Session \cup {At!NoRow}
        BY DEF WellTyped, At!TypeOK
      <3>2. [session[s] EXCEPT !.absent = TRUE] \in At!Session \cup {At!NoRow}
        BY <3>1 DEF At!Session, At!NoRow
      <3> QED BY <1>2, <3>1, <3>2 DEF At!auto_mark_absent_job
    <2>4. session' \in [Shifts -> At!Session \cup {At!NoRow}]
      BY <1>2, <2>3 DEF At!auto_mark_absent_job
    <2> QED BY <1>2, <2>2, <2>4 DEF At!auto_mark_absent_job, WellTyped, At!TypeOK
  <1> QED BY <1>1, <1>2

LEMMA BackfillTyped ==
  ASSUME WellTyped, At!backfill_attendance
  PROVE  WellTyped'
  <1>1. \A s \in At!Existing : At!_sync_attendance(s, session[s]) \in At!Core \cup {At!NoRow}
    BY SessionFields, SyncTyped DEF WellTyped, At!Existing
  <1>2. attendance' \in [Shifts -> At!Core \cup {At!NoRow}]
    BY <1>1 DEF At!backfill_attendance, WellTyped, At!TypeOK
  <1> QED BY <1>2 DEF At!backfill_attendance, WellTyped, At!TypeOK

LEMMA WellTypedInit ==
  ASSUME Hourly, At!Init
  PROVE  WellTyped
  <1>1. At!Min(Times) \in Times
    BY MinIsLeast DEF Hourly, At!ShiftPlan
  <1> QED BY <1>1 DEF At!Init, WellTyped, At!TypeOK, Calls

LEMMA WellTypedNext ==
  ASSUME Hourly, WellTyped, [At!Next]_At!vars
  PROVE  WellTyped'
  <1>1. CASE UNCHANGED At!vars
    BY <1>1 DEF At!vars, WellTyped, At!TypeOK
  <1>2. CASE At!Hour \/ At!LockMonth
    BY <1>2 DEF At!Hour, At!LockMonth, At!rows, WellTyped, At!TypeOK
  <1>3. ASSUME NEW r \in Callers, StartSnap(r) PROVE WellTyped'
    BY <1>3, StartsBegun DEF At!rows, WellTyped, At!TypeOK
  <1> QED
    BY <1>1, <1>2, <1>3, AttendanceSteps, SavesTyped, TapTyped, PunchTyped, SessionTyped, AbsentTyped, BackfillTyped

\* The rows of the sessions, the punches, the core Attendance and the marks have their types,
\* whatever runs at once.
THEOREM SessionsTyped == ASSUME Hourly PROVE AttendanceSpec => []At!TypeOK
  <1>1. At!Init => WellTyped
    BY WellTypedInit
  <1>2. WellTyped /\ [At!Next]_At!vars => WellTyped'
    BY WellTypedNext
  <1>3. WellTyped => At!TypeOK
    BY DEF WellTyped
  <1> QED BY <1>1, <1>2, <1>3, PTL DEF AttendanceSpec, At!Spec

-----------------------------------------------------------------------------
(* Nothing is left out of a later save.  A snapshot whose stamp for a session is current    *)
(* has read every row that session was calculated with: whoever saved the session since     *)
(* took the stamp away.  A row that is new since the snapshot was in no calculation.        *)

Once(p) == punch[p] # At!NoRow          \* the row is or was in the table
Spared(q) == IF q.op = "delete" THEN {q.punch} ELSE {}
Covers(q) ==
  /\ \A p \in q.read : Once(p)
  /\ \A s \in q.fresh : counted[s] \cap At!Rows \subseteq q.read \cup Spared(q)
CountsKept ==
  /\ \A s \in Shifts : \A p \in counted[s] : Once(p)
  /\ \A r \in Callers : inflight[r].op \in At!Snapshots => Covers(inflight[r])

\* What a step can do to a row: insert it where there was none, change or delete it.
LEMMA RowSteps ==
  ASSUME WellTyped, [At!Next]_At!vars, NEW p \in Punches
  PROVE  /\ Once(p) => Once(p)'
         /\ Once(p) /\ p \in At!Rows' => p \in At!Rows
  <1> DEFINE Stays == (Once(p) => Once(p)') /\ (Once(p) /\ p \in At!Rows' => p \in At!Rows)
  <1>1. ASSUME punch' = punch PROVE Stays
    BY <1>1 DEF Once, At!Rows
  <1>2. ASSUME NEW u \in Punches, NEW row, At!NewRow(row, u), row.tap \in Taps \cup {0} PROVE Stays
    <2>1. punch[u] = At!NoRow /\ (p # u => punch'[p] = punch[p])
      BY <1>2 DEF At!NewRow, WellTyped, At!TypeOK
    <2> QED BY <2>1 DEF Once, At!Rows
  <1>3. ASSUME NEW r \in Callers, Saves(r) PROVE Stays
    <2>1. punch' = punch \/ punch' = [punch EXCEPT ![inflight[r].punch] = At!Deleted]
      BY <1>3, SavesWhat
    <2>2. punch'[p] = punch[p] \/ punch'[p] = At!Deleted
      BY <2>1 DEF WellTyped, At!TypeOK
    <2> QED BY <2>2 DEF Once, At!Rows, At!Deleted, At!NoRow
  <1>4. ASSUME NEW u \in Punches, NEW t \in Times, NEW type \in At!Types, At!update_checkin(u, t, type)
        PROVE  Stays
    <2>1. u \in At!Rows /\ (p # u => punch'[p] = punch[p])
      BY <1>4 DEF At!update_checkin, WellTyped, At!TypeOK
    <2>2. punch[u] \in At!Punch
      BY <2>1, RowFields DEF WellTyped
    <2>3. punch'[u] = [punch[u] EXCEPT !.time = t, !.type = type]
      BY <1>4 DEF At!update_checkin, WellTyped, At!TypeOK
    <2>4. punch'[u] # At!NoRow
      BY <2>2, <2>3 DEF At!Punch, At!NoRow
    <2> QED BY <2>1, <2>4 DEF Once, At!Rows
  <1> HIDE DEF Stays
  <1>5. ASSUME NEW u \in Punches, Arrives(u) \/ \E s \in Shifts : At!_close_session(s, u) PROVE Stays
    <2>1. \E row : At!NewRow(row, u) /\ row.tap \in Taps \cup {0}
      <3>1. ASSUME NEW t, NEW type, NEW auto,
                   At!NewRow([time |-> t, type |-> type, auto |-> auto, tap |-> 0], u)
            PROVE  \E row : At!NewRow(row, u) /\ row.tap \in Taps \cup {0}
        BY <3>1
      <3> QED BY <1>5, <3>1 DEF Arrives, At!DevicePunch, At!create_checkin, At!_close_session
    <2> QED BY <1>2, <2>1
  <1>6. ASSUME NEW r \in Callers, NEW u \in Punches, At!TapInsert(r, u) PROVE Stays
    <2>1. inflight[r].tap \in Taps
      BY <1>6, CallFields DEF At!TapInsert, WellTyped
    <2>2. PICK row : /\ row = [time |-> now, type |-> inflight[r].type, auto |-> FALSE, tap |-> inflight[r].tap]
                     /\ At!NewRow(row, u)
      BY <1>6 DEF At!TapInsert
    <2> QED BY <1>2, <2>1, <2>2
  <1>7. ASSUME \/ UNCHANGED At!vars \/ At!Hour \/ At!LockMonth \/ At!backfill_attendance
               \/ \E s \in Shifts : OnSession(s) \/ At!approve_session_overtime(s)
               \/ \E r \in Callers : \/ StartSnap(r) \/ At!Abort(r) \/ At!TapRejected(r)
                                     \/ At!AbsentBegin(r) \/ At!auto_mark_absent_job(r)
                                     \/ \E k \in Taps : At!TapBegin(r, k)
        PROVE  punch' = punch
    BY <1>7 DEF At!vars, At!Hour, At!LockMonth, At!backfill_attendance, OnSession, At!JobLost,
                At!recalculate_work_session, At!LeaveApproved, At!mark_attendance_bulk,
                At!approve_session_overtime, StartSnap, At!InlineBegin, At!DeleteBegin, At!JobBegin, At!HealBegin,
                At!PeriodBegin, At!Abort, At!TapRejected, At!AbsentBegin, At!auto_mark_absent_job, At!TapBegin
  <1>8. Stays
    BY <1>1, <1>3, <1>4, <1>5, <1>6, <1>7, AttendanceSteps
  <1> QED BY <1>8 DEF Stays

\* Only a save changes what a session was calculated with.
LEMMA CountedSteps ==
  ASSUME WellTyped, [At!Next]_At!vars
  PROVE  counted' = counted \/ \E r \in Callers : Saves(r)
  BY AttendanceSteps DEF At!vars, At!Hour, At!LockMonth, At!backfill_attendance, OnSession, At!JobLost,
               At!recalculate_work_session, At!LeaveApproved, At!mark_attendance_bulk,
               At!approve_session_overtime, StartSnap, At!InlineBegin, At!DeleteBegin, At!JobBegin, At!HealBegin,
               At!PeriodBegin, At!Abort, At!TapRejected, At!AbsentBegin, At!auto_mark_absent_job, At!TapBegin,
               At!TapInsert, Arrives, At!DevicePunch, At!create_checkin, At!update_checkin, At!_close_session, At!rows

\* The same snapshot with fewer stamps.
Worn(a, b) ==
  /\ a.op \in At!Snapshots /\ b.op = a.op /\ b.read = a.read /\ b.punch = a.punch
  /\ b.result = a.result /\ b.fresh \subseteq a.fresh

LEMMA WornBy ==
  ASSUME NEW a \in Snap, NEW S, NEW b, b = [a EXCEPT !.fresh = @ \ S]
  PROVE  Worn(a, b)
  BY SnapFields DEF Worn, Snap

\* A request is left alone, loses some stamps, starts, or ends.
LEMMA SnapSteps ==
  ASSUME Hourly, WellTyped, [At!Next]_At!vars, NEW q \in Callers, inflight'[q].op \in At!Snapshots
  PROVE  \/ inflight'[q] = inflight[q]
         \/ Worn(inflight[q], inflight'[q])
         \/ StartSnap(q) /\ Begun(inflight'[q])
  <1>1. ASSUME NEW r \in Callers, NEW next, NEW S \in SUBSET Shifts, next \in Calls,
               At!Commit(r, next, S), next.op \notin At!Snapshots
        PROVE  inflight'[q] = inflight[q] \/ Worn(inflight[q], inflight'[q])
    <2>1. q # r
      BY <1>1, CommitTyped DEF WellTyped
    <2>2. /\ inflight[q].op \notin At!Snapshots => inflight'[q] = inflight[q]
          /\ inflight[q].op \in At!Snapshots => inflight'[q] = [inflight[q] EXCEPT !.fresh = @ \ S]
      BY <1>1, <2>1, CommitTyped DEF WellTyped
    <2>3. inflight[q].op \in At!Snapshots => inflight[q] \in Snap
      BY CallFields DEF WellTyped
    <2> QED BY <2>2, <2>3, WornBy
  <1>2. ASSUME NEW r \in Callers, Saves(r)
        PROVE  inflight'[q] = inflight[q] \/ Worn(inflight[q], inflight'[q])
    <2>1. PICK W : Writes(inflight[r], W) /\ At!Commit(r, At!Idle, W)
      BY <1>2, SavesWhat
    <2>2. W \in SUBSET Shifts
      BY <1>2, <2>1, SavesWhat, SnapFields DEF Writes
    <2>3. At!Idle \in Calls /\ At!Idle.op \notin At!Snapshots
      BY DEF Calls, At!Idle, At!Snapshots
    <2> QED BY <1>1, <2>1, <2>2, <2>3
  <1>3. ASSUME NEW r \in Callers, At!auto_mark_absent_job(r)
        PROVE  inflight'[q] = inflight[q] \/ Worn(inflight[q], inflight'[q])
    <2>1. inflight[r].todo \in SUBSET Shifts
      BY <1>3, CallFields DEF At!auto_mark_absent_job, WellTyped
    <2>2. At!Idle \in Calls /\ At!Idle.op \notin At!Snapshots
      BY DEF Calls, At!Idle, At!Snapshots
    <2> QED BY <1>1, <1>3, <2>1, <2>2 DEF At!auto_mark_absent_job
  <1>4. ASSUME NEW s \in Shifts, At!approve_session_overtime(s)
        PROVE  inflight'[q] = inflight[q] \/ Worn(inflight[q], inflight'[q])
    <2>1. /\ inflight[q].op \notin At!Snapshots => inflight'[q] = inflight[q]
          /\ inflight[q].op \in At!Snapshots => inflight'[q] = [inflight[q] EXCEPT !.fresh = @ \ {s}]
      BY <1>4, ChangedTyped DEF At!approve_session_overtime, WellTyped
    <2>2. inflight[q].op \in At!Snapshots => inflight[q] \in Snap
      BY CallFields DEF WellTyped
    <2> QED BY <2>1, <2>2, WornBy
  <1>5. ASSUME NEW r \in Callers, StartSnap(r)
        PROVE  inflight'[q] = inflight[q] \/ (StartSnap(q) /\ Begun(inflight'[q]))
    BY <1>5, StartsBegun
  <1>6. ASSUME NEW r \in Callers, NEW k \in Taps, At!TapBegin(r, k) PROVE inflight'[q] = inflight[q]
    BY <1>6 DEF At!TapBegin, At!Open, WellTyped, At!Snapshots
  <1>7. ASSUME NEW r \in Callers, NEW p \in Punches, At!TapInsert(r, p) PROVE inflight'[q] = inflight[q]
    BY <1>7 DEF At!TapInsert, WellTyped, At!Snapshots
  <1>8. ASSUME NEW r \in Callers, At!Abort(r) \/ At!TapRejected(r) \/ At!AbsentBegin(r) PROVE inflight'[q] = inflight[q]
    BY <1>8 DEF At!Abort, At!TapRejected, At!AbsentBegin, At!Open, WellTyped, At!Snapshots, At!Idle
  <1>9. ASSUME \/ UNCHANGED At!vars \/ At!Hour \/ At!LockMonth \/ At!backfill_attendance
               \/ \E s \in Shifts : OnSession(s)
               \/ \E p \in Punches :
                    \/ Arrives(p) \/ \E s \in Shifts : At!_close_session(s, p)
                    \/ \E t \in Times, type \in At!Types : At!update_checkin(p, t, type)
        PROVE  inflight' = inflight
    BY <1>9 DEF At!vars, At!Hour, At!LockMonth, At!backfill_attendance, OnSession, At!JobLost,
               At!recalculate_work_session, At!LeaveApproved, At!mark_attendance_bulk,
               Arrives, At!DevicePunch, At!create_checkin, At!update_checkin, At!_close_session, At!rows
  <1> QED BY <1>2, <1>3, <1>4, <1>5, <1>6, <1>7, <1>8, <1>9, AttendanceSteps

\* A save, seen from a session and from the other snapshots.
LEMMA SaveCounts ==
  ASSUME WellTyped, NEW r \in Callers, Saves(r), NEW s \in Shifts
  PROVE  \/ counted'[s] = counted[s]
         \/ /\ s \in inflight[r].fresh /\ counted'[s] = inflight[r].read
            /\ \A q \in Callers : inflight'[q].op \in At!Snapshots => s \notin inflight'[q].fresh
  <1>1. PICK W : Writes(inflight[r], W) /\ At!Commit(r, At!Idle, W)
    BY SavesWhat
  <1>2. W \in SUBSET Shifts /\ W \in SUBSET inflight[r].fresh
    BY <1>1, SavesWhat, SnapFields DEF Writes
  <1>3. ASSUME s \in W, NEW q \in Callers, inflight'[q].op \in At!Snapshots PROVE s \notin inflight'[q].fresh
    <2>1. At!Idle \in Calls /\ At!Idle.op \notin At!Snapshots
      BY DEF Calls, At!Idle, At!Snapshots
    <2>2. q # r /\ inflight[q].op \in At!Snapshots /\ inflight'[q] = [inflight[q] EXCEPT !.fresh = @ \ W]
      BY <1>1, <1>2, <1>3, <2>1, CommitTyped DEF WellTyped
    <2>3. inflight[q] \in Snap
      BY <2>2, CallFields DEF WellTyped
    <2> QED BY <1>3, <2>2, <2>3 DEF Snap
  <1> QED BY <1>1, <1>2, <1>3 DEF Writes

\* What a save counts: everything that was counted before and is still there.
LEMMA SaveCovers ==
  ASSUME WellTyped, CountsKept, [At!Next]_At!vars, NEW r \in Callers, Saves(r), NEW s \in inflight[r].fresh
  PROVE  counted[s] \cap At!Rows' \subseteq inflight[r].read
  <1> SUFFICES ASSUME NEW p \in counted[s], p \in At!Rows' PROVE p \in inflight[r].read
    OBVIOUS
  <1>1. /\ inflight[r] \in Snap /\ inflight[r].op \in At!Snapshots /\ s \in Shifts
        /\ punch' = IF inflight[r].op = "delete" THEN [punch EXCEPT ![inflight[r].punch] = At!Deleted] ELSE punch
    BY SavesWhat, SnapFields
  <1>2. p \in Punches /\ Once(p)
    BY <1>1 DEF CountsKept, WellTyped, At!TypeOK
  <1>3. p \in At!Rows
    BY <1>2, RowSteps
  <1>4. p \in inflight[r].read \cup Spared(inflight[r])
    BY <1>1, <1>3 DEF CountsKept, Covers
  <1>5. p \notin Spared(inflight[r])
    BY <1>1, <1>2 DEF Spared, At!Rows, WellTyped, At!TypeOK
  <1> QED BY <1>4, <1>5

LEMMA CoversKept ==
  ASSUME Hourly, WellTyped, CountsKept, [At!Next]_At!vars, NEW q \in Callers, inflight'[q].op \in At!Snapshots
  PROVE  Covers(inflight[q])'
  <1>1. ASSUME inflight'[q] = inflight[q] \/ Worn(inflight[q], inflight'[q])
        PROVE  Covers(inflight[q])'
    <2>1. /\ inflight[q].op \in At!Snapshots /\ inflight'[q].op = inflight[q].op /\ inflight'[q].read = inflight[q].read
          /\ inflight'[q].punch = inflight[q].punch /\ inflight'[q].fresh \subseteq inflight[q].fresh
      BY <1>1 DEF Worn
    <2>2. Covers(inflight[q]) /\ inflight[q].read \in SUBSET Punches /\ inflight[q].fresh \in SUBSET Shifts
      BY <2>1, CallFields, SnapFields DEF CountsKept, WellTyped
    <2>3. \A p \in inflight'[q].read : Once(p)'
      BY <2>1, <2>2, RowSteps DEF Covers
    <2>4. ASSUME NEW s \in inflight'[q].fresh
          PROVE  counted'[s] \cap At!Rows' \subseteq inflight'[q].read \cup Spared(inflight'[q])
      <3>1. counted'[s] = counted[s]
        BY <2>1, <2>2, <2>4, CountedSteps, SaveCounts
      <3>2. \A p \in counted[s] : p \in Punches /\ Once(p)
        BY <2>1, <2>2 DEF CountsKept, WellTyped, At!TypeOK
      <3>3. counted[s] \cap At!Rows' \subseteq counted[s] \cap At!Rows
        BY <3>2, RowSteps
      <3>4. Spared(inflight'[q]) = Spared(inflight[q])
        BY <2>1 DEF Spared
      <3> QED BY <2>1, <2>2, <3>1, <3>3, <3>4 DEF Covers
    <2>5. PICK c : c = inflight'[q]
      OBVIOUS
    <2>6. Covers(c)'
      BY <2>3, <2>4, <2>5 DEF Covers, Spared
    <2> QED BY <2>5, <2>6 DEF Covers, Spared
  <1>2. ASSUME StartSnap(q), Begun(inflight'[q])
        PROVE  Covers(inflight[q])'
    <2>1. punch' = punch /\ counted' = counted
      BY <1>2, StartsBegun DEF At!rows
    <2>2. PICK c : c = inflight'[q]
      OBVIOUS
    <2>3. c.read = IF c.op = "delete" THEN At!Rows \ {c.punch} ELSE At!Rows
      BY <1>2, <2>2 DEF Begun
    <2>4. \A p \in c.read : Once(p)'
      BY <2>1, <2>3 DEF Once, At!Rows
    <2>5. At!Rows' \subseteq c.read \cup Spared(c)
      BY <2>1, <2>3 DEF At!Rows, Spared
    <2>6. Covers(c)'
      BY <2>4, <2>5 DEF Covers, Spared
    <2> QED BY <2>2, <2>6 DEF Covers, Spared
  <1> QED BY <1>1, <1>2, SnapSteps

LEMMA CountsNext ==
  ASSUME Hourly, WellTyped, CountsKept, [At!Next]_At!vars
  PROVE  CountsKept'
  <1>1. ASSUME NEW s \in Shifts, NEW p \in counted'[s] PROVE Once(p)'
    <2>1. CASE counted'[s] = counted[s]
      BY <1>1, <2>1, RowSteps DEF CountsKept, WellTyped, At!TypeOK
    <2>2. ASSUME NEW r \in Callers, Saves(r), counted'[s] = inflight[r].read PROVE Once(p)'
      <3>1. inflight[r].op \in At!Snapshots /\ inflight[r].read \in SUBSET Punches
        BY <2>2, SavesWhat, SnapFields
      <3> QED BY <1>1, <2>2, <3>1, RowSteps DEF CountsKept, Covers
    <2> QED BY <2>1, <2>2, CountedSteps, SaveCounts
  <1>2. ASSUME NEW q \in Callers, inflight'[q].op \in At!Snapshots PROVE Covers(inflight[q])'
    BY <1>2, CoversKept
  <1> QED BY <1>1, <1>2 DEF CountsKept

\* A punch that a session was calculated with, and that is still there, is never left out by
\* a later save: the stamp of the row orders the tap's own recalculation, the jobs, the healing
\* reads, the monthly one and HR's deletions, however many there are (persist_work_session).
THEOREM NothingUncounted == ASSUME Hourly PROVE AttendanceSpec => NeverUncounted
  <1>1. ASSUME At!Init PROVE WellTyped /\ CountsKept
    <2>1. \A s \in Shifts : counted[s] = {}
      BY <1>1 DEF At!Init
    <2>2. \A r \in Callers : inflight[r].op \notin At!Snapshots
      BY <1>1 DEF At!Init, At!Idle, At!Snapshots
    <2> QED BY <1>1, WellTypedInit, <2>1, <2>2 DEF CountsKept
  <1>2. WellTyped /\ CountsKept /\ [At!Next]_At!vars => WellTyped' /\ CountsKept'
    BY WellTypedNext, CountsNext
  <1>3. WellTyped /\ CountsKept /\ [At!Next]_At!vars
          => [\A s \in Shifts : counted[s] \cap At!Rows' \subseteq counted'[s]]_At!vars
    <2> SUFFICES ASSUME WellTyped, CountsKept, [At!Next]_At!vars, NEW s \in Shifts
                 PROVE  counted[s] \cap At!Rows' \subseteq counted'[s]
      OBVIOUS
    <2>1. CASE counted'[s] = counted[s]
      BY <2>1
    <2>2. ASSUME NEW r \in Callers, Saves(r), s \in inflight[r].fresh, counted'[s] = inflight[r].read
          PROVE  counted[s] \cap At!Rows' \subseteq counted'[s]
      BY <2>2, SaveCovers
    <2> QED BY <2>1, <2>2, CountedSteps, SaveCounts
  <1> QED BY <1>1, <1>2, <1>3, PTL DEF AttendanceSpec, At!Spec, NeverUncounted, At!NeverUncounted

-----------------------------------------------------------------------------
(* What a tap makes.  The audit row that is inserted with the punch has the request's id,   *)
(* and that id is unique.  Where punches come from the portal alone, whether a tap is an IN *)
(* or an OUT depends on the rows of earlier hours, which nothing changes: every tap of one  *)
(* time has the same turn.                                                                  *)

Audited == \A p \in At!Rows : punch[p].tap \in taps \cup {0}

PortalOnly == ops \cap At!OtherChannels = {}
Earlier == {p \in At!Rows : At!Day(punch[p].time) \in {At!Day(now) - 1, At!Day(now)} /\ punch[p].time < now}
Before  == {p \in Earlier : \A q \in Earlier : punch[q].time <= punch[p].time}
Turn    == IF \E p \in Before : punch[p].type = "IN" THEN "OUT" ELSE "IN"
InTurn ==
  /\ \A p \in At!Rows : punch[p].time <= now /\ (punch[p].time = now => punch[p].type = Turn)
  /\ \A r \in Callers : inflight[r].op = "tap" => inflight[r].type = Turn
  /\ \A p, q \in At!Rows : punch[p].time = punch[q].time => punch[p].type = punch[q].type
Deleters == \A r \in Callers : inflight[r].op = "delete" => "delete" \in ops
Taken == Audited /\ At!OneTapOnePunch /\ Deleters /\ (PortalOnly => InTurn)

\* A request deletes only in a behaviour with deletions.
LEMMA DeletersNext ==
  ASSUME Hourly, WellTyped, Deleters, At!Next
  PROVE  Deleters'
  <1> SUFFICES ASSUME NEW q \in Callers, inflight'[q].op = "delete" PROVE "delete" \in ops'
    BY DEF Deleters
  <1>1. ops' = ops
    BY DEF At!Next
  <1>2. CASE inflight'[q] = inflight[q] \/ Worn(inflight[q], inflight'[q])
    BY <1>1, <1>2 DEF Deleters, Worn
  <1>3. CASE StartSnap(q)
    BY <1>1, <1>3, StartsBegun
  <1> QED BY <1>2, <1>3, SnapSteps DEF At!Snapshots

\* A tap in flight stays as it is, or has just begun.
LEMMA TapSteps ==
  ASSUME Hourly, WellTyped, [At!Next]_At!vars, NEW q \in Callers, inflight'[q].op = "tap"
  PROVE  inflight'[q] = inflight[q] \/ \E k \in Taps : /\ At!TapBegin(q, k) /\ ~At!is_duplicate_intent
                                                       /\ inflight'[q].type = At!decide_log_type
  <1>1. ASSUME NEW r \in Callers, NEW next \in Calls, next.op # "tap", NEW S \in SUBSET Shifts,
               At!Commit(r, next, S)
        PROVE  inflight'[q] = inflight[q]
    <2>1. q # r /\ inflight'[q].op = inflight[q].op
      BY <1>1, CommitTyped DEF WellTyped
    <2> QED BY <1>1, <2>1, CommitTyped DEF WellTyped, At!Snapshots
  <1>2. At!Idle \in Calls /\ At!Idle.op # "tap"
    BY DEF Calls, At!Idle
  <1>3. ASSUME NEW r \in Callers, Saves(r) PROVE inflight'[q] = inflight[q]
    <2>1. PICK W : Writes(inflight[r], W) /\ At!Commit(r, At!Idle, W)
      BY <1>3, SavesWhat
    <2>2. W \in SUBSET Shifts
      BY <1>3, <2>1, SavesWhat, SnapFields DEF Writes
    <2> QED BY <1>1, <1>2, <2>1, <2>2
  <1>4. ASSUME NEW r \in Callers, At!auto_mark_absent_job(r) PROVE inflight'[q] = inflight[q]
    <2>1. inflight[r].todo \in SUBSET Shifts
      BY <1>4, CallFields DEF At!auto_mark_absent_job, WellTyped
    <2> QED BY <1>1, <1>2, <1>4, <2>1 DEF At!auto_mark_absent_job
  <1>5. ASSUME NEW s \in Shifts, At!approve_session_overtime(s) PROVE inflight'[q] = inflight[q]
    BY <1>5, ChangedTyped DEF At!approve_session_overtime, WellTyped, At!Snapshots
  <1>7. ASSUME NEW r \in Callers, StartSnap(r) PROVE inflight'[q] = inflight[q]
    <2>1. inflight'[r].op \in At!Snapshots
      BY <1>7, StartsBegun, SnapFields DEF Begun
    <2> QED BY <1>7, <2>1, StartsBegun DEF At!Snapshots
  <1>8. ASSUME NEW r \in Callers, NEW k \in Taps, At!TapBegin(r, k), q = r \/ inflight' = inflight
        PROVE  inflight'[q] = inflight[q] \/ /\ At!TapBegin(q, k) /\ ~At!is_duplicate_intent
                                             /\ inflight'[q].type = At!decide_log_type
    BY <1>8 DEF At!TapBegin, At!Open, WellTyped
  <1>9. ASSUME NEW r \in Callers, NEW k \in Taps, At!TapBegin(r, k), q # r PROVE inflight'[q] = inflight[q]
    BY <1>9 DEF At!TapBegin, At!Open, WellTyped
  <1>10. ASSUME NEW r \in Callers, \/ \E p \in Punches : At!TapInsert(r, p)
                                   \/ At!Abort(r) \/ At!TapRejected(r) \/ At!AbsentBegin(r)
         PROVE  inflight'[q] = inflight[q]
    BY <1>10 DEF At!TapInsert, At!Abort, At!TapRejected, At!AbsentBegin, At!Open, WellTyped, At!Idle
  <1>11. ASSUME \/ UNCHANGED At!vars \/ At!Hour \/ At!LockMonth \/ At!backfill_attendance
                \/ \E s \in Shifts : OnSession(s)
                \/ \E p \in Punches :
                     \/ Arrives(p) \/ \E s \in Shifts : At!_close_session(s, p)
                     \/ \E t \in Times, type \in At!Types : At!update_checkin(p, t, type)
         PROVE  inflight' = inflight
    BY <1>11 DEF At!vars, At!Hour, At!LockMonth, At!backfill_attendance, OnSession, At!JobLost,
               At!recalculate_work_session, At!LeaveApproved, At!mark_attendance_bulk,
               Arrives, At!DevicePunch, At!create_checkin, At!update_checkin, At!_close_session, At!rows
  <1> QED BY <1>3, <1>4, <1>5, <1>7, <1>8, <1>9, <1>10, <1>11, AttendanceSteps

\* The rows of earlier hours decide the turn: it stays while they and the hour stay.
LEMMA TurnStays ==
  ASSUME WellTyped, now' = now, now \in Nat,
         \A p \in Punches : (p \in Earlier)' <=> p \in Earlier,
         \A p \in Earlier : punch'[p] = punch[p]
  PROVE  Turn' = Turn
  <1>1. Earlier' = Earlier
    BY DEF Earlier, At!Rows
  <1>2. Before' = Before
    BY <1>1 DEF Before
  <1>3. \A p \in Before : punch'[p] = punch[p]
    BY DEF Before
  <1> QED BY <1>2, <1>3 DEF Turn

\* A tap that begins where no row has its time has the turn.
LEMMA BeginsInTurn ==
  ASSUME Hourly, WellTyped, InTurn, ~At!is_duplicate_intent
  PROVE  At!decide_log_type = Turn /\ \A p \in At!Rows : punch[p].time # now
  <1>1. now \in Nat /\ \A p \in At!Rows : punch[p].time \in Nat /\ punch[p].time <= now
    <2>1. At!Clock \subseteq Nat
      BY DEF At!Clock, Hourly, At!ShiftPlan
    <2>2. \A p \in At!Rows : punch[p].time \in Nat
      BY <2>1, RowFields DEF WellTyped, At!Punch
    <2> QED BY <2>2 DEF WellTyped, At!TypeOK, InTurn, Hourly, At!ShiftPlan
  <1>2. ASSUME NEW p \in At!Rows, punch[p].time = now PROVE FALSE
    <2>1. p \in At!Recent
      BY <1>2 DEF At!Recent
    <2>2. p \in At!Newest
      BY <1>1, <1>2, <2>1 DEF At!Newest, At!Recent
    <2> QED BY <1>2, <2>2 DEF At!is_duplicate_intent
  <1>3. At!Recent = Earlier
    <2>1. \A p \in At!Rows : punch[p].time < now
      BY <1>1, <1>2
    <2> QED BY <2>1 DEF At!Recent, Earlier
  <1>4. At!Newest = Before
    BY <1>3 DEF At!Newest, Before
  <1> QED BY <1>2, <1>4 DEF At!decide_log_type, Turn

\* A tap puts its row at the hour, in its turn.
LEMMA InsertsInTurn ==
  ASSUME Hourly, WellTyped, InTurn, NEW r \in Callers, NEW u \in Punches, At!TapInsert(r, u)
  PROVE  InTurn'
  <1>1. PICK row : /\ row = [time |-> now, type |-> inflight[r].type, auto |-> FALSE, tap |-> inflight[r].tap]
                   /\ At!NewRow(row, u)
    BY DEF At!TapInsert
  <1>2. row.time = now /\ row.type = Turn /\ now \in Nat /\ now' = now
    BY <1>1 DEF At!TapInsert, InTurn, WellTyped, At!TypeOK, Hourly, At!ShiftPlan
  <1>3. u \notin At!Rows /\ At!Rows' \subseteq At!Rows \cup {u} /\ punch'[u] = row
        /\ \A p \in Punches \ {u} : punch'[p] = punch[p]
    BY <1>1 DEF At!NewRow, At!Rows, WellTyped, At!TypeOK
  <1>4. \A p \in At!Rows : p # u /\ punch'[p] = punch[p]
    BY <1>3 DEF At!Rows
  <1>5. Turn' = Turn
    <2>1. ~(now < now)
      BY <1>2
    <2>2. \A p \in Punches \ {u} : p \in At!Rows' <=> p \in At!Rows
      BY <1>3 DEF At!Rows
    <2>3. \A p \in Punches : (p \in Earlier)' <=> p \in Earlier
      BY <1>2, <1>3, <1>4, <2>1, <2>2 DEF Earlier
    <2>4. \A p \in Earlier : punch'[p] = punch[p]
      BY <1>4 DEF Earlier
    <2> QED BY <1>2, <2>3, <2>4, TurnStays
  <1>6. ASSUME NEW p \in At!Rows' PROVE punch'[p].time <= now' /\ (punch'[p].time = now' => punch'[p].type = Turn')
    <2>1. CASE p = u
      BY <1>2, <1>3, <1>5, <2>1
    <2>2. CASE p # u
      BY <1>2, <1>3, <1>4, <1>5, <2>2 DEF InTurn
    <2> QED BY <2>1, <2>2
  <1>7. ASSUME NEW q \in Callers, inflight'[q].op = "tap" PROVE inflight'[q].type = Turn'
    <2>1. q # r /\ inflight'[q] = inflight[q]
      BY <1>7 DEF At!TapInsert, WellTyped
    <2> QED BY <1>5, <1>7, <2>1 DEF InTurn
  <1>8. ASSUME NEW p \in At!Rows', NEW q \in At!Rows', punch'[p].time = punch'[q].time
        PROVE  punch'[p].type = punch'[q].type
    <2>1. CASE p \in At!Rows /\ q \in At!Rows
      BY <1>4, <1>8, <2>1 DEF InTurn
    <2>2. CASE p = u \/ q = u
      BY <1>2, <1>3, <1>6, <1>8, <2>2
    <2> QED BY <1>3, <2>1, <2>2
  <1> QED BY <1>6, <1>7, <1>8 DEF InTurn

\* An hour passes: no tap is in flight, and no row has the new time.
LEMMA HourInTurn ==
  ASSUME Hourly, WellTyped, InTurn, At!Hour
  PROVE  InTurn'
  <1>1. now \in Nat /\ now' \in Nat /\ now < now' /\ punch' = punch /\ inflight' = inflight
    BY DEF At!Hour, WellTyped, At!TypeOK, Hourly, At!ShiftPlan
  <1>2. \A r \in Callers : inflight'[r].op # "tap"
    BY <1>1 DEF At!Hour
  <1>3. At!Rows' = At!Rows /\ At!Clock \subseteq Nat
    BY <1>1 DEF At!Rows, At!Clock, Hourly, At!ShiftPlan
  <1>4. ASSUME NEW p \in At!Rows PROVE punch[p].time <= now' /\ punch[p].time # now'
    <2>1. punch[p].time \in Nat /\ punch[p].time <= now
      BY <1>3, RowFields DEF WellTyped, At!Punch, InTurn
    <2>2. PICK t, n : t = punch[p].time /\ n = now'
      OBVIOUS
    <2>3. t \in Nat /\ n \in Nat /\ t <= now /\ now < n
      BY <1>1, <2>1, <2>2
    <2>4. t <= n /\ t # n
      BY <1>1, <2>3
    <2> QED BY <2>2, <2>4
  <1> QED BY <1>1, <1>2, <1>3, <1>4 DEF InTurn

\* Every other step leaves the rows and the hour as they are, and a tap that begins takes its
\* turn from them.
LEMMA RestInTurn ==
  ASSUME Hourly, WellTyped, InTurn, [At!Next]_At!vars, now' = now, punch' = punch
  PROVE  InTurn'
  <1>1. now \in Nat /\ At!Rows' = At!Rows
    BY DEF WellTyped, At!TypeOK, At!Rows, Hourly, At!ShiftPlan
  <1>2. Turn' = Turn
    BY <1>1 DEF Turn, Before, Earlier
  <1>3. ASSUME NEW q \in Callers, inflight'[q].op = "tap" PROVE inflight'[q].type = Turn
    BY <1>3, TapSteps, BeginsInTurn DEF InTurn
  <1> QED BY <1>1, <1>2, <1>3 DEF InTurn

LEMMA InTurnNext ==
  ASSUME Hourly, WellTyped, Deleters, PortalOnly, InTurn, At!Next
  PROVE  InTurn'
  <1>1. ASSUME NEW r \in Callers, Saves(r) PROVE now' = now /\ punch' = punch
    <2>1. inflight[r].op # "delete"
      BY DEF Deleters, PortalOnly, At!OtherChannels
    <2> QED BY <1>1, <2>1, SavesWhat
  <1>2. ASSUME NEW p \in Punches, \/ Arrives(p) \/ \E s \in Shifts : At!_close_session(s, p)
                                 \/ \E t \in Times, type \in At!Types : At!update_checkin(p, t, type)
        PROVE  FALSE
    BY <1>2 DEF Arrives, At!DevicePunch, At!create_checkin, At!_close_session, At!update_checkin, PortalOnly,
                At!OtherChannels
  <1>3. ASSUME \/ UNCHANGED At!vars \/ At!LockMonth \/ At!backfill_attendance
               \/ \E s \in Shifts : OnSession(s) \/ At!approve_session_overtime(s)
               \/ \E r \in Callers : \/ StartSnap(r) \/ At!Abort(r) \/ At!TapRejected(r)
                                     \/ At!AbsentBegin(r) \/ At!auto_mark_absent_job(r)
                                     \/ \E k \in Taps : At!TapBegin(r, k)
        PROVE  now' = now /\ punch' = punch
    BY <1>3 DEF At!vars, At!LockMonth, At!backfill_attendance, OnSession, At!JobLost,
                At!recalculate_work_session, At!LeaveApproved, At!mark_attendance_bulk,
                At!approve_session_overtime, StartSnap, At!InlineBegin, At!DeleteBegin, At!JobBegin, At!HealBegin,
                At!PeriodBegin, At!Abort, At!TapRejected, At!AbsentBegin, At!auto_mark_absent_job, At!TapBegin
  <1> QED BY <1>1, <1>2, <1>3, AttendanceSteps, HourInTurn, InsertsInTurn, RestInTurn

\* Where a row has its tap from: it keeps it, is no tap's, or a tap inserts it.
LEMMA RowTaps ==
  ASSUME WellTyped, [At!Next]_At!vars, NEW p \in At!Rows'
  PROVE  \/ p \in At!Rows /\ punch'[p].tap = punch[p].tap
         \/ punch'[p].tap = 0
         \/ \E r \in Callers : At!TapInsert(r, p) /\ punch'[p].tap = inflight[r].tap
  <1> DEFINE Has == \/ p \in At!Rows /\ punch'[p].tap = punch[p].tap
                    \/ punch'[p].tap = 0
                    \/ \E r \in Callers : At!TapInsert(r, p) /\ punch'[p].tap = inflight[r].tap
  <1>0. p \in Punches
    BY DEF At!Rows
  <1>1. ASSUME punch'[p] = punch[p] PROVE Has
    BY <1>1 DEF At!Rows
  <1>2. ASSUME NEW r \in Callers, Saves(r) PROVE Has
    <2>1. punch' = punch \/ punch' = [punch EXCEPT ![inflight[r].punch] = At!Deleted]
      BY <1>2, SavesWhat
    <2>2. punch'[p] = punch[p] \/ punch'[p] = At!Deleted
      BY <1>0, <2>1 DEF WellTyped, At!TypeOK
    <2> QED BY <1>1, <2>2 DEF At!Rows
  <1>3. ASSUME NEW u \in Punches, NEW t \in Times, NEW type \in At!Types, At!update_checkin(u, t, type)
        PROVE  Has
    <2>1. u \in At!Rows /\ (p # u => punch'[p] = punch[p])
      BY <1>0, <1>3 DEF At!update_checkin, WellTyped, At!TypeOK
    <2>2. punch[u] \in At!Punch /\ punch'[u] = [punch[u] EXCEPT !.time = t, !.type = type]
      BY <1>3, <2>1, RowFields DEF At!update_checkin, WellTyped, At!TypeOK
    <2>3. punch'[u].tap = punch[u].tap
      BY <2>2 DEF At!Punch
    <2> QED BY <1>1, <2>1, <2>3
  <1>4. ASSUME NEW u \in Punches, NEW row, At!NewRow(row, u)
        PROVE  (p # u => punch'[p] = punch[p]) /\ (p = u => punch'[p] = row)
    BY <1>0, <1>4 DEF At!NewRow, WellTyped, At!TypeOK
  <1>5. ASSUME NEW u \in Punches, NEW row, At!NewRow(row, u), row.tap = 0 PROVE Has
    BY <1>1, <1>4, <1>5
  <1>6. ASSUME NEW r \in Callers, NEW u \in Punches, At!TapInsert(r, u) PROVE Has
    <2>1. PICK row : /\ row = [time |-> now, type |-> inflight[r].type, auto |-> FALSE, tap |-> inflight[r].tap]
                     /\ At!NewRow(row, u)
      BY <1>6 DEF At!TapInsert
    <2>2. row.tap = inflight[r].tap
      BY <2>1
    <2> QED BY <1>1, <1>4, <1>6, <2>1, <2>2
  <1> HIDE DEF Has
  <1>7. ASSUME NEW u \in Punches, Arrives(u) \/ \E s \in Shifts : At!_close_session(s, u) PROVE Has
    <2>1. ASSUME NEW t, NEW type, NEW auto,
                 At!NewRow([time |-> t, type |-> type, auto |-> auto, tap |-> 0], u)
          PROVE  Has
      BY <1>5, <2>1
    <2> QED BY <1>7, <2>1 DEF Arrives, At!DevicePunch, At!create_checkin, At!_close_session
  <1>8. ASSUME \/ UNCHANGED At!vars \/ At!Hour \/ At!LockMonth \/ At!backfill_attendance
               \/ \E s \in Shifts : OnSession(s) \/ At!approve_session_overtime(s)
               \/ \E r \in Callers : \/ StartSnap(r) \/ At!Abort(r) \/ At!TapRejected(r)
                                     \/ At!AbsentBegin(r) \/ At!auto_mark_absent_job(r)
                                     \/ \E k \in Taps : At!TapBegin(r, k)
        PROVE  punch' = punch
    BY <1>8 DEF At!vars, At!Hour, At!LockMonth, At!backfill_attendance, OnSession, At!JobLost,
                At!recalculate_work_session, At!LeaveApproved, At!mark_attendance_bulk,
                At!approve_session_overtime, StartSnap, At!InlineBegin, At!DeleteBegin, At!JobBegin, At!HealBegin,
                At!PeriodBegin, At!Abort, At!TapRejected, At!AbsentBegin, At!auto_mark_absent_job, At!TapBegin
  <1>9. Has
    BY <1>1, <1>2, <1>3, <1>6, <1>7, <1>8, AttendanceSteps
  <1> QED BY <1>9 DEF Has

\* No audit row goes away.
LEMMA TapsGrow ==
  ASSUME WellTyped, [At!Next]_At!vars
  PROVE  taps \subseteq taps'
  <1>1. ASSUME NEW r \in Callers, Saves(r) PROVE taps' = taps
    BY <1>1, SavesWhat
  <1>2. ASSUME NEW r \in Callers, \/ \E k \in Taps : At!TapBegin(r, k)
                                  \/ \E p \in Punches : At!TapInsert(r, p)
        PROVE  taps \subseteq taps'
    BY <1>2 DEF At!TapBegin, At!TapInsert
  <1>3. ASSUME \/ UNCHANGED At!vars \/ At!Hour \/ At!LockMonth \/ At!backfill_attendance
               \/ \E s \in Shifts : OnSession(s) \/ At!approve_session_overtime(s)
               \/ \E p \in Punches :
                    \/ Arrives(p) \/ \E s \in Shifts : At!_close_session(s, p)
                    \/ \E t \in Times, type \in At!Types : At!update_checkin(p, t, type)
               \/ \E r \in Callers : \/ StartSnap(r) \/ At!Abort(r) \/ At!TapRejected(r)
                                     \/ At!AbsentBegin(r) \/ At!auto_mark_absent_job(r)
        PROVE  taps' = taps
    BY <1>3 DEF At!vars, At!Hour, At!LockMonth, At!backfill_attendance, OnSession, At!JobLost,
                At!recalculate_work_session, At!LeaveApproved, At!mark_attendance_bulk,
                At!approve_session_overtime, StartSnap, At!InlineBegin, At!DeleteBegin, At!JobBegin, At!HealBegin,
                At!PeriodBegin, At!Abort, At!TapRejected, At!AbsentBegin, At!auto_mark_absent_job,
                Arrives, At!DevicePunch, At!create_checkin, At!update_checkin, At!_close_session
  <1> QED BY <1>1, <1>2, <1>3, AttendanceSteps

LEMMA AuditedNext ==
  ASSUME WellTyped, Audited, At!OneTapOnePunch, [At!Next]_At!vars
  PROVE  Audited' /\ At!OneTapOnePunch'
  <1>1. ASSUME NEW p \in Punches, NEW r \in Callers, At!TapInsert(r, p)
        PROVE  /\ inflight[r].tap \notin taps /\ inflight[r].tap \in taps'
               /\ \A q \in At!Rows' \ {p} : q \in At!Rows /\ punch'[q] = punch[q]
    <2>1. \E row : At!NewRow(row, p)
      BY <1>1 DEF At!TapInsert
    <2>2. \A q \in Punches \ {p} : punch'[q] = punch[q]
      BY <2>1 DEF At!NewRow, WellTyped, At!TypeOK
    <2> QED BY <1>1, <2>2 DEF At!TapInsert, At!UniqueRequest, At!Rows
  <1>2. ASSUME NEW p \in At!Rows' PROVE punch'[p].tap \in taps' \cup {0}
    <2>1. p \in Punches
      BY DEF At!Rows
    <2> QED BY <1>1, <2>1, RowTaps, TapsGrow DEF Audited
  <1>3. ASSUME NEW p \in At!Rows', NEW q \in At!Rows', punch'[p].tap = punch'[q].tap, p # q,
               punch'[p].tap # 0
        PROVE  FALSE
    <2>1. p \in Punches /\ q \in Punches
      BY DEF At!Rows
    <2>2. CASE p \in At!Rows /\ punch'[p].tap = punch[p].tap /\ q \in At!Rows /\ punch'[q].tap = punch[q].tap
      BY <1>3, <2>2 DEF At!OneTapOnePunch
    <2>3. ASSUME NEW a \in At!Rows', NEW b \in At!Rows', a # b, punch'[a].tap = punch'[b].tap,
                 punch'[a].tap # 0, NEW r \in Callers, At!TapInsert(r, a), punch'[a].tap = inflight[r].tap
          PROVE  FALSE
      <3>1. a \in Punches
        BY DEF At!Rows
      <3>2. b \in At!Rows /\ punch'[b] = punch[b] /\ inflight[r].tap \notin taps
        BY <1>1, <2>3, <3>1
      <3> QED BY <2>3, <3>2 DEF Audited
    <2> QED BY <1>3, <2>2, <2>3, RowTaps
  <1> QED BY <1>2, <1>3 DEF Audited, At!OneTapOnePunch

LEMMA TakenNext ==
  ASSUME Hourly, WellTyped, Taken, [At!Next]_At!vars
  PROVE  Taken'
  <1>1. CASE UNCHANGED At!vars
    <2>1. Audited' /\ At!OneTapOnePunch' /\ Deleters'
      BY <1>1, AuditedNext DEF Taken, At!vars, Deleters
    <2>2. PortalOnly' => InTurn'
      BY <1>1, RestInTurn DEF Taken, At!vars, PortalOnly
    <2> QED BY <2>1, <2>2 DEF Taken
  <1>2. CASE At!Next
    <2>1. PortalOnly' => PortalOnly
      BY <1>2 DEF At!Next, PortalOnly
    <2> QED BY <1>2, <2>1, AuditedNext, DeletersNext, InTurnNext DEF Taken
  <1> QED BY <1>1, <1>2

\* What a tap makes: a request of the portal that is sent again, however late and beside
\* whatever runs, makes no second punch; and where punches come from the portal alone, all
\* those of one time are an IN or all are an OUT, so that no retry closes the session the tap
\* opened (mobile_checkin: the unique client_request_id, the two minutes between taps).
THEOREM TapsAreKept == ASSUME Hourly PROVE AttendanceSpec => []TapsKept
  <1>1. ASSUME At!Init PROVE WellTyped /\ Taken
    <2>1. At!Rows = {} /\ \A r \in Callers : inflight[r] = At!Idle
      BY <1>1 DEF At!Init, At!Rows
    <2> QED BY <1>1, <2>1, WellTypedInit DEF Taken, Audited, At!OneTapOnePunch, Deleters, InTurn, At!Idle
  <1>2. WellTyped /\ Taken /\ [At!Next]_At!vars => WellTyped' /\ Taken'
    BY WellTypedNext, TakenNext
  <1>3. WellTyped /\ Taken => TapsKept
    BY DEF WellTyped, Taken, InTurn, PortalOnly, TapsKept, At!TapsKept, At!NoZeroHourDay
  <1> QED BY <1>1, <1>2, <1>3, PTL DEF AttendanceSpec, At!Spec

-----------------------------------------------------------------------------
(* One request at a time, a session with an IN is not absent: while the job of 02:00 holds  *)
(* the sessions it has read, no recalculation, of a late punch for example, runs.           *)

Together == \A q, r \in Callers : inflight[q] # At!Idle /\ inflight[r] # At!Idle => q = r
NoIn(s) == s \in At!Existing /\ session[s].in = At!NONE
Marked ==
  /\ Together
  /\ \A s \in At!Existing : session[s].absent => session[s].in = At!NONE
  /\ \A r \in Callers : inflight[r].op = "absent" => \A s \in inflight[r].todo : NoIn(s)
Unmarked == \A r \in Callers : inflight[r].op \in At!Snapshots =>
              \A s \in DOMAIN inflight[r].result : inflight[r].result[s].absent = FALSE
OneByOne == Unmarked /\ ("alone" \in ops => Marked)

\* A finite set with at most one member has no two.
LEMMA FewIsOne ==
  ASSUME NEW S, IsFiniteSet(S), Cardinality(S) <= 1, NEW a \in S, NEW b \in S
  PROVE  a = b
  <1> SUFFICES ASSUME a # b PROVE FALSE
    OBVIOUS
  <1>1. IsFiniteSet({a}) /\ Cardinality({a}) = 1
    BY FS_Singleton
  <1>2. IsFiniteSet({a} \cup {b}) /\ Cardinality({a} \cup {b}) = Cardinality({a}) + 1
    <2>1. b \notin {a}
      OBVIOUS
    <2> QED BY <1>1, <2>1, FS_AddElement
  <1>3. {a} \cup {b} \subseteq S
    OBVIOUS
  <1>4. Cardinality({a} \cup {b}) <= Cardinality(S) /\ Cardinality(S) \in Nat
    BY <1>3, FS_Subset, FS_CardinalityType
  <1> QED BY <1>1, <1>2, <1>4

LEMMA UnmarkedNext ==
  ASSUME Hourly, WellTyped, Unmarked, [At!Next]_At!vars
  PROVE  Unmarked'
  <1> SUFFICES ASSUME NEW q \in Callers, inflight'[q].op \in At!Snapshots
               PROVE  \A s \in DOMAIN inflight'[q].result : inflight'[q].result[s].absent = FALSE
    BY DEF Unmarked
  <1>1. CASE inflight'[q] = inflight[q]
    BY <1>1 DEF Unmarked
  <1>2. CASE Worn(inflight[q], inflight'[q])
    BY <1>2 DEF Unmarked, Worn
  <1>3. CASE Begun(inflight'[q])
    BY <1>3 DEF Begun
  <1> QED BY <1>1, <1>2, <1>3, SnapSteps

SameIn(s) ==
  (s \in At!Existing' <=> s \in At!Existing) /\ (s \in At!Existing => session'[s].in = session[s].in)
SameMark(s) == s \in At!Existing => session'[s].absent = session[s].absent

\* The job of absences stays as it is, or has just read the sessions.
LEMMA AbsentSteps ==
  ASSUME Hourly, WellTyped, [At!Next]_At!vars, NEW q \in Callers, inflight'[q].op = "absent"
  PROVE  inflight'[q] = inflight[q] \/ At!AbsentBegin(q)
  <1>1. ASSUME NEW r \in Callers, NEW next \in Calls, next.op # "absent",
               NEW S \in SUBSET Shifts, At!Commit(r, next, S)
        PROVE  inflight'[q] = inflight[q]
    <2>1. q # r /\ inflight'[q].op = inflight[q].op
      BY <1>1, CommitTyped DEF WellTyped
    <2> QED BY <1>1, <2>1, CommitTyped DEF WellTyped, At!Snapshots
  <1>2. At!Idle \in Calls /\ At!Idle.op # "absent"
    BY DEF Calls, At!Idle
  <1>3. ASSUME NEW r \in Callers, Saves(r) PROVE inflight'[q] = inflight[q]
    <2>1. PICK W : Writes(inflight[r], W) /\ At!Commit(r, At!Idle, W)
      BY <1>3, SavesWhat
    <2>2. W \in SUBSET Shifts
      BY <1>3, <2>1, SavesWhat, SnapFields DEF Writes
    <2> QED BY <1>1, <1>2, <2>1, <2>2
  <1>4. ASSUME NEW r \in Callers, At!auto_mark_absent_job(r) PROVE inflight'[q] = inflight[q]
    <2>1. inflight[r].todo \in SUBSET Shifts
      BY <1>4, CallFields DEF At!auto_mark_absent_job, WellTyped
    <2> QED BY <1>1, <1>2, <1>4, <2>1 DEF At!auto_mark_absent_job
  <1>5. ASSUME NEW s \in Shifts, At!approve_session_overtime(s) PROVE inflight'[q] = inflight[q]
    BY <1>5, ChangedTyped DEF At!approve_session_overtime, WellTyped, At!Snapshots
  <1>6. ASSUME NEW r \in Callers, StartSnap(r) PROVE inflight'[q] = inflight[q]
    <2>1. inflight'[r].op \in At!Snapshots
      BY <1>6, StartsBegun, SnapFields DEF Begun
    <2> QED BY <1>6, <2>1, StartsBegun DEF At!Snapshots
  <1>7. ASSUME NEW r \in Callers, \/ \E k \in Taps : At!TapBegin(r, k)
                                  \/ \E p \in Punches : At!TapInsert(r, p)
                                  \/ At!Abort(r) \/ At!TapRejected(r)
        PROVE  inflight'[q] = inflight[q]
    BY <1>7 DEF At!TapBegin, At!TapInsert, At!Abort, At!TapRejected, At!Open, WellTyped, At!Idle
  <1>8. ASSUME NEW r \in Callers, At!AbsentBegin(r) PROVE inflight'[q] = inflight[q] \/ q = r
    BY <1>8 DEF At!AbsentBegin, At!Open, WellTyped
  <1>9. ASSUME \/ UNCHANGED At!vars \/ At!Hour \/ At!LockMonth \/ At!backfill_attendance
               \/ \E s \in Shifts : OnSession(s)
               \/ \E p \in Punches :
                    \/ Arrives(p) \/ \E s \in Shifts : At!_close_session(s, p)
                    \/ \E t \in Times, type \in At!Types : At!update_checkin(p, t, type)
        PROVE  inflight' = inflight
    BY <1>9 DEF At!vars, At!Hour, At!LockMonth, At!backfill_attendance, OnSession, At!JobLost,
               At!recalculate_work_session, At!LeaveApproved, At!mark_attendance_bulk,
               Arrives, At!DevicePunch, At!create_checkin, At!update_checkin, At!_close_session, At!rows
  <1> QED BY <1>3, <1>4, <1>5, <1>6, <1>7, <1>8, <1>9, AttendanceSteps

\* What a step does to these two facts of a session: nothing, unless it is a save or the job.
LEMMA SessionSteps ==
  ASSUME WellTyped, [At!Next]_At!vars
  PROVE  \/ \A s \in Shifts : SameIn(s) /\ SameMark(s)
         \/ \E r \in Callers : Saves(r) \/ At!auto_mark_absent_job(r)
  <1> DEFINE Same == \A s \in Shifts : SameIn(s) /\ SameMark(s)
  <1>1. ASSUME session' = session PROVE Same
    BY <1>1 DEF At!Existing, SameIn, SameMark
  <1>2. ASSUME NEW u \in At!Existing, NEW row, row \in At!Session, row.in = session[u].in,
               row.absent = session[u].absent, session' = [session EXCEPT ![u] = row]
        PROVE  Same
    <2>1. row # At!NoRow /\ u \in Shifts
      BY <1>2 DEF At!Session, At!NoRow, At!Existing
    <2>2. \A s \in Shifts : session'[s] = IF s = u THEN row ELSE session[s]
      BY <1>2 DEF WellTyped, At!TypeOK
    <2> QED BY <1>2, <2>1, <2>2 DEF At!Existing, SameIn, SameMark
  <1> HIDE DEF Same
  <1>3. ASSUME NEW s \in Shifts, NEW p \in Punches, At!_close_session(s, p) PROVE Same
    <2>1. s \in At!Existing /\ session[s] \in At!Session /\ Ends[s] \in At!Clock
      BY <1>3, SessionFields DEF At!_close_session, WellTyped, At!Clock
    <2>2. PICK row : row = [session[s] EXCEPT !.auto = TRUE, !.out = Ends[s]]
      OBVIOUS
    <2>3. row \in At!Session /\ row.in = session[s].in /\ row.absent = session[s].absent
      BY <2>1, <2>2 DEF At!Session
    <2>4. session' = [session EXCEPT ![s] = row]
      BY <1>3, <2>2 DEF At!_close_session, WellTyped, At!TypeOK
    <2> QED BY <1>2, <2>1, <2>3, <2>4
  <1>4. ASSUME NEW s \in Shifts, At!recalculate_work_session(s) PROVE Same
    <2>1. s \in At!Existing /\ session[s] \in At!Session
      BY <1>4, SessionFields DEF At!recalculate_work_session, WellTyped
    <2>2. PICK row : row = [session[s] EXCEPT !.status = "Recalculating"]
      OBVIOUS
    <2>3. row \in At!Session /\ row.in = session[s].in /\ row.absent = session[s].absent
      BY <2>1, <2>2 DEF At!Session
    <2>4. session' = [session EXCEPT ![s] = row]
      BY <1>4, <2>2 DEF At!recalculate_work_session, WellTyped, At!TypeOK
    <2> QED BY <1>2, <2>1, <2>3, <2>4
  <1>5. ASSUME NEW s \in Shifts, At!approve_session_overtime(s) PROVE Same
    <2>1. s \in At!Existing /\ session[s] \in At!Session
      BY <1>5, SessionFields DEF At!approve_session_overtime, WellTyped
    <2>2. PICK row : row = [session[s] EXCEPT !.approved = TRUE]
      OBVIOUS
    <2>3. row \in At!Session /\ row.in = session[s].in /\ row.absent = session[s].absent
      BY <2>1, <2>2 DEF At!Session
    <2>4. session' = [session EXCEPT ![s] = row]
      BY <1>5, <2>2 DEF At!approve_session_overtime, WellTyped, At!TypeOK
    <2> QED BY <1>2, <2>1, <2>3, <2>4
  <1>6. ASSUME \/ UNCHANGED At!vars \/ At!Hour \/ At!LockMonth \/ At!backfill_attendance
               \/ \E s \in Shifts : \/ At!JobLost(s) \/ At!LeaveApproved(s)
                                    \/ \E st \in {"Present", "Absent"}, o \in BOOLEAN :
                                         At!mark_attendance_bulk(s, st, o)
               \/ \E p \in Punches :
                    \/ Arrives(p) \/ \E t \in Times, type \in At!Types : At!update_checkin(p, t, type)
               \/ \E r \in Callers : \/ StartSnap(r) \/ At!Abort(r) \/ At!TapRejected(r)
                                     \/ At!AbsentBegin(r) \/ (\E k \in Taps : At!TapBegin(r, k))
                                     \/ \E p \in Punches : At!TapInsert(r, p)
        PROVE  session' = session
    BY <1>6 DEF At!vars, At!Hour, At!LockMonth, At!backfill_attendance, At!JobLost,
                At!LeaveApproved, At!mark_attendance_bulk, StartSnap, At!InlineBegin, At!DeleteBegin, At!JobBegin,
                At!HealBegin, At!PeriodBegin, At!Abort, At!TapRejected, At!AbsentBegin, At!TapBegin,
                At!TapInsert, Arrives, At!DevicePunch, At!create_checkin, At!update_checkin, At!rows
  <1>7. Same \/ \E r \in Callers : Saves(r) \/ At!auto_mark_absent_job(r)
    BY <1>1, <1>3, <1>4, <1>5, <1>6, AttendanceSteps DEF OnSession
  <1> QED BY <1>7 DEF Same

\* A save, one at a time: what it writes is not absent, and no job of absences is in flight.
LEMMA SaveMarks ==
  ASSUME Hourly, WellTyped, Unmarked, Marked, [At!Next]_At!vars, NEW r \in Callers, Saves(r)
  PROVE  /\ \A s \in At!Existing' : session'[s].absent => session'[s].in = At!NONE
         /\ \A q \in Callers : inflight'[q].op # "absent"
  <1>1. PICK W : Writes(inflight[r], W) /\ At!Commit(r, At!Idle, W)
    BY SavesWhat
  <1>2. inflight[r] \in Snap /\ inflight[r].op \in At!Snapshots /\ W \in SUBSET DOMAIN inflight[r].result
    BY <1>1, SavesWhat, SnapFields DEF Writes
  <1>3. ASSUME NEW s \in At!Existing', session'[s].absent PROVE session'[s].in = At!NONE
    <2>1. s \in Shifts
      BY DEF At!Existing
    <2>2. s \notin W
      BY <1>1, <1>2, <1>3, <2>1 DEF Writes, Unmarked
    <2>3. session'[s] = session[s] /\ s \in At!Existing
      BY <1>1, <2>1, <2>2 DEF Writes, At!Existing
    <2> QED BY <1>3, <2>3 DEF Marked
  <1>4. ASSUME NEW q \in Callers, inflight'[q].op = "absent" PROVE FALSE
    <2>1. ~At!AbsentBegin(q) \/ inflight[q] = At!Idle
      BY DEF At!AbsentBegin, At!Open
    <2>2. inflight[q].op = "absent"
      <3>1. At!Idle \in Calls /\ At!Idle.op # "absent" /\ W \in SUBSET Shifts
        BY <1>2, SnapFields DEF Calls, At!Idle
      <3>2. q # r
        BY <1>1, <1>4, <3>1, CommitTyped DEF WellTyped
      <3> QED BY <1>1, <1>4, <3>1, <3>2, CommitTyped DEF WellTyped
    <2>3. q = r
      BY <1>2, <2>2 DEF Marked, Together, At!Idle, At!Snapshots
    <2> QED BY <1>2, <2>2, <2>3 DEF At!Snapshots
  <1> QED BY <1>3, <1>4

\* The job writes its mark on sessions that show no IN.
LEMMA JobMarks ==
  ASSUME WellTyped, Marked, NEW r \in Callers, At!auto_mark_absent_job(r), NEW s \in Shifts
  PROVE  SameIn(s) /\ (s \in At!Existing /\ session'[s].absent => session'[s].in = At!NONE)
  <1>1. CASE s \in inflight[r].todo
    <2>1. NoIn(s) /\ session[s] \in At!Session
      BY <1>1, SessionFields DEF At!auto_mark_absent_job, Marked, NoIn, WellTyped
    <2>2. session'[s] = [session[s] EXCEPT !.absent = TRUE]
      BY <1>1 DEF At!auto_mark_absent_job
    <2>3. session'[s] \in At!Session /\ session'[s].in = session[s].in
      BY <2>1, <2>2 DEF At!Session
    <2> QED BY <2>1, <2>3 DEF NoIn, At!Existing, SameIn, At!Session, At!NoRow
  <1>2. CASE s \notin inflight[r].todo
    <2>1. session'[s] = session[s]
      BY <1>2 DEF At!auto_mark_absent_job
    <2> QED BY <2>1 DEF Marked, At!Existing, SameIn
  <1> QED BY <1>1, <1>2

LEMMA MarkedNext ==
  ASSUME Hourly, IsFiniteSet(Callers), WellTyped, Unmarked, Marked, At!Next, "alone" \in ops
  PROVE  Marked'
  <1>1. Together'
    <2>1. IsFiniteSet(At!InFlight') /\ Cardinality(At!InFlight') <= 1
      <3>1. At!InFlight' \subseteq Callers
        BY DEF At!InFlight
      <3> QED BY <3>1, FS_Subset DEF At!Next, At!Cardinality, Cardinality
    <2>2. ASSUME NEW q \in Callers, NEW r \in Callers, inflight'[q] # At!Idle, inflight'[r] # At!Idle
          PROVE  q = r
      <3>1. q \in At!InFlight' /\ r \in At!InFlight'
        BY <2>2 DEF At!InFlight
      <3> QED BY <2>1, <3>1, FewIsOne
    <2> QED BY <2>2 DEF Together
  <1>2. ASSUME \A s \in Shifts : SameIn(s)
        PROVE  \A q \in Callers : inflight'[q].op = "absent" => \A s \in inflight'[q].todo : NoIn(s)'
    <2>1. ASSUME NEW s \in Shifts, NoIn(s) PROVE NoIn(s)'
      <3>1. s \in At!Existing /\ session[s].in = At!NONE
        BY <2>1 DEF NoIn
      <3>2. s \in At!Existing' /\ session'[s].in = At!NONE
        BY <1>2, <3>1 DEF SameIn
      <3> QED BY <3>2 DEF NoIn
    <2>2. ASSUME NEW q \in Callers, inflight'[q].op = "absent", At!AbsentBegin(q)
          PROVE  \A s \in inflight'[q].todo : s \in Shifts /\ NoIn(s)
      <3>1. inflight'[q].todo = {s \in At!Existing : At!Work(s) = At!Day(now) - 1 /\ session[s].in = At!NONE
                                                   /\ ~session[s].leave}
        BY <2>2 DEF At!AbsentBegin, At!Open, WellTyped
      <3> QED BY <3>1 DEF NoIn, At!Existing
    <2>3. ASSUME NEW q \in Callers, inflight'[q].op = "absent", inflight'[q] = inflight[q]
          PROVE  \A s \in inflight'[q].todo : s \in Shifts /\ NoIn(s)
      BY <2>3 DEF Marked, NoIn, At!Existing
    <2> QED BY <2>1, <2>2, <2>3, AbsentSteps
  <1>3. CASE \A s \in Shifts : SameIn(s) /\ SameMark(s)
    <2>1. ASSUME NEW s \in At!Existing', session'[s].absent PROVE session'[s].in = At!NONE
      <3>1. s \in Shifts
        BY DEF At!Existing
      <3>2. s \in At!Existing /\ session'[s].in = session[s].in /\ session'[s].absent = session[s].absent
        BY <1>3, <3>1 DEF SameIn, SameMark
      <3> QED BY <2>1, <3>2 DEF Marked
    <2> QED BY <1>1, <1>2, <1>3, <2>1 DEF Marked
  <1>4. ASSUME NEW r \in Callers, Saves(r) PROVE Marked'
    BY <1>1, <1>4, SaveMarks DEF Marked
  <1>5. ASSUME NEW r \in Callers, At!auto_mark_absent_job(r) PROVE Marked'
    <2>1. ASSUME NEW s \in At!Existing', session'[s].absent PROVE session'[s].in = At!NONE
      <3>1. s \in Shifts
        BY DEF At!Existing
      <3> QED BY <1>5, <2>1, <3>1, JobMarks DEF SameIn
    <2>2. \A q \in Callers : inflight'[q].op = "absent" => \A s \in inflight'[q].todo : NoIn(s)'
      BY <1>2, <1>5, JobMarks
    <2> QED BY <1>1, <2>1, <2>2 DEF Marked
  <1> QED BY <1>3, <1>4, <1>5, SessionSteps

\* A session that shows an IN is not absent, where a request ends before anything else
\* happens: a recalculation takes the mark away, and the job of 02:00 marks what shows no IN
\* (auto_mark_absent_job, persist_work_session).
THEOREM AbsentShowsNoIn ==
  ASSUME Hourly, IsFiniteSet(Callers) PROVE AttendanceSpec => []AbsentHasNoIn
  <1>1. ASSUME At!Init PROVE WellTyped /\ OneByOne
    <2>1. At!Existing = {} /\ \A r \in Callers : inflight[r] = At!Idle
      BY <1>1 DEF At!Init, At!Existing
    <2> QED BY <1>1, <2>1, WellTypedInit DEF OneByOne, Marked, Unmarked, Together, At!Idle, At!Snapshots
  <1>2. WellTyped /\ OneByOne /\ [At!Next]_At!vars => WellTyped' /\ OneByOne'
    <2> SUFFICES ASSUME WellTyped, OneByOne, [At!Next]_At!vars PROVE OneByOne'
      BY WellTypedNext
    <2>1. Unmarked'
      BY UnmarkedNext DEF OneByOne
    <2>2. CASE UNCHANGED At!vars
      BY <2>1, <2>2 DEF At!vars, OneByOne, Marked, Together, NoIn, At!Existing
    <2>3. CASE At!Next
      <3>1. ops' = ops
        BY <2>3 DEF At!Next
      <3> QED BY <2>1, <2>3, <3>1, MarkedNext DEF OneByOne
    <2> QED BY <2>2, <2>3
  <1>3. OneByOne => AbsentHasNoIn
    BY DEF OneByOne, Marked, AbsentHasNoIn, At!AbsentHasNoIn
  <1> QED BY <1>1, <1>2, <1>3, PTL DEF AttendanceSpec, At!Spec
=============================================================================
