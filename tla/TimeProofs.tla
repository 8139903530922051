----------------------------- MODULE TimeProofs -----------------------------
(* Theorems about components of the time side, for any number of rows, people and requests: requests and their
approval, devices, punches edited by HR, the monthly period and its end.  Every component is an instance of its
module; its variables and constants have the names they have there, and what two of them name alike is one, but for
the last day of MonthEnd. *)
EXTENDS Integers, Sequences, FiniteSets, FiniteSetTheorems, WellFoundedInduction, TLAPS
CONSTANTS
  Employees, Requests, Overlaps,
  Docs, OT, Linked, Days, Boss, Chief, HR, Deputies, Matrices, Eager, Overlap, MaxEdits, MaxDelegations,
  Badges, Devices, LastDay, Times, Logs, PageSize,
  Shifts, Start, End, Cap, Taps, EditTimes, LockedDays, MaxPunches,
  Values, MaxWork,
  Periods, Adjustments, Formulas, AlarmDay, LastDate
VARIABLES
  overlap, req, ticket, locked, due, period, line,
  doc, saving, matrix, deleg, counted, queue, signed, sent, edits,
  raw, checkin, portal, mapping, holder, punched, known, lockedTo,
  punch, flag, edit, paid, named,
  work, changes, review,
  day, staff, blockers, closing

Rq == INSTANCE Requests
Dv == INSTANCE Device
Hp == INSTANCE HandPunch
Mp == INSTANCE MonthPeriod
Me == INSTANCE MonthEnd WITH LastDay <- LastDate

-----------------------------------------------------------------------------
(* Numbers and finite sets. *)

\* Some naturals have a least one.
LEMMA LeastExists ==
  ASSUME NEW S \in SUBSET Nat, S # {}
  PROVE  \E x \in S : \A y \in S : x <= y
  <1> DEFINE Less == {p \in Nat \X Nat : p[1] < p[2]}
  <1>1. OpToRel(<, Nat) = Less
    BY Zenon DEF OpToRel
  <1>2. IsWellFoundedOn(Less, Nat)
    BY <1>1, NatLessThanWellFounded, Zenon
  <1>3. PICK x \in S : \A y \in S : <<y, x>> \notin Less
    BY <1>2, WFMin
  <1> SUFFICES ASSUME NEW y \in S PROVE x <= y
    OBVIOUS
  <1>4. x \in Nat /\ y \in Nat /\ <<y, x>> \in Nat \X Nat
    OBVIOUS
  <1>5. ~(y < x)
    BY <1>3, <1>4
  <1> QED BY <1>4, <1>5

\* Finitely many naturals have a greatest one: the one that fewest of them reach.
LEMMA GreatestExists ==
  ASSUME NEW S \in SUBSET Nat, S # {}, IsFiniteSet(S)
  PROVE  \E x \in S : \A y \in S : x >= y
  <1> DEFINE From(x) == {y \in S : y >= x}
             Counts == {Cardinality(From(x)) : x \in S}
  <1>1. \A x \in S : IsFiniteSet(From(x)) /\ Cardinality(From(x)) \in Nat
    BY FS_Subset, FS_CardinalityType
  <1>2. Counts \in SUBSET Nat /\ Counts # {}
    BY <1>1
  <1>3. PICK x \in S : \A y \in S : Cardinality(From(x)) <= Cardinality(From(y))
    <2>1. PICK c \in Counts : \A d \in Counts : c <= d
      BY <1>2, LeastExists
    <2> QED BY <2>1
  <1>4. ASSUME NEW y \in S, y > x PROVE FALSE
    <2>0. x \in Nat /\ y \in Nat
      OBVIOUS
    <2>1. From(y) \subseteq From(x) /\ x \in From(x) /\ x \notin From(y)
      <3>1. ASSUME NEW z \in S, z >= y PROVE z >= x
        <4>1. z \in Nat
          OBVIOUS
        <4> QED BY <1>4, <2>0, <3>1, <4>1
      <3>2. x >= x /\ ~(x >= y)
        BY <1>4, <2>0
      <3> QED BY <3>1, <3>2
    <2>2. From(y) # From(x)
      BY <2>1
    <2>3. Cardinality(From(y)) < Cardinality(From(x))
      BY <1>1, <2>1, <2>2, FS_Subset
    <2> QED BY <1>1, <1>3, <2>3
  <1> QED BY <1>4

\* The values of a function on a finite set are finitely many.
LEMMA ImageFinite ==
  ASSUME NEW S, IsFiniteSet(S), NEW f, DOMAIN f = S, f = [x \in S |-> f[x]]
  PROVE  IsFiniteSet({f[x] : x \in S})
  <1> DEFINE T == {f[x] : x \in S}
  <1>1. f \in Surjection(S, T)
    BY DEF Surjection
  <1> HIDE DEF T
  <1>2. IsFiniteSet(T)
    BY <1>1, FS_Surjection
  <1> QED BY <1>2 DEF T

\* Of some finite sets one is smallest.
LEMMA SmallestSet ==
  ASSUME NEW S, IsFiniteSet(S), NEW Z \in SUBSET SUBSET S, Z # {}
  PROVE  \E s \in Z : /\ IsFiniteSet(s)
                      /\ \A x \in s : s \ {x} \in SUBSET S /\ s \ {x} \notin Z
  <1> DEFINE Sizes == {Cardinality(s) : s \in Z}
  <1>1. \A s \in SUBSET S : IsFiniteSet(s) /\ Cardinality(s) \in Nat
    BY FS_Subset, FS_CardinalityType
  <1>2. Sizes \in SUBSET Nat /\ Sizes # {}
    BY <1>1
  <1>3. PICK s \in Z : \A t \in Z : Cardinality(s) <= Cardinality(t)
    <2>1. PICK c \in Sizes : \A d \in Sizes : c <= d
      BY <1>2, LeastExists
    <2> QED BY <2>1
  <1>4. ASSUME NEW x \in s PROVE s \ {x} \in SUBSET S /\ s \ {x} \notin Z
    <2>1. s \ {x} \in SUBSET S
      OBVIOUS
    <2>2. Cardinality(s \ {x}) = Cardinality(s) - 1
      BY <1>1, FS_RemoveElement
    <2> QED BY <1>1, <1>3, <2>1, <2>2
  <1> QED BY <1>1, <1>4

\* What a fold over a finite set needs to be defined.
Recurs(it, S, base, F, pick) ==
  it = [s \in SUBSET S |-> IF s = {} THEN base ELSE F[pick[s], it[s \ {pick[s]}]]]

\* Two functions of the subsets of S that step alike.
StepAlike(S, a, b) ==
  /\ a[{}] = b[{}]
  /\ \A s \in SUBSET S : s # {} => \E x \in s : a[s \ {x}] = b[s \ {x}] => a[s] = b[s]

\* Two such folds that step alike are the same.
LEMMA FoldUnique ==
  ASSUME NEW S, IsFiniteSet(S), NEW a, NEW b, StepAlike(S, a, b)
  PROVE  \A s \in SUBSET S : a[s] = b[s]
  <1>1. PICK W : W = {s \in SUBSET S : a[s] # b[s]}
    OBVIOUS
  <1>2. SUFFICES ASSUME W # {} PROVE FALSE
    BY <1>1
  <1>3. W \in SUBSET SUBSET S
    BY <1>1
  <1>4. PICK s \in W : /\ IsFiniteSet(s)
                       /\ \A x \in s : s \ {x} \in SUBSET S /\ s \ {x} \notin W
    <2>1. W # {}
      BY <1>2
    <2> QED BY <1>3, <2>1, SmallestSet
  <1> QED BY <1>1, <1>4 DEF StepAlike

LEMMA FoldExists ==
  ASSUME NEW S, IsFiniteSet(S), NEW D, NEW base \in D, NEW F \in [S \X D -> D],
         NEW pick, \A s \in SUBSET S : s # {} => pick[s] \in s
  PROVE  \E it \in [SUBSET S -> D] : Recurs(it, S, base, F, pick)
  <1> DEFINE Upto(n) == {s \in SUBSET S : Cardinality(s) <= n}
             Partial(f, n) == /\ f \in [Upto(n) -> D]
                              /\ \A s \in Upto(n) : f[s] = IF s = {} THEN base ELSE F[pick[s], f[s \ {pick[s]}]]
             Z == {n \in Nat : ~\E f : Partial(f, n)}
  <1>1. \A s \in SUBSET S : IsFiniteSet(s) /\ Cardinality(s) \in Nat
    BY FS_Subset, FS_CardinalityType
  <1>a. \A s \in SUBSET S : s # {} => Cardinality(s \ {pick[s]}) = Cardinality(s) - 1
    BY <1>1, FS_RemoveElement
  <1>2. Z = {}
    <2>1. SUFFICES ASSUME Z # {} PROVE FALSE
      OBVIOUS
    <2>2. Z \in SUBSET Nat
      OBVIOUS
    <2>3. PICK n \in Z : \A m \in Z : n <= m
      <3> HIDE DEF Z
      <3> QED BY <2>1, <2>2, LeastExists
    <2>n. n \in Nat
      OBVIOUS
    <2>4. CASE n = 0
      <3>1. \A s \in Upto(0) : s = {}
        <4>1. ASSUME NEW s \in SUBSET S, Cardinality(s) <= 0 PROVE s = {}
          <5>0. Cardinality(s) \in Nat
            BY <1>1
          <5>1. Cardinality(s) = 0
            <6> HIDE DEF Z
            <6> QED BY <4>1, <5>0
          <5> QED BY <1>1, <5>1, FS_EmptySet
        <4> QED BY <4>1
      <3> DEFINE f == [s \in Upto(0) |-> base]
      <3>2. Partial(f, 0)
        BY <3>1
      <3> HIDE DEF f, Partial
      <3> QED BY <2>4, <3>2
    <2>5. CASE n # 0
      <3>1. n - 1 \in Nat /\ ~(n <= n - 1)
        <4> HIDE DEF Z
        <4> QED BY <2>5, <2>n
      <3>2. n - 1 \notin Z
        <4> HIDE DEF Z
        <4> QED BY <2>3, <3>1
      <3>3. PICK g : Partial(g, n - 1)
        BY <3>1, <3>2
      <3> DEFINE f == [s \in Upto(n) |-> IF s = {} THEN base ELSE F[pick[s], g[s \ {pick[s]}]]]
      <3>4. ASSUME NEW s \in Upto(n), s # {}
            PROVE  s \ {pick[s]} \in Upto(n - 1) /\ pick[s] \in S
        <4>1. Cardinality(s \ {pick[s]}) = Cardinality(s) - 1
          BY <1>a, <3>4
        <4>2. pick[s] \in s /\ s \in SUBSET S /\ Cardinality(s) <= n
          BY <3>4
        <4>3. Cardinality(s) - 1 <= n - 1
          <5>1. Cardinality(s) \in Nat
            BY <1>1, <4>2
          <5> HIDE DEF Z
          <5> QED BY <2>n, <4>2, <5>1
        <4> QED BY <4>1, <4>2, <4>3
      <3>5. f \in [Upto(n) -> D]
        <4>1. ASSUME NEW s \in Upto(n), s # {} PROVE F[pick[s], g[s \ {pick[s]}]] \in D
          <5>1. s \ {pick[s]} \in Upto(n - 1) /\ pick[s] \in S
            BY <3>4, <4>1
          <5>2. g[s \ {pick[s]}] \in D
            BY <3>3, <5>1
          <5> QED BY <5>1, <5>2
        <4> QED BY <4>1
      <3>6. ASSUME NEW s \in Upto(n - 1) PROVE f[s] = g[s]
        <4>1. s \in Upto(n)
          <5>1. s \in SUBSET S /\ Cardinality(s) <= n - 1 /\ Cardinality(s) \in Nat
            BY <1>1
          <5>2. Cardinality(s) <= n
            <6> HIDE DEF Z
            <6> QED BY <2>n, <5>1
          <5> QED BY <5>1, <5>2
        <4>2. g[s] = IF s = {} THEN base ELSE F[pick[s], g[s \ {pick[s]}]]
          BY <3>3
        <4> QED BY <4>1, <4>2
      <3>7. ASSUME NEW s \in Upto(n)
            PROVE  f[s] = IF s = {} THEN base ELSE F[pick[s], f[s \ {pick[s]}]]
        <4>1. s # {} => f[s \ {pick[s]}] = g[s \ {pick[s]}]
          BY <3>4, <3>6
        <4> QED BY <4>1
      <3>8. Partial(f, n)
        BY <3>5, <3>7
      <3> HIDE DEF f, Partial
      <3> QED BY <3>8
    <2> QED BY <2>4, <2>5
  <1>3. Cardinality(S) \in Nat
    BY FS_CardinalityType
  <1>4. PICK f : Partial(f, Cardinality(S))
    BY <1>2, <1>3
  <1>5. Upto(Cardinality(S)) = SUBSET S
    BY <1>1, FS_Subset
  <1>6. f \in [SUBSET S -> D] /\ \A s \in SUBSET S : f[s] = IF s = {} THEN base ELSE F[pick[s], f[s \ {pick[s]}]]
    BY <1>4, <1>5
  <1>7. f = [s \in SUBSET S |-> IF s = {} THEN base ELSE F[pick[s], f[s \ {pick[s]}]]]
    BY <1>6
  <1> QED BY <1>6, <1>7 DEF Recurs

\* The picks of the folds.
PickOf(S) == [s \in SUBSET S |-> CHOOSE x \in s : TRUE]
LEMMA Picks ==
  ASSUME NEW S
  PROVE  \A s \in SUBSET S : s # {} => /\ PickOf(S)[s] \in s /\ PickOf(S)[s] \in S
                                       /\ PickOf(S)[s] = CHOOSE x \in s : TRUE
  BY DEF PickOf

\* The partial sums of a function over a finite set.
PartialSums(f, S, G) ==
  f = [s \in SUBSET S |-> IF s = {} THEN 0 ELSE G[PickOf(S)[s]] + f[s \ {PickOf(S)[s]}]]

LEMMA SumExists ==
  ASSUME NEW S, IsFiniteSet(S), NEW D \in {Nat, Int}, NEW G \in [S -> D]
  PROVE  \E f \in [SUBSET S -> D] :
           PartialSums(f, S, G)
  <1> DEFINE pick == PickOf(S)
             F == [p \in S \X D |-> G[p[1]] + p[2]]
  <1>1. \A s \in SUBSET S : s # {} => pick[s] \in s /\ pick[s] \in S
    BY Picks
  <1>2. F \in [S \X D -> D] /\ \A x \in S, y \in D : F[x, y] = G[x] + y
    <2>0. 0 \in D /\ \A x, y \in D : x + y \in D
      OBVIOUS
    <2>1. F \in [S \X D -> D]
      BY <2>0
    <2>2. ASSUME NEW x \in S, NEW y \in D PROVE F[x, y] = G[x] + y
      OBVIOUS
    <2> QED BY <2>1, <2>2
  <1> HIDE DEF F, pick
  <1>3. PICK f \in [SUBSET S -> D] : Recurs(f, S, 0, F, pick)
    <2>1. 0 \in D
      OBVIOUS
    <2> QED BY <1>1, <1>2, <2>1, FoldExists
  <1>4. ASSUME NEW s \in SUBSET S, s # {}
        PROVE  F[pick[s], f[s \ {pick[s]}]] = G[pick[s]] + f[s \ {pick[s]}]
    <2>1. pick[s] \in S /\ f[s \ {pick[s]}] \in D
      BY <1>1, <1>4
    <2> QED BY <1>2, <2>1
  <1>5. f = [s \in SUBSET S |-> IF s = {} THEN 0 ELSE F[pick[s], f[s \ {pick[s]}]]]
    BY <1>3 DEF Recurs
  <1>6. f = [s \in SUBSET S |-> IF s = {} THEN 0 ELSE G[pick[s]] + f[s \ {pick[s]}]]
    BY <1>4, <1>5
  <1> QED BY <1>6 DEF pick, PartialSums

\* Sums of numbers are numbers.
SumOf(S, G) == CHOOSE n : \E f \in [SUBSET S -> Int] :
  /\ PartialSums(f, S, G)
  /\ n = f[S]

LEMMA SumMatches ==
  ASSUME NEW S, IsFiniteSet(S), NEW G \in [S -> Int], NEW it, it[{}] = 0,
         \A s \in SUBSET S : s # {} => it[s] = G[PickOf(S)[s]] + it[s \ {PickOf(S)[s]}]
  PROVE  it[S] = SumOf(S, G)
  <1>1. PICK f \in [SUBSET S -> Int] :
           PartialSums(f, S, G)
    BY SumExists
  <1>2. \E n : \E g \in [SUBSET S -> Int] :
           /\ PartialSums(g, S, G)
           /\ n = g[S]
    BY <1>1
  <1>3. PICK g \in [SUBSET S -> Int] : /\ SumOf(S, G) = g[S]
           /\ PartialSums(g, S, G)
    BY <1>2 DEF SumOf
  <1>4. \A s \in SUBSET S : s # {} => g[s] = G[PickOf(S)[s]] + g[s \ {PickOf(S)[s]}]
    BY <1>3 DEF PartialSums
  <1>5. g[{}] = 0
    BY <1>3 DEF PartialSums
  <1>6. StepAlike(S, it, g)
    <2>1. ASSUME NEW s \in SUBSET S, s # {} PROVE \E x \in s : it[s \ {x}] = g[s \ {x}] => it[s] = g[s]
      <3>1. PickOf(S)[s] \in s
        BY <2>1, Picks
      <3> QED BY <1>4, <2>1, <3>1
    <2> QED BY <1>5, <2>1 DEF StepAlike
  <1>7. \A s \in SUBSET S : it[s] = g[s]
    BY <1>6, FoldUnique
  <1> QED BY <1>3, <1>7

LEMMA SumOfIs ==
  ASSUME NEW S, IsFiniteSet(S), NEW D \in {Nat, Int}, NEW G \in [S -> D]
  PROVE  SumOf(S, G) \in D
  <1>1. PICK f \in [SUBSET S -> D] :
           PartialSums(f, S, G)
    BY SumExists
  <1>2. G \in [S -> Int]
    OBVIOUS
  <1>3. f[{}] = 0
    BY <1>1 DEF PartialSums
  <1>4. \A s \in SUBSET S : s # {} => f[s] = G[PickOf(S)[s]] + f[s \ {PickOf(S)[s]}]
    BY <1>1 DEF PartialSums
  <1>5. f[S] = SumOf(S, G)
    BY <1>2, <1>3, <1>4, SumMatches
  <1> QED BY <1>5

\* The counts of the components are those of the library.
LEMMA DvCounts == \A S : (Dv!IsFiniteSet(S) <=> IsFiniteSet(S)) /\ Dv!Cardinality(S) = Cardinality(S)
  BY DEF Dv!IsFiniteSet, IsFiniteSet, Dv!Cardinality, Cardinality
LEMMA HpCounts == \A S : (Hp!IsFiniteSet(S) <=> IsFiniteSet(S)) /\ Hp!Cardinality(S) = Cardinality(S)
  BY DEF Hp!IsFiniteSet, IsFiniteSet, Hp!Cardinality, Cardinality
LEMMA MeCounts == \A S : (Me!IsFiniteSet(S) <=> IsFiniteSet(S)) /\ Me!Cardinality(S) = Cardinality(S)
  BY DEF Me!IsFiniteSet, IsFiniteSet, Me!Cardinality, Cardinality

-----------------------------------------------------------------------------
(* Requests and their approval. *)

\* The matrices are step lists, none of them the mark of an edited one, and overtime requests are
\* requests.
Lists ==
  /\ \A m \in Matrices : Len(m) \in Nat /\ m # <<"changed">>
  /\ OT \subseteq Docs /\ MaxEdits \in Nat

RequestRows == [Docs -> Rq!Row \cup {Rq!NoRow}]
Outs == SUBSET {"fake", "real"}
Tickets == [status : {"Pending", "Explained", "Penalised", "Waived"}, auto : {"fake", "real"},
            outs : Outs, link : {"fake", "real"}]
RequestTypes ==
  /\ Rq!TypeOK /\ ticket \in Tickets /\ signed \in [Docs -> SUBSET Nat] /\ sent \in [Docs -> Matrices \cup {<<"changed">>}]

\* The steps a row in the state tells of are signed.
Signed(d, state) ==
  /\ state = "Pending HR" => 1 \in signed[d]
  /\ state \in Rq!_OT_ENGINE_STATES => 1..Len(matrix) \subseteq signed[d]
AllSigned == \A d \in Docs : sent[d] = matrix => Signed(d, doc[d].state) /\ Signed(d, saving[d].state)

\* What a transaction under way may write over an approved request.
Lawful(d) ==
  saving[d] # Rq!NoRow =>
    /\ doc[d].state \in Rq!_OT_ENGINE_STATES =>
         saving[d].state \in Rq!_OT_ENGINE_STATES /\ saving[d].day = doc[d].day
    /\ saving[d].state \in Rq!_OT_ENGINE_STATES => doc[d] # Rq!NoRow /\ saving[d].day = doc[d].day
\* An approval under way has queued its day.
Due(d) ==
  saving[d].state \in Rq!_OT_ENGINE_STATES /\ doc[d].state \notin Rq!_OT_ENGINE_STATES =>
    saving[d].day \in queue
\* What is to be counted is counted or queued, an approval under way included.
Counts ==
  /\ \A date \in Days : date \notin queue => counted[date] = Rq!get_approved_ot_requests(date)
  /\ \A d \in OT : Due(d)

Open(x) == x # Rq!NoRow /\ x.state # "Rejected"
\* Rows of one kind, committed or under way, that are open are of different days.
RequestApart ==
  \A d \in Docs : \A e \in Rq!SameKind(d) \ {d} :
    \A x \in {doc[d], saving[d]}, y \in {doc[e], saving[e]} : Open(x) /\ Open(y) => x.day # y.day

-----------------------------------------------------------------------------
(* Rows. *)

LEMMA RowFields ==
  /\ \A s \in Rq!States, date \in Days :
       [state |-> s, day |-> date] \in Rq!Row /\ [state |-> s, day |-> date] # Rq!NoRow
  /\ \A x \in Rq!Row \cup {Rq!NoRow} : x # Rq!NoRow <=> x \in Rq!Row
  /\ \A x \in Rq!Row : x.state \in Rq!States /\ x.day \in Days
  /\ Rq!NoRow.state = "None" /\ "None" \notin Rq!States
  <1>1. \A x \in Rq!Row : x.state \in Rq!States /\ x.day \in Days
    BY DEF Rq!Row
  <1>2. Rq!NoRow.state = "None" /\ "None" \notin Rq!States
    BY DEF Rq!NoRow, Rq!States, Rq!Pending
  <1>3. Rq!NoRow \notin Rq!Row
    BY <1>1, <1>2
  <1> QED BY <1>1, <1>2, <1>3 DEF Rq!Row

\* What a save leaves.
LEMMA SaveIs ==
  ASSUME RequestTypes, NEW d \in Docs, NEW to \in Rq!States, NEW date \in Days, Rq!Save(d, to, date)
  PROVE  /\ saving' \in RequestRows /\ saving'[d] = [state |-> to, day |-> date]
         /\ saving'[d] # Rq!NoRow /\ saving'[d].state = to /\ saving'[d].day = date
         /\ \A e \in Docs \ {d} : saving'[e] = saving[e]
         /\ UNCHANGED <<doc, matrix, deleg, locked, counted, ticket, edits>>
         /\ Rq!Valid(d, date)
  <1>1. PICK x : x = [state |-> to, day |-> date]
    OBVIOUS
  <1>2. x \in Rq!Row /\ x # Rq!NoRow /\ x.state = to /\ x.day = date
    BY <1>1, RowFields
  <1>3. saving' = [saving EXCEPT ![d] = x] /\ Rq!Valid(d, date)
        /\ UNCHANGED <<doc, matrix, deleg, locked, counted, ticket, edits>>
    BY <1>1 DEF Rq!Save, Rq!outside
  <1>4. saving \in RequestRows
    BY DEF RequestTypes, Rq!TypeOK, RequestRows
  <1> QED BY <1>1, <1>2, <1>3, <1>4 DEF RequestRows

LEMMA Exist ==
  ASSUME RequestTypes, NEW d \in Docs
  PROVE  /\ doc[d] # Rq!NoRow <=> doc[d] \in Rq!Row
         /\ saving[d] # Rq!NoRow <=> saving[d] \in Rq!Row
         /\ doc[d].state # "None" => doc[d] \in Rq!Row /\ doc[d].state \in Rq!States /\ doc[d].day \in Days
         /\ saving[d].state # "None" =>
              saving[d] \in Rq!Row /\ saving[d].state \in Rq!States /\ saving[d].day \in Days
  <1>1. doc[d] \in Rq!Row \cup {Rq!NoRow} /\ saving[d] \in Rq!Row \cup {Rq!NoRow}
    BY DEF RequestTypes, Rq!TypeOK
  <1> QED BY <1>1, RowFields

-----------------------------------------------------------------------------
(* The steps, by what they do. *)

Sends(d, to, date) ==
  /\ saving[d] = Rq!NoRow /\ Rq!CanStart /\ doc[d].state \in {"None", "Draft"} /\ Rq!Save(d, to, date)
  /\ signed' = [signed EXCEPT ![d] = {}] /\ sent' = [sent EXCEPT ![d] = matrix]
  /\ UNCHANGED queue
\* It is taken back, rejected or returned.
Drops(d, to) ==
  /\ saving[d] = Rq!NoRow /\ doc[d].state \in Rq!Pending \cup {"Draft"} /\ Rq!Save(d, to, doc[d].day)
  /\ UNCHANGED <<queue, signed, sent>>
Approves(d) ==
  /\ saving[d] = Rq!NoRow /\ doc[d].state \in Rq!Pending
  /\ Rq!Save(d, Rq!next_state_after(doc[d].state), doc[d].day)
  /\ Rq!_after_ot_state_change(d, Rq!next_state_after(doc[d].state))
  /\ signed' = [signed EXCEPT ![d] = @ \cup {Rq!state_step_index(doc[d].state)}]
  /\ UNCHANGED sent
Beside == UNCHANGED <<doc, saving, matrix, counted, queue, signed, sent>>
Elsewhere ==
  \/ \E d \in Docs, u \in Rq!Users, to \in Deputies : Rq!delegate_request(d, u, to)
  \/ \E u \in {Boss, Chief}, to \in Deputies : Rq!save_delegation(u, to)
  \/ \E date \in Days : Rq!LockDay(date)
  \/ \E status \in {"Waived", "Penalised"} : Rq!DecideTicket(status)
  \/ Rq!delete_delegation

LEMMA RequestSteps ==
  ASSUME RequestTypes, Rq!Next
  PROVE  \/ \E d \in Docs : \/ \E to \in Rq!Sent, date \in Days : Sends(d, to, date)
                            \/ \E to \in {"Rejected", "Draft"} : Drops(d, to)
                            \/ Approves(d) \/ Rq!Confirm(d) \/ Rq!Commit(d) \/ Rq!Abort(d)
         \/ \E m \in Matrices : Rq!save_approval_matrix(m)
         \/ \E date \in Days : Rq!RunJob(date)
         \/ Beside /\ Elsewhere
  <1> DEFINE Goal == \/ \E d \in Docs : \/ \E to \in Rq!Sent, date \in Days : Sends(d, to, date)
                                        \/ \E to \in {"Rejected", "Draft"} : Drops(d, to)
                                        \/ Approves(d) \/ Rq!Confirm(d) \/ Rq!Commit(d) \/ Rq!Abort(d)
                     \/ \E m \in Matrices : Rq!save_approval_matrix(m)
                     \/ \E date \in Days : Rq!RunJob(date)
                     \/ Beside /\ Elsewhere
  <1>1. ASSUME NEW d \in Docs, NEW date \in Days,
               \/ Rq!submit_overtime_request(d, date) \/ Rq!submit_correction_request(d, date)
               \/ Rq!update_overtime_request(d, date) \/ Rq!update_correction_request(d, date)
        PROVE  Goal
    <2>1. CASE Rq!submit_request(d, date)
      <3>1. doc[d].state \in {"None", "Draft"}
        BY <2>1, RowFields DEF Rq!submit_request, Rq!Exists
      <3> QED BY <2>1, <3>1 DEF Rq!submit_request, Sends
    <2>2. CASE Rq!update_request(d, date)
      BY <2>2 DEF Rq!update_request, Sends
    <2> QED BY <1>1, <2>1, <2>2 DEF Rq!submit_overtime_request, Rq!submit_correction_request,
                 Rq!update_overtime_request, Rq!update_correction_request
  <1>2. ASSUME NEW d \in Docs, Rq!cancel_overtime_request(d) \/ Rq!cancel_correction_request(d)
        PROVE  Goal
    <2>1. Rq!cancel_request(d)
      BY <1>2 DEF Rq!cancel_overtime_request, Rq!cancel_correction_request
    <2>2. Drops(d, "Rejected")
      BY <2>1 DEF Rq!cancel_request, Drops
    <2> QED BY <2>2
  <1>3. ASSUME NEW d \in Docs, NEW u \in Rq!Users, Rq!approve_request(d, u)
        PROVE  Goal
    <2>1. Approves(d)
      BY <1>3 DEF Rq!approve_request, Rq!MayDecide, Approves
    <2> QED BY <2>1
  <1>4. ASSUME NEW d \in Docs, NEW u \in Rq!Users, Rq!reject_request(d, u) \/ Rq!return_request(d, u)
        PROVE  Goal
    <2>1. Drops(d, "Rejected") \/ Drops(d, "Draft")
      BY <1>4 DEF Rq!reject_request, Rq!return_request, Rq!MayDecide, Drops
    <2> QED BY <2>1
  <1>5. ASSUME NEW d \in Docs, NEW u \in Rq!Users, NEW to \in Deputies, Rq!delegate_request(d, u, to)
        PROVE  Goal
    BY <1>5 DEF Rq!delegate_request, Beside, Elsewhere
  <1>6. ASSUME NEW u \in {Boss, Chief}, NEW to \in Deputies, Rq!save_delegation(u, to)
        PROVE  Goal
    BY <1>6 DEF Rq!save_delegation, Beside, Elsewhere
  <1>7. ASSUME NEW date \in Days, Rq!LockDay(date) PROVE Goal
    BY <1>7 DEF Rq!LockDay, Beside, Elsewhere
  <1>8. ASSUME NEW status \in {"Waived", "Penalised"}, Rq!DecideTicket(status) PROVE Goal
    BY <1>8 DEF Rq!DecideTicket, Beside, Elsewhere
  <1>9. Rq!delete_delegation => Goal
    BY DEF Rq!delete_delegation, Beside, Elsewhere
  <1>10. ASSUME NEW d \in Docs, Rq!Confirm(d) \/ Rq!Commit(d) \/ Rq!Abort(d) PROVE Goal
    BY <1>10
  <1>11. ASSUME NEW m \in Matrices, Rq!save_approval_matrix(m) PROVE Goal
    BY <1>11
  <1>12. ASSUME NEW date \in Days, Rq!RunJob(date) PROVE Goal
    BY <1>12
  <1> HIDE DEF Goal
  <1>13. Goal
    BY <1>1, <1>2, <1>3, <1>4, <1>5, <1>6, <1>7, <1>8, <1>9, <1>10, <1>11, <1>12 DEF Rq!Next
  <1> QED BY <1>13 DEF Goal

-----------------------------------------------------------------------------
(* Types. *)

LEMMA NextStates ==
  ASSUME NEW s \in Rq!States
  PROVE  Rq!next_state_after(s) \in {"Pending Manager", "Pending HR", "Approved"}
         /\ Rq!state_step_index(s) \in {1, 2}
  BY DEF Rq!next_state_after, Rq!state_step_index, Rq!step_pending_state

LEMMA RequestTypedStep ==
  ASSUME Lists, RequestTypes, [Rq!Next]_Rq!vars
  PROVE  RequestTypes'
  <1>1. ASSUME NEW d \in Docs, NEW to \in Rq!Sent, NEW date \in Days, Sends(d, to, date)
        PROVE  RequestTypes'
    <2>1. /\ saving' \in RequestRows /\ UNCHANGED <<doc, matrix, deleg, locked, counted, ticket, edits>>
      <3>1. to \in Rq!States
        BY DEF Rq!Sent, Rq!States, Rq!Pending
      <3> QED BY <1>1, <3>1, SaveIs DEF Sends
    <2>2. signed' \in [Docs -> SUBSET Nat]
      BY <1>1 DEF Sends, RequestTypes
    <2>3. sent' \in [Docs -> Matrices \cup {<<"changed">>}]
      <3>1. matrix \in Matrices
        BY DEF RequestTypes, Rq!TypeOK
      <3> QED BY <1>1, <3>1 DEF Sends, RequestTypes
    <2>4. Rq!TypeOK'
      BY <1>1, <2>1 DEF Sends, RequestTypes, Rq!TypeOK, RequestRows
    <2> QED BY <2>1, <2>2, <2>3, <2>4 DEF RequestTypes
  <1>2. ASSUME NEW d \in Docs, NEW to \in {"Rejected", "Draft"}, Drops(d, to)
        PROVE  RequestTypes'
    <2>1. to \in Rq!States /\ doc[d].day \in Days
      BY <1>2, Exist DEF Drops, Rq!States, Rq!Pending
    <2>2. /\ saving' \in RequestRows /\ UNCHANGED <<doc, matrix, deleg, locked, counted, ticket, edits>>
      BY <1>2, <2>1, SaveIs DEF Drops
    <2>3. UNCHANGED <<queue, signed, sent>>
      BY <1>2 DEF Drops
    <2> QED BY <2>2, <2>3 DEF RequestTypes, Rq!TypeOK, RequestRows
  <1>3. ASSUME NEW d \in Docs, Approves(d)
        PROVE  RequestTypes'
    <2>1. doc[d].state \in Rq!States /\ doc[d].day \in Days
      BY <1>3, Exist DEF Approves, Rq!States, Rq!Pending
    <2>2. PICK to \in Rq!States : to = Rq!next_state_after(doc[d].state)
      BY <2>1, NextStates DEF Rq!States, Rq!Pending
    <2>3. /\ saving' \in RequestRows /\ UNCHANGED <<doc, matrix, deleg, locked, counted, ticket, edits>>
      BY <1>3, <2>1, <2>2, SaveIs DEF Approves
    <2>4. queue' \subseteq Days
      BY <1>3, <2>1 DEF Approves, Rq!_after_ot_state_change, RequestTypes, Rq!TypeOK
    <2>5. signed' \in [Docs -> SUBSET Nat]
      <3>1. PICK n \in Nat : n = Rq!state_step_index(doc[d].state)
        BY <2>1, NextStates
      <3>2. signed' = [signed EXCEPT ![d] = signed[d] \cup {n}]
        BY <1>3, <3>1 DEF Approves
      <3> QED BY <3>2 DEF RequestTypes
    <2> QED BY <1>3, <2>3, <2>4, <2>5 DEF Approves, RequestTypes, Rq!TypeOK, RequestRows
  <1>4. ASSUME NEW d \in Docs, Rq!Confirm(d)
        PROVE  RequestTypes'
    <2>1. "Confirmed" \in Rq!States /\ doc[d].day \in Days
      BY <1>4, Exist DEF Rq!Confirm, Rq!States, Rq!Pending
    <2>2. /\ saving' \in RequestRows /\ UNCHANGED <<doc, matrix, deleg, locked, counted, ticket, edits>>
      BY <1>4, <2>1, SaveIs DEF Rq!Confirm
    <2> QED BY <1>4, <2>2 DEF Rq!Confirm, RequestTypes, Rq!TypeOK, RequestRows
  <1>5. ASSUME NEW d \in Docs, Rq!Commit(d)
        PROVE  RequestTypes'
    <2>1. doc' \in RequestRows /\ saving' \in RequestRows
      BY <1>5 DEF Rq!Commit, RequestTypes, Rq!TypeOK, RequestRows
    <2>2. ticket' \in Tickets
      <3>1. PICK t : t = [ticket EXCEPT !.outs = @ \cup {"real"}, !.auto = "real"]
        OBVIOUS
      <3>2. PICK w \in {"Pending", "Explained", "Penalised", "Waived"} :
              w = IF ticket.status \in {"Pending", "Explained", "Penalised"} THEN "Waived"
                  ELSE ticket.status
        BY DEF RequestTypes, Tickets
      <3>3. ticket \in Tickets
        BY DEF RequestTypes
      <3>4. t \in Tickets
        BY <3>1, <3>3 DEF Tickets, Outs
      <3>5. PICK u : u = [t EXCEPT !.outs = @ \ {"fake"}, !.link = "real", !.status = w]
        OBVIOUS
      <3>6. u \in Tickets
        BY <3>4, <3>5 DEF Tickets, Outs
      <3>7. Rq!_after_correction_state_change(d) \in {t, u}
        BY <3>1, <3>2, <3>5 DEF Rq!_after_correction_state_change
      <3>8. ticket' \in {ticket, Rq!_after_correction_state_change(d)}
        BY <1>5 DEF Rq!Commit
      <3> QED BY <3>3, <3>4, <3>6, <3>7, <3>8
    <2>3. ticket'.outs \subseteq {"fake", "real"}
      BY <2>2 DEF Tickets, Outs
    <2> QED BY <1>5, <2>1, <2>2, <2>3 DEF Rq!Commit, RequestTypes, Rq!TypeOK, RequestRows
  <1>6. ASSUME NEW d \in Docs, Rq!Abort(d)
        PROVE  RequestTypes'
    <2>1. saving' \in RequestRows /\ signed' \in [Docs -> SUBSET Nat]
          /\ sent' \in [Docs -> Matrices \cup {<<"changed">>}]
      BY <1>6 DEF Rq!Abort, RequestTypes, Rq!TypeOK, RequestRows
    <2> QED BY <1>6, <2>1 DEF Rq!Abort, RequestTypes, Rq!TypeOK, RequestRows
  <1>7. ASSUME NEW m \in Matrices, Rq!save_approval_matrix(m)
        PROVE  RequestTypes'
    <2>1. edits' \in 0..MaxEdits
      BY <1>7 DEF Rq!save_approval_matrix, Rq!Edit, RequestTypes, Rq!TypeOK, Lists
    <2> QED BY <1>7, <2>1 DEF Rq!save_approval_matrix, RequestTypes, Rq!TypeOK
  <1>8. ASSUME NEW date \in Days, Rq!RunJob(date)
        PROVE  RequestTypes'
    <2>1. Rq!get_approved_ot_requests(date) \in SUBSET OT
      BY DEF Rq!get_approved_ot_requests
    <2> QED BY <1>8, <2>1 DEF Rq!RunJob, RequestTypes, Rq!TypeOK
  <1>9. ASSUME Beside, Rq!TypeOK', ticket' \in Tickets
        PROVE  RequestTypes'
    BY <1>9 DEF Beside, RequestTypes
  <1>10. ASSUME Beside, UNCHANGED <<deleg, locked, ticket, edits>>
         PROVE  RequestTypes'
    BY <1>10 DEF Beside, RequestTypes, Rq!TypeOK
  <1>11. ASSUME NEW u \in Rq!Users, NEW to \in Deputies, NEW scope \in Docs \cup {"All"},
                deleg' = deleg \cup {<<u, to, scope>>}, Beside, UNCHANGED <<locked, ticket>>,
                edits' \in 0..MaxEdits
         PROVE  RequestTypes'
    <2>1. <<u, to, scope>> \in Rq!Users \X Rq!Users \X (Docs \cup {"All"})
      BY DEF Rq!Users
    <2>2. deleg' \subseteq Rq!Users \X Rq!Users \X (Docs \cup {"All"})
      BY <1>11, <2>1 DEF RequestTypes, Rq!TypeOK
    <2> QED BY <1>9, <1>11, <2>2 DEF Beside, RequestTypes, Rq!TypeOK
  <1>12. Rq!Edit => edits' \in 0..MaxEdits
    BY DEF Rq!Edit, RequestTypes, Rq!TypeOK, Lists
  <1>13. ASSUME NEW d \in Docs, NEW u \in Rq!Users, NEW to \in Deputies, Rq!delegate_request(d, u, to)
         PROVE  RequestTypes'
    BY <1>11, <1>13 DEF Rq!delegate_request, Beside, RequestTypes, Rq!TypeOK
  <1>14. ASSUME NEW u \in {Boss, Chief}, NEW to \in Deputies, Rq!save_delegation(u, to)
         PROVE  RequestTypes'
    <2>1. u \in Rq!Users
      BY DEF Rq!Users
    <2> QED BY <1>11, <1>12, <1>14, <2>1 DEF Rq!save_delegation, Beside
  <1>15. ASSUME NEW date \in Days, Rq!LockDay(date) PROVE RequestTypes'
    <2>1. locked' \subseteq Days
      BY <1>15 DEF Rq!LockDay, RequestTypes, Rq!TypeOK
    <2> QED BY <1>9, <1>12, <1>15, <2>1 DEF Rq!LockDay, Beside, RequestTypes, Rq!TypeOK
  <1>16. ASSUME NEW status \in {"Waived", "Penalised"}, Rq!DecideTicket(status) PROVE RequestTypes'
    <2>1. ticket' \in Tickets
      BY <1>16 DEF Rq!DecideTicket, RequestTypes, Tickets
    <2>2. ticket'.outs \subseteq {"fake", "real"}
      BY <2>1 DEF Tickets, Outs
    <2> QED BY <1>9, <1>12, <1>16, <2>1, <2>2 DEF Rq!DecideTicket, Beside, RequestTypes, Rq!TypeOK
  <1>17. Rq!delete_delegation => RequestTypes'
    <2> SUFFICES ASSUME Rq!delete_delegation PROVE RequestTypes'
      OBVIOUS
    <2>1. deleg' \subseteq deleg
      BY DEF Rq!delete_delegation
    <2> QED BY <1>9, <2>1 DEF Rq!delete_delegation, Beside, RequestTypes, Rq!TypeOK
  <1>18. UNCHANGED Rq!vars => RequestTypes'
    BY <1>10 DEF Rq!vars, Beside
  <1>19. Elsewhere => RequestTypes'
    BY <1>13, <1>14, <1>15, <1>16, <1>17 DEF Elsewhere
  <1>20. Rq!Next => RequestTypes'
    BY <1>19, RequestSteps, <1>1, <1>2, <1>3, <1>4, <1>5, <1>6, <1>7, <1>8
  <1> QED BY <1>18, <1>20

LEMMA TypedHolds ==
  ASSUME Lists
  PROVE  Rq!Spec => []RequestTypes
  <1>1. Rq!Init => RequestTypes
    <2> SUFFICES ASSUME Rq!Init PROVE RequestTypes
      OBVIOUS
    <2>1. ticket \in Tickets
      BY DEF Rq!Init, Tickets, Outs
    <2> QED BY <2>1 DEF Rq!Init, RequestTypes, Rq!TypeOK, Tickets, Outs, Lists
  <1>2. RequestTypes /\ [Rq!Next]_Rq!vars => RequestTypes'
    BY RequestTypedStep
  <1> QED BY <1>1, <1>2, PTL DEF Rq!Spec

\* Requests, the matrix, delegations, days and tickets keep their types.
THEOREM RequestsTyped ==
  ASSUME Lists
  PROVE  Rq!Spec => []Rq!TypeOK
  <1>1. RequestTypes => Rq!TypeOK
    BY DEF RequestTypes
  <1> QED BY <1>1, TypedHolds, PTL

-----------------------------------------------------------------------------
(* The matrix. *)

LEMMA StepTo ==
  ASSUME Lists, RequestTypes, NEW s \in Rq!Pending
  PROVE  /\ Rq!next_state_after(s) = "Pending HR" => s = "Pending Manager" \/ s = "Pending HR"
         /\ Rq!next_state_after(s) \in Rq!_OT_ENGINE_STATES =>
              1..Len(matrix) \subseteq IF s = "Pending HR" THEN {1, 2} ELSE {1}
         /\ Rq!state_step_index(s) = IF s = "Pending HR" THEN 2 ELSE 1
         /\ Rq!next_state_after(s) \in Rq!States
  <1>1. PICK n \in Nat : n = Len(matrix)
    BY DEF Lists, RequestTypes, Rq!TypeOK
  <1>2. Rq!state_step_index(s) = IF s = "Pending HR" THEN 2 ELSE 1
    BY DEF Rq!state_step_index
  <1> DEFINE k == IF s = "Pending HR" THEN 2 ELSE 1
  <1>3. CASE Rq!state_step_index(s) < n
    <2>1. Rq!next_state_after(s) \in Rq!Pending
      BY <1>1, <1>3 DEF Rq!next_state_after, Rq!step_pending_state, Rq!Pending
    <2> QED BY <1>2, <2>1 DEF Rq!Pending, Rq!_OT_ENGINE_STATES, Rq!States
  <1>4. CASE ~(Rq!state_step_index(s) < n)
    <2>1. Rq!next_state_after(s) = "Approved"
      BY <1>1, <1>4 DEF Rq!next_state_after
    <2>2. k \in {1, 2} /\ ~(k < n)
      BY <1>2, <1>4
    <2>3. \A i \in 1..n : i \in IF k = 2 THEN {1, 2} ELSE {1}
      <3> HIDE DEF k
      <3> QED BY <2>2
    <2>4. (IF k = 2 THEN {1, 2} ELSE {1}) = IF s = "Pending HR" THEN {1, 2} ELSE {1}
      OBVIOUS
    <2> QED BY <1>1, <1>2, <2>1, <2>3, <2>4 DEF Rq!States, Rq!Pending
  <1> QED BY <1>3, <1>4

LEMMA SignedStep ==
  ASSUME Lists, RequestTypes, AllSigned, [Rq!Next]_Rq!vars
  PROVE  AllSigned'
  <1> DEFINE Ok(d) == sent[d] = matrix => Signed(d, doc[d].state) /\ Signed(d, saving[d].state)
  \* Only the request itself is touched.
  <1>1. ASSUME NEW d \in Docs, UNCHANGED <<doc, matrix>>,
               \A e \in Docs \ {d} : saving'[e] = saving[e] /\ signed'[e] = signed[e] /\ sent'[e] = sent[e],
               sent'[d] = matrix => Signed(d, doc[d].state)' /\ Signed(d, saving[d].state)'
        PROVE  AllSigned'
    <2>1. ASSUME NEW e \in Docs \ {d}
          PROVE  (sent[e] = matrix => Signed(e, doc[e].state) /\ Signed(e, saving[e].state))'
      BY <1>1, <2>1 DEF AllSigned, Signed
    <2> QED BY <1>1, <2>1 DEF AllSigned
  <1>2. ASSUME NEW d \in Docs, NEW to \in Rq!Sent, NEW date \in Days, Sends(d, to, date)
        PROVE  AllSigned'
    <2>1. to \in Rq!States /\ to \notin Rq!_OT_ENGINE_STATES /\ to # "Pending HR"
      BY DEF Rq!Sent, Rq!States, Rq!Pending, Rq!_OT_ENGINE_STATES
    <2>2. /\ saving'[d].state = to /\ \A e \in Docs \ {d} : saving'[e] = saving[e]
          /\ UNCHANGED <<doc, matrix>>
      BY <1>2, <2>1, SaveIs DEF Sends
    <2>3. \A e \in Docs \ {d} : signed'[e] = signed[e] /\ sent'[e] = sent[e]
      BY <1>2 DEF Sends, RequestTypes
    <2>4. doc'[d].state \notin Rq!_OT_ENGINE_STATES /\ doc'[d].state # "Pending HR"
      BY <1>2, <2>2 DEF Sends, Rq!_OT_ENGINE_STATES
    <2> QED BY <1>1, <2>1, <2>2, <2>3, <2>4 DEF Signed
  <1>3. ASSUME NEW d \in Docs, NEW to \in {"Rejected", "Draft"}, Drops(d, to)
        PROVE  AllSigned'
    <2>1. to \in Rq!States /\ to \notin Rq!_OT_ENGINE_STATES /\ to # "Pending HR" /\ doc[d].day \in Days
      BY <1>3, Exist DEF Drops, Rq!States, Rq!Pending, Rq!_OT_ENGINE_STATES
    <2>2. /\ saving'[d].state = to /\ \A e \in Docs \ {d} : saving'[e] = saving[e]
          /\ UNCHANGED <<doc, matrix, signed, sent>>
      BY <1>3, <2>1, SaveIs DEF Drops
    <2>3. sent'[d] = matrix => Signed(d, doc[d].state)'
      BY <2>2 DEF AllSigned, Signed
    <2> QED BY <1>1, <2>1, <2>2, <2>3 DEF Signed
  <1>4. ASSUME NEW d \in Docs, Approves(d)
        PROVE  AllSigned'
    <2>1. PICK s : s = doc[d].state
      OBVIOUS
    <2>2. s \in Rq!Pending /\ s \in Rq!States /\ doc[d].day \in Days
      BY <1>4, <2>1, Exist DEF Approves, Rq!Pending
    <2>3. PICK to \in Rq!States : to = Rq!next_state_after(s)
      BY <2>2, StepTo
    <2>4. /\ saving'[d].state = to /\ \A e \in Docs \ {d} : saving'[e] = saving[e]
          /\ UNCHANGED <<doc, matrix, sent>>
      BY <1>4, <2>1, <2>2, <2>3, SaveIs DEF Approves
    <2>5. PICK n : n = Rq!state_step_index(s)
      OBVIOUS
    <2>6. signed' = [signed EXCEPT ![d] = signed[d] \cup {n}]
      BY <1>4, <2>1, <2>5 DEF Approves
    <2>7. signed'[d] = signed[d] \cup {n} /\ \A e \in Docs \ {d} : signed'[e] = signed[e]
      BY <2>6 DEF RequestTypes
    <2>8. sent[d] = matrix => Signed(d, s)
      BY <2>1 DEF AllSigned
    <2>9. n = IF s = "Pending HR" THEN 2 ELSE 1
      BY <2>2, <2>5, StepTo
    <2>10. sent[d] = matrix =>
             /\ s = "Pending HR" => 1 \in signed'[d] /\ 2 \in signed'[d]
             /\ s = "Pending Manager" => 1 \in signed'[d]
      BY <2>7, <2>8, <2>9 DEF Signed
    <2>11. sent[d] = matrix =>
             /\ to = "Pending HR" => 1 \in signed'[d]
             /\ to \in Rq!_OT_ENGINE_STATES => 1..Len(matrix) \subseteq signed'[d]
      BY <2>2, <2>3, <2>10, StepTo DEF Rq!Pending
    <2>12. sent[d] = matrix => Signed(d, s)'
      BY <2>4, <2>7, <2>8 DEF Signed
    <2> QED BY <1>1, <2>1, <2>4, <2>7, <2>11, <2>12 DEF Signed
  <1>5. ASSUME NEW d \in Docs, Rq!Confirm(d)
        PROVE  AllSigned'
    <2>1. "Confirmed" \in Rq!States /\ doc[d].day \in Days /\ doc[d].state = "Approved"
      BY <1>5, Exist DEF Rq!Confirm, Rq!States, Rq!Pending
    <2>2. /\ saving'[d].state = "Confirmed" /\ \A e \in Docs \ {d} : saving'[e] = saving[e]
          /\ UNCHANGED <<doc, matrix, signed, sent>>
      BY <1>5, <2>1, SaveIs DEF Rq!Confirm
    <2>3. sent'[d] = matrix => Signed(d, doc[d].state)' /\ Signed(d, "Confirmed")'
      BY <2>1, <2>2 DEF AllSigned, Signed, Rq!_OT_ENGINE_STATES
    <2> QED BY <1>1, <2>2, <2>3 DEF Signed
  <1>6. ASSUME NEW d \in Docs, Rq!Commit(d)
        PROVE  AllSigned'
    <2>1. /\ UNCHANGED <<matrix, signed, sent>>
          /\ doc'[d] = saving[d] /\ saving'[d] = Rq!NoRow
          /\ \A e \in Docs \ {d} : doc'[e] = doc[e] /\ saving'[e] = saving[e]
      BY <1>6 DEF Rq!Commit, RequestTypes, Rq!TypeOK
    <2>2. Rq!NoRow.state # "Pending HR" /\ Rq!NoRow.state \notin Rq!_OT_ENGINE_STATES
      BY DEF Rq!NoRow, Rq!_OT_ENGINE_STATES
    <2> QED BY <2>1, <2>2 DEF AllSigned, Signed
  <1>7. ASSUME NEW d \in Docs, Rq!Abort(d)
        PROVE  AllSigned'
    <2>1. /\ UNCHANGED <<doc, matrix>> /\ sent'[d] = <<"changed">>
          /\ \A e \in Docs \ {d} : saving'[e] = saving[e] /\ signed'[e] = signed[e] /\ sent'[e] = sent[e]
      BY <1>7 DEF Rq!Abort, RequestTypes, Rq!TypeOK
    <2>2. matrix # <<"changed">>
      BY DEF Lists, RequestTypes, Rq!TypeOK
    <2> QED BY <1>1, <2>1, <2>2
  <1>8. ASSUME NEW m \in Matrices, Rq!save_approval_matrix(m)
        PROVE  AllSigned'
    <2>1. matrix' = m /\ \A d \in Docs : sent'[d] = <<"changed">>
      BY <1>8 DEF Rq!save_approval_matrix
    <2> QED BY <2>1 DEF AllSigned, Lists
  <1>9. ASSUME UNCHANGED <<doc, saving, matrix, signed, sent>>
        PROVE  AllSigned'
    BY <1>9 DEF AllSigned, Signed
  <1>10. ASSUME NEW date \in Days, Rq!RunJob(date) PROVE AllSigned'
    BY <1>9, <1>10 DEF Rq!RunJob
  <1>11. Beside => AllSigned'
    BY <1>9 DEF Beside
  <1>12. UNCHANGED Rq!vars => AllSigned'
    BY <1>9 DEF Rq!vars
  <1> QED BY <1>2, <1>3, <1>4, <1>5, <1>6, <1>7, <1>8, <1>10, <1>11, <1>12, RequestSteps

\* An approved request went through every step of the matrix since it was last sent, unless HR
\* changed the matrix meanwhile.
THEOREM EveryStepIsSigned ==
  ASSUME Lists
  PROVE  Rq!Spec => []Rq!StepsSigned
  <1>1. Rq!Init => AllSigned
    <2> SUFFICES ASSUME Rq!Init, NEW d \in Docs
                 PROVE  Signed(d, doc[d].state) /\ Signed(d, saving[d].state)
      BY DEF AllSigned
    <2>1. doc[d] = Rq!NoRow /\ saving[d] = Rq!NoRow
      BY DEF Rq!Init
    <2>2. Rq!NoRow.state # "Pending HR" /\ Rq!NoRow.state \notin Rq!_OT_ENGINE_STATES
      BY DEF Rq!NoRow, Rq!_OT_ENGINE_STATES
    <2> QED BY <2>1, <2>2 DEF Signed
  <1>2. RequestTypes /\ AllSigned /\ [Rq!Next]_Rq!vars => AllSigned'
    BY SignedStep
  <1>3. AllSigned => Rq!StepsSigned
    BY DEF AllSigned, Rq!StepsSigned, Signed, Rq!_OT_ENGINE_STATES
  <1>4. Rq!Spec => []RequestTypes
    BY TypedHolds
  <1> QED BY <1>1, <1>2, <1>3, <1>4, PTL DEF Rq!Spec

-----------------------------------------------------------------------------
(* One open request a day. *)

LEMMA ApartStep ==
  ASSUME Lists, ~Overlap, RequestTypes, RequestApart, [Rq!Next]_Rq!vars
  PROVE  RequestApart'
  <1>1. \A d, e \in Docs : e \in Rq!SameKind(d) <=> d \in Rq!SameKind(e)
    BY DEF Rq!SameKind, Lists
  <1>2. \A d \in Docs : Rq!SameKind(d) \subseteq Docs
    BY DEF Rq!SameKind, Lists
  \* One request gets a row that is apart from the others'.
  <1>3. ASSUME NEW d \in Docs, UNCHANGED doc, \A e \in Docs \ {d} : saving'[e] = saving[e],
               \A e \in Rq!SameKind(d) \ {d} : \A y \in {doc[e], saving[e]} :
                 Open(saving'[d]) /\ Open(y) => saving'[d].day # y.day
        PROVE  RequestApart'
    <2> SUFFICES ASSUME NEW c \in Docs, NEW e \in Rq!SameKind(c) \ {c},
                        NEW x \in {doc[c], saving'[c]}, NEW y \in {doc[e], saving'[e]}, Open(x), Open(y)
                 PROVE  x.day # y.day
      BY <1>3 DEF RequestApart, Open, Rq!SameKind
    <2>1. e \in Docs /\ c \in Rq!SameKind(e) \ {e}
      BY <1>1, <1>2
    <2>2. CASE x \in {doc[c], saving[c]} /\ y \in {doc[e], saving[e]}
      BY <2>2 DEF RequestApart
    <2>3. CASE c = d /\ x = saving'[d]
      <3>1. y \in {doc[e], saving[e]}
        BY <1>3, <2>1, <2>3
      <3> QED BY <1>3, <2>3, <3>1
    <2>4. CASE e = d /\ y = saving'[d]
      <3>1. x \in {doc[c], saving[c]} /\ c \in Rq!SameKind(d) \ {d}
        BY <1>3, <2>1, <2>4
      <3>2. y.day # x.day
        BY <1>3, <2>4, <3>1
      <3> QED BY <3>2
    <2> QED BY <1>3, <2>1, <2>2, <2>3, <2>4
  <1>4. ASSUME NEW d \in Docs, NEW to \in Rq!Sent, NEW date \in Days, Sends(d, to, date)
        PROVE  RequestApart'
    <2>1. to \in Rq!States
      BY DEF Rq!Sent, Rq!States, Rq!Pending
    <2>2. /\ saving'[d].day = date /\ \A e \in Docs \ {d} : saving'[e] = saving[e]
          /\ UNCHANGED doc /\ Rq!Valid(d, date) /\ Rq!Idle
      BY <1>4, <2>1, SaveIs DEF Sends, Rq!CanStart
    <2>3. \A e \in Rq!SameKind(d) \ {d} : doc[e].state # "Rejected" => doc[e].day # date
      BY <2>2 DEF Rq!Valid, Rq!_validate_no_duplicate
    <2>4. \A e \in Rq!SameKind(d) \ {d} : ~Open(saving[e])
      BY <1>2, <2>2 DEF Open, Rq!Idle
    <2> QED BY <1>3, <2>2, <2>3, <2>4 DEF Open
  \* The day stays that of an open row.
  <1>5. ASSUME NEW d \in Docs, UNCHANGED doc, \A e \in Docs \ {d} : saving'[e] = saving[e],
               Open(doc[d]), saving'[d].day = doc[d].day
        PROVE  RequestApart'
    <2>1. \A e \in Rq!SameKind(d) \ {d} : \A y \in {doc[e], saving[e]} :
            Open(y) => saving'[d].day # y.day
      BY <1>5 DEF RequestApart
    <2> QED BY <1>3, <1>5, <2>1
  <1>6. ASSUME NEW d \in Docs, NEW to \in {"Rejected", "Draft"}, Drops(d, to)
        PROVE  RequestApart'
    <2>1. to \in Rq!States /\ doc[d].day \in Days /\ Open(doc[d])
      BY <1>6, Exist, RowFields DEF Drops, Rq!States, Rq!Pending, Open
    <2>2. saving'[d].day = doc[d].day /\ UNCHANGED doc /\ \A e \in Docs \ {d} : saving'[e] = saving[e]
      BY <1>6, <2>1, SaveIs DEF Drops
    <2> QED BY <1>5, <2>1, <2>2
  <1>7. ASSUME NEW d \in Docs, Approves(d)
        PROVE  RequestApart'
    <2>1. doc[d].state \in Rq!Pending /\ doc[d].day \in Days /\ Open(doc[d])
      BY <1>7, Exist, RowFields DEF Approves, Rq!States, Rq!Pending, Open
    <2>2. PICK to \in Rq!States : to = Rq!next_state_after(doc[d].state)
      BY <2>1, StepTo
    <2>3. saving'[d].day = doc[d].day /\ UNCHANGED doc /\ \A e \in Docs \ {d} : saving'[e] = saving[e]
      BY <1>7, <2>1, <2>2, SaveIs DEF Approves
    <2> QED BY <1>5, <2>1, <2>3
  <1>8. ASSUME NEW d \in Docs, Rq!Confirm(d)
        PROVE  RequestApart'
    <2>1. "Confirmed" \in Rq!States /\ doc[d].day \in Days /\ Open(doc[d])
      BY <1>8, Exist, RowFields DEF Rq!Confirm, Rq!States, Rq!Pending, Open
    <2>2. saving'[d].day = doc[d].day /\ UNCHANGED doc /\ \A e \in Docs \ {d} : saving'[e] = saving[e]
      BY <1>8, <2>1, SaveIs DEF Rq!Confirm
    <2> QED BY <1>5, <2>1, <2>2
  <1>9. ASSUME \A d \in Docs : /\ doc'[d] \in {doc[d], saving[d]}
                               /\ saving'[d] \in {saving[d], Rq!NoRow}
        PROVE  RequestApart'
    <2> SUFFICES ASSUME NEW c \in Docs, NEW e \in Rq!SameKind(c) \ {c},
                        NEW x \in {doc'[c], saving'[c]}, NEW y \in {doc'[e], saving'[e]}, Open(x), Open(y)
                 PROVE  x.day # y.day
      BY DEF RequestApart, Open, Rq!SameKind
    <2>1. x \in {doc[c], saving[c]}
      BY <1>9 DEF Open
    <2>2. y \in {doc[e], saving[e]}
      BY <1>2, <1>9 DEF Open
    <2> QED BY <2>1, <2>2 DEF RequestApart
  <1>10. ASSUME NEW d \in Docs, Rq!Commit(d) \/ Rq!Abort(d)
         PROVE  RequestApart'
    <2>1. \A e \in Docs : doc'[e] \in {doc[e], saving[e]} /\ saving'[e] \in {saving[e], Rq!NoRow}
      BY <1>10 DEF Rq!Commit, Rq!Abort, RequestTypes, Rq!TypeOK
    <2> QED BY <1>9, <2>1
  <1>11. ASSUME UNCHANGED <<doc, saving>> PROVE RequestApart'
    BY <1>9, <1>11
  <1>12. ASSUME NEW m \in Matrices, Rq!save_approval_matrix(m) PROVE RequestApart'
    BY <1>11, <1>12 DEF Rq!save_approval_matrix
  <1>13. ASSUME NEW date \in Days, Rq!RunJob(date) PROVE RequestApart'
    BY <1>11, <1>13 DEF Rq!RunJob
  <1>14. Beside => RequestApart'
    BY <1>11 DEF Beside
  <1>15. UNCHANGED Rq!vars => RequestApart'
    BY <1>11 DEF Rq!vars
  <1> QED BY <1>4, <1>6, <1>7, <1>8, <1>10, <1>12, <1>13, <1>14, <1>15, RequestSteps

\* When no two submissions overlap, a day has one open request of a kind.
THEOREM OneRequestPerDay ==
  ASSUME Lists, ~Overlap
  PROVE  Rq!Spec => []Rq!OneOpenPerDay
  <1>1. Rq!Init => RequestApart
    BY DEF Rq!Init, RequestApart, Open, Rq!SameKind, Lists
  <1>2. RequestTypes /\ RequestApart /\ [Rq!Next]_Rq!vars => RequestApart'
    BY ApartStep
  <1>3. RequestApart => Rq!OneOpenPerDay
    BY DEF RequestApart, Rq!OneOpenPerDay, Open, Rq!Exists
  <1>4. Rq!Spec => []RequestTypes
    BY TypedHolds
  <1> QED BY <1>1, <1>2, <1>3, <1>4, PTL DEF Rq!Spec

-----------------------------------------------------------------------------
(* The overtime. *)

Accounts == (\A d \in Docs : Lawful(d)) /\ Counts

LEMMA EngineStates ==
  /\ \A s \in Rq!_OT_ENGINE_STATES : s # "None" /\ s # "Draft" /\ s \notin Rq!Pending /\ s \in Rq!States
  /\ \A s \in {"Rejected", "Draft", "None"} \cup Rq!Sent : s \notin Rq!_OT_ENGINE_STATES
  /\ Rq!NoRow.state \notin Rq!_OT_ENGINE_STATES
  BY DEF Rq!_OT_ENGINE_STATES, Rq!Pending, Rq!Sent, Rq!States, Rq!NoRow

\* A save of a request that is not approved yet.
LEMMA SavesCount ==
  ASSUME Lists, RequestTypes, Accounts, NEW d \in Docs, NEW to \in Rq!States, NEW date \in Days,
         Rq!Save(d, to, date), doc[d].state \notin Rq!_OT_ENGINE_STATES,
         queue \subseteq queue', queue' \subseteq queue \cup {date},
         to \in Rq!_OT_ENGINE_STATES => doc[d] # Rq!NoRow /\ date = doc[d].day,
         to \in Rq!_OT_ENGINE_STATES /\ d \in OT => date \in queue'
  PROVE  Accounts'
  <1>1. /\ saving'[d].state = to /\ saving'[d].day = date
        /\ \A e \in Docs \ {d} : saving'[e] = saving[e]
        /\ doc' = doc /\ counted' = counted
    BY SaveIs
  <1>2. \A e \in Docs : Lawful(e)'
    BY <1>1 DEF Accounts, Lawful
  <1>3. \A e \in OT : Due(e)'
    <2> SUFFICES ASSUME NEW e \in OT, saving'[e].state \in Rq!_OT_ENGINE_STATES,
                        doc[e].state \notin Rq!_OT_ENGINE_STATES
                 PROVE  saving'[e].day \in queue'
      BY <1>1 DEF Due
    <2>1. CASE e = d
      BY <1>1, <2>1
    <2>2. CASE e # d
      <3>1. saving'[e] = saving[e]
        BY <1>1, <2>2 DEF Lists
      <3>2. saving[e].day \in queue
        BY <3>1 DEF Accounts, Counts, Due
      <3> QED BY <3>1, <3>2
    <2> QED BY <2>1, <2>2
  <1>4. \A x \in Days : Rq!get_approved_ot_requests(x)' = Rq!get_approved_ot_requests(x)
    BY <1>1 DEF Rq!get_approved_ot_requests
  <1>5. \A x \in Days : x \notin queue' => counted'[x] = Rq!get_approved_ot_requests(x)'
    BY <1>1, <1>4 DEF Accounts, Counts
  <1> QED BY <1>2, <1>3, <1>5 DEF Accounts, Counts

LEMMA CountsStep ==
  ASSUME Lists, ~Eager, RequestTypes, Accounts, [Rq!Next]_Rq!vars
  PROVE  Accounts'
  <1>1. ASSUME NEW d \in Docs, NEW to \in Rq!Sent, NEW date \in Days, Sends(d, to, date)
        PROVE  Accounts'
    <2>1. to \in Rq!States /\ to \notin Rq!_OT_ENGINE_STATES /\ doc[d].state \notin Rq!_OT_ENGINE_STATES
      BY <1>1, EngineStates DEF Rq!Sent, Rq!States, Rq!Pending, Sends
    <2>2. Rq!Save(d, to, date) /\ queue' = queue
      BY <1>1 DEF Sends
    <2> QED BY <2>1, <2>2, SavesCount
  <1>2. ASSUME NEW d \in Docs, NEW to \in {"Rejected", "Draft"}, Drops(d, to)
        PROVE  Accounts'
    <2>1. to \in Rq!States /\ to \notin Rq!_OT_ENGINE_STATES /\ doc[d].state \notin Rq!_OT_ENGINE_STATES
          /\ doc[d].day \in Days
      BY <1>2, EngineStates, Exist DEF Rq!States, Rq!Pending, Drops
    <2>2. Rq!Save(d, to, doc[d].day) /\ queue' = queue
      BY <1>2 DEF Drops
    <2> QED BY <2>1, <2>2, SavesCount
  <1>3. ASSUME NEW d \in Docs, Approves(d)
        PROVE  Accounts'
    <2>1. doc[d].state \in Rq!Pending /\ doc[d].state \notin Rq!_OT_ENGINE_STATES /\ doc[d].day \in Days
          /\ doc[d] # Rq!NoRow
      BY <1>3, EngineStates, Exist, RowFields DEF Approves, Rq!Pending
    <2>2. PICK to \in Rq!States : to = Rq!next_state_after(doc[d].state)
      BY <2>1, StepTo
    <2>3. Rq!Save(d, to, doc[d].day) /\ Rq!_after_ot_state_change(d, to)
      BY <1>3, <2>2 DEF Approves
    <2>4. /\ queue \subseteq queue' /\ queue' \subseteq queue \cup {doc[d].day}
          /\ to \in Rq!_OT_ENGINE_STATES /\ d \in OT => doc[d].day \in queue'
      BY <2>3 DEF Rq!_after_ot_state_change
    <2> QED BY <2>1, <2>2, <2>3, <2>4, SavesCount
  <1>4. ASSUME NEW d \in Docs, Rq!Confirm(d)
        PROVE  Accounts'
    <2>1. /\ doc[d].state = "Approved" /\ doc[d].state \in Rq!_OT_ENGINE_STATES /\ doc[d].day \in Days
          /\ doc[d] # Rq!NoRow /\ "Confirmed" \in Rq!States
      BY <1>4, Exist, RowFields DEF Rq!Confirm, Rq!States, Rq!Pending, Rq!_OT_ENGINE_STATES
    <2>2. /\ saving'[d].state = "Confirmed" /\ saving'[d].day = doc[d].day
          /\ \A e \in Docs \ {d} : saving'[e] = saving[e]
          /\ doc' = doc /\ counted' = counted /\ queue' = queue
      BY <1>4, <2>1, SaveIs DEF Rq!Confirm
    <2>3. \A e \in Docs : Lawful(e)'
      BY <2>1, <2>2 DEF Accounts, Lawful, Rq!_OT_ENGINE_STATES
    <2>4. \A e \in OT : Due(e)'
      BY <2>1, <2>2 DEF Accounts, Counts, Lists, Due
    <2>5. \A x \in Days : Rq!get_approved_ot_requests(x)' = Rq!get_approved_ot_requests(x)
      BY <2>2 DEF Rq!get_approved_ot_requests
    <2> QED BY <2>2, <2>3, <2>4, <2>5 DEF Accounts, Counts
  <1>5. ASSUME NEW d \in Docs, Rq!Commit(d)
        PROVE  Accounts'
    <2>1. /\ saving[d] # Rq!NoRow /\ doc'[d] = saving[d] /\ saving'[d] = Rq!NoRow
          /\ \A e \in Docs \ {d} : doc'[e] = doc[e] /\ saving'[e] = saving[e]
          /\ counted' = counted /\ queue' = queue
      BY <1>5 DEF Rq!Commit, RequestTypes, Rq!TypeOK
    <2>2. Lawful(d)
      BY DEF Accounts
    <2>3. \A e \in Docs : Lawful(e)'
      BY <2>1 DEF Accounts, Lawful
    <2>4. \A e \in OT : Due(e)'
      BY <2>1, EngineStates DEF Accounts, Counts, Lists, Due
    <2>5. ASSUME NEW x \in Days, x \notin queue
          PROVE  Rq!get_approved_ot_requests(x)' = Rq!get_approved_ot_requests(x)
      <3>1. d \in OT => (   (doc'[d].day = x /\ doc'[d].state \in Rq!_OT_ENGINE_STATES)
                         <=> (doc[d].day = x /\ doc[d].state \in Rq!_OT_ENGINE_STATES))
        <4>1. CASE doc[d].state \in Rq!_OT_ENGINE_STATES
          BY <2>1, <2>2, <4>1 DEF Lawful
        <4>2. CASE doc[d].state \notin Rq!_OT_ENGINE_STATES
          <5>1. d \in OT /\ saving[d].state \in Rq!_OT_ENGINE_STATES => saving[d].day \in queue
            BY <4>2 DEF Accounts, Counts, Due
          <5> QED BY <2>1, <2>5, <4>2, <5>1
        <4> QED BY <4>1, <4>2
      <3>2. \A e \in OT \ {d} : doc'[e] = doc[e]
        BY <2>1 DEF Lists
      <3> QED BY <3>1, <3>2 DEF Rq!get_approved_ot_requests
    <2>6. \A x \in Days : x \notin queue' => counted'[x] = Rq!get_approved_ot_requests(x)'
      BY <2>1, <2>5 DEF Accounts, Counts
    <2> QED BY <2>3, <2>4, <2>6 DEF Accounts, Counts
  <1>6. ASSUME NEW d \in Docs, Rq!Abort(d)
        PROVE  Accounts'
    <2>1. /\ saving'[d] = Rq!NoRow /\ \A e \in Docs \ {d} : saving'[e] = saving[e]
          /\ doc' = doc /\ counted' = counted /\ queue' = queue
      BY <1>6 DEF Rq!Abort, RequestTypes, Rq!TypeOK
    <2>2. \A e \in Docs : Lawful(e)'
      BY <2>1 DEF Accounts, Lawful
    <2>3. \A e \in OT : Due(e)'
      BY <2>1, EngineStates DEF Accounts, Counts, Lists, Due
    <2>4. \A x \in Days : Rq!get_approved_ot_requests(x)' = Rq!get_approved_ot_requests(x)
      BY <2>1 DEF Rq!get_approved_ot_requests
    <2> QED BY <2>1, <2>2, <2>3, <2>4 DEF Accounts, Counts
  <1>7. ASSUME NEW date \in Days, Rq!RunJob(date)
        PROVE  Accounts'
    <2>1. /\ Rq!Idle /\ queue' = queue \ {date} /\ doc' = doc /\ saving' = saving
          /\ counted' = [counted EXCEPT ![date] = Rq!get_approved_ot_requests(date)]
      BY <1>7 DEF Rq!RunJob
    <2>2. counted'[date] = Rq!get_approved_ot_requests(date) /\ \A x \in Days \ {date} : counted'[x] = counted[x]
      BY <2>1 DEF RequestTypes, Rq!TypeOK
    <2>3. \A x \in Days : Rq!get_approved_ot_requests(x)' = Rq!get_approved_ot_requests(x)
      BY <2>1 DEF Rq!get_approved_ot_requests
    <2>4. \A x \in Days : x \notin queue' => counted'[x] = Rq!get_approved_ot_requests(x)'
      BY <2>1, <2>2, <2>3 DEF Accounts, Counts
    <2>5. \A e \in OT : Due(e)'
      BY <2>1, EngineStates DEF Rq!Idle, Lists, Due
    <2>6. \A e \in Docs : Lawful(e)'
      BY <2>1 DEF Accounts, Lawful
    <2> QED BY <2>4, <2>5, <2>6 DEF Accounts, Counts
  <1>8. ASSUME UNCHANGED <<doc, saving, counted, queue>> PROVE Accounts'
    <2>1. \A x \in Days : Rq!get_approved_ot_requests(x)' = Rq!get_approved_ot_requests(x)
      BY <1>8 DEF Rq!get_approved_ot_requests
    <2> QED BY <1>8, <2>1 DEF Accounts, Counts, Lawful, Due
  <1>9. ASSUME NEW m \in Matrices, Rq!save_approval_matrix(m) PROVE Accounts'
    BY <1>8, <1>9 DEF Rq!save_approval_matrix
  <1>10. Beside => Accounts'
    BY <1>8 DEF Beside
  <1>11. UNCHANGED Rq!vars => Accounts'
    BY <1>8 DEF Rq!vars
  <1> QED BY <1>1, <1>2, <1>3, <1>4, <1>5, <1>6, <1>7, <1>9, <1>10, <1>11, RequestSteps

\* When nothing is on its way a session counts the approved overtime of its day, all of it, if no
\* worker takes a job before the approval that queued it has committed.
THEOREM AllOvertimeCounted ==
  ASSUME Lists, ~Eager
  PROVE  Rq!Spec => []Rq!OvertimeCounted
  <1>1. Rq!Init => Accounts
    <2> SUFFICES ASSUME Rq!Init PROVE Accounts
      OBVIOUS
    <2>1. \A d \in Docs : doc[d] = Rq!NoRow /\ saving[d] = Rq!NoRow
      BY DEF Rq!Init
    <2>2. \A x \in Days : counted[x] = {} /\ Rq!get_approved_ot_requests(x) = {}
      BY <2>1, EngineStates DEF Rq!Init, Rq!get_approved_ot_requests, Lists
    <2>3. \A d \in Docs : Lawful(d)
      BY <2>1 DEF Lawful
    <2>4. \A d \in OT : Due(d)
      BY <2>1, EngineStates DEF Lists, Due
    <2> QED BY <2>2, <2>3, <2>4 DEF Accounts, Counts
  <1>2. RequestTypes /\ Accounts /\ [Rq!Next]_Rq!vars => Accounts'
    BY CountsStep
  <1>3. Accounts => Rq!OvertimeCounted
    BY DEF Accounts, Counts, Rq!OvertimeCounted
  <1>4. Rq!Spec => []RequestTypes
    BY TypedHolds
  <1> QED BY <1>1, <1>2, <1>3, <1>4, PTL DEF Rq!Spec

-----------------------------------------------------------------------------
(* Attendance devices. *)

DeviceNames ==
  /\ IsFiniteSet(Logs) /\ Dv!Nobody \notin Employees /\ Overlaps \subseteq BOOLEAN /\ LastDay \in Nat
Somebody == Employees \cup {Dv!Nobody}
LogRows  == [status : {"Pending", "Processed", "Skipped", "Duplicate", "Error"}, emp : Somebody,
             badge : Badges \cup {"None"}, device : Devices \cup {"None"}, at : Times]
Checkins == [emp : Employees, at : Times]
Raws     == [Logs -> {Dv!NoRow} \cup LogRows]
Checks   == [Logs -> {Dv!NoRow} \cup Checkins]
Mappings == [Devices \X Badges -> Somebody]
DeviceHeld     == [badge : Badges, device : Devices, at : Times, who : Employees]
Snapshots == [kind : {"Running"}, raw : Raws, checkin : Checks, portal : SUBSET (Employees \X Times),
              mapping : Mappings, lockedTo : 0..LastDay]
\* A row is pending for an employee.
PendingKnown(t) == \A n \in Logs : t[n].status = "Pending" => t[n].emp \in Employees
DeviceTypes ==
  /\ raw \in Raws /\ PendingKnown(raw) /\ checkin \in Checks /\ portal \in SUBSET (Employees \X Times)
  /\ mapping \in Mappings /\ holder \in [Badges -> Employees] /\ punched \in SUBSET DeviceHeld
  /\ lockedTo \in 0..LastDay /\ overlap \in BOOLEAN
  /\ req \in [Requests -> {Dv!Idle} \cup Snapshots]
  /\ \A r \in Requests : req[r] # Dv!Idle => PendingKnown(req[r].raw)

\* A row keeps its employee and its time.
DeviceOlder(a, b) ==
  \A n \in Logs : a[n] # Dv!NoRow => b[n] # Dv!NoRow /\ b[n].emp = a[n].emp /\ b[n].at = a[n].at
\* Check-ins of one employee and time: one at most, and none where the portal has one.
DeviceApart(c, p) ==
  /\ \A n, m \in Logs : c[n] # Dv!NoRow /\ c[n] = c[m] => n = m
  /\ \A n \in Logs : c[n] # Dv!NoRow => <<c[n].emp, c[n].at>> \notin p
IsKept(x, t) == \E n \in Logs : t[n] # Dv!NoRow /\ t[n].emp = x[1] /\ t[n].at = x[2]

DeviceBase == \A r \in Requests : req[r] # Dv!Idle => DeviceOlder(req[r].raw, raw)
DeviceCurrent ==
  ~overlap => /\ DeviceApart(checkin, portal)
              /\ \A r \in Requests : req[r] # Dv!Idle =>
                   /\ req[r].checkin = checkin /\ req[r].portal = portal
                   /\ \A q \in Requests : q # r => req[q] = Dv!Idle
DeviceInv == DeviceTypes /\ DeviceBase /\ DeviceCurrent /\ Dv!AnsweredIsKept

-----------------------------------------------------------------------------
LEMMA DeviceRowsDiffer ==
  /\ \A x \in LogRows : x # Dv!NoRow
  /\ \A x \in Checkins : x # Dv!NoRow
  /\ \A x \in Snapshots : x # Dv!Idle
  <1>1. ASSUME NEW x \in LogRows PROVE x # Dv!NoRow
    BY DEF LogRows, Dv!NoRow
  <1>2. ASSUME NEW x \in Checkins PROVE x # Dv!NoRow
    BY DEF Checkins, Dv!NoRow
  <1>3. ASSUME NEW x \in Snapshots PROVE x # Dv!Idle
    BY DEF Snapshots, Dv!Idle
  <1> QED BY <1>1, <1>2, <1>3

LEMMA DeviceOlderThan ==
  ASSUME NEW a, NEW b, NEW c, DeviceOlder(a, b), DeviceOlder(b, c)
  PROVE  DeviceOlder(a, c)
  BY DEF DeviceOlder

\* What a request that ends has done to the rows.
DeviceWritten(s) ==
  /\ raw' \in Raws /\ PendingKnown(raw') /\ checkin' \in Checks /\ DeviceOlder(raw, raw')
  /\ s.checkin = checkin /\ s.portal = portal /\ DeviceApart(checkin, portal) => DeviceApart(checkin', portal)
  /\ \A x \in known' : x \in known \/ IsKept(x, raw')

LEMMA ProcessIs ==
  ASSUME NEW s, NEW row
  PROVE  /\ Dv!_process_raw_log(s, row).status \in {"Processed", "Skipped", "Duplicate"}
         /\ Dv!_process_raw_log(s, row).made \in BOOLEAN
         /\ Dv!_process_raw_log(s, row).made => ~Dv!ExistingCheckin(s, row.emp, row.at)
  BY DEF Dv!_process_raw_log

\* One more check-in, where there is none of its employee and time.
LEMMA ApartWith ==
  ASSUME NEW c \in Checks, NEW p, DeviceApart(c, p), NEW n \in Logs, NEW e \in Employees, NEW t \in Times,
         <<e, t>> \notin p, \A m \in Logs : c[m] # [emp |-> e, at |-> t]
  PROVE  DeviceApart([c EXCEPT ![n] = [emp |-> e, at |-> t]], p)
  <1> DEFINE d == [c EXCEPT ![n] = [emp |-> e, at |-> t]]
  <1>1. PICK x : x = [emp |-> e, at |-> t]
    OBVIOUS
  <1>2. x \in Checkins /\ x # Dv!NoRow /\ x.emp = e /\ x.at = t
    BY <1>1, DeviceRowsDiffer DEF Checkins
  <1>3. \A m \in Logs : d[m] = IF m = n THEN x ELSE c[m]
    BY <1>1 DEF Checks
  <1>4. \A m \in Logs : c[m] # x
    BY <1>1
  <1> HIDE DEF d
  <1>5. \A k, m \in Logs : d[k] # Dv!NoRow /\ d[k] = d[m] => k = m
    BY <1>3, <1>4 DEF DeviceApart
  <1>6. \A k \in Logs : d[k] # Dv!NoRow => <<d[k].emp, d[k].at>> \notin p
    BY <1>2, <1>3 DEF DeviceApart
  <1> QED BY <1>5, <1>6 DEF DeviceApart, d

LEMMA CreateIs ==
  ASSUME DeviceNames, DeviceTypes, NEW r \in Requests, req[r] # Dv!Idle, DeviceOlder(req[r].raw, raw),
         NEW e \in Somebody, NEW badge \in Badges \cup {"None"}, NEW device \in Devices \cup {"None"}, NEW at \in Times,
         Dv!_create_raw_log(r, e, badge, device, at)
  PROVE  DeviceWritten(req[r])
  <1> DEFINE row == [status |-> "Pending", emp |-> e, badge |-> badge, device |-> device, at |-> at]
  <1>s. PICK s : s = req[r]
    OBVIOUS
  <1>0. s \in Snapshots
    BY <1>s DEF DeviceTypes
  <1>1. CASE Dv!DupLogs(s, e, device, at) # {}
    <2>1. UNCHANGED <<raw, checkin>> /\ known' = known \cup ({<<e, at>>} \ {<<Dv!Nobody, at>>})
      BY <1>s, <1>1 DEF Dv!_create_raw_log
    <2>2. ASSUME NEW x \in known', x \notin known PROVE IsKept(x, raw')
      <3>1. x = <<e, at>> /\ e # Dv!Nobody
        BY <2>1, <2>2
      <3>2. PICK n \in Logs : s.raw[n] # Dv!NoRow /\ s.raw[n].at = at /\ s.raw[n].emp = e
        BY <1>1, <3>1 DEF Dv!DupLogs
      <3>3. raw[n] # Dv!NoRow /\ raw[n].emp = e /\ raw[n].at = at
        BY <1>s, <3>2 DEF DeviceOlder
      <3> QED BY <2>1, <3>1, <3>3 DEF IsKept
    <2>3. DeviceOlder(raw, raw')
      BY <2>1 DEF DeviceOlder
    <2> QED BY <2>1, <2>2, <2>3 DEF DeviceWritten, DeviceTypes
  <1>2. CASE Dv!DupLogs(s, e, device, at) = {}
    <2>1. PICK n \in Logs :
            /\ raw[n] = Dv!NoRow
            /\ IF e = Dv!Nobody
               THEN /\ raw' = [raw EXCEPT ![n] = [row EXCEPT !.status = "Skipped"]]
                    /\ UNCHANGED <<checkin, known>>
               ELSE \/ /\ raw' = [raw EXCEPT ![n] = [row EXCEPT !.status = Dv!_process_raw_log(s, row).status]]
                       /\ checkin' = IF Dv!_process_raw_log(s, row).made
                                     THEN [checkin EXCEPT ![n] = [emp |-> e, at |-> at]] ELSE checkin
                       /\ known' = known \cup {<<e, at>>}
                    \/ /\ Dv!_process_raw_log(s, row).made
                       /\ raw' = [raw EXCEPT ![n] = row] /\ UNCHANGED <<checkin, known>>
      BY <1>s, <1>2 DEF Dv!_create_raw_log
    <2>2. row \in LogRows /\ row.emp = e /\ row.at = at
      BY DEF LogRows
    <2>3. PICK status \in {"Pending", "Processed", "Skipped", "Duplicate", "Error"} :
            /\ raw' = [raw EXCEPT ![n] = [row EXCEPT !.status = status]]
            /\ e = Dv!Nobody => status = "Skipped"
      <3>1. CASE e = Dv!Nobody
        BY <2>1, <3>1
      <3>2. CASE raw' = [raw EXCEPT ![n] = [row EXCEPT !.status = Dv!_process_raw_log(s, row).status]] /\ e # Dv!Nobody
        <4>1. PICK status : status = Dv!_process_raw_log(s, row).status
          OBVIOUS
        <4>2. status \in {"Processed", "Skipped", "Duplicate"}
          BY <4>1, ProcessIs
        <4> QED BY <3>2, <4>1, <4>2
      <3>3. CASE raw' = [raw EXCEPT ![n] = row] /\ e # Dv!Nobody
        <4>1. row = [row EXCEPT !.status = "Pending"]
          OBVIOUS
        <4> QED BY <3>3, <4>1
      <3> QED BY <2>1, <3>1, <3>2, <3>3
    <2>4. PICK new : new = [row EXCEPT !.status = status]
      OBVIOUS
    <2>5. new \in LogRows /\ new.emp = e /\ new.at = at /\ (new.status = "Pending" => e \in Employees)
      BY <2>2, <2>3, <2>4 DEF LogRows, Somebody
    <2>6. raw' = [raw EXCEPT ![n] = new]
      BY <2>3, <2>4
    <2> HIDE DEF row
    <2>7. raw' \in Raws /\ \A m \in Logs : raw'[m] = IF m = n THEN new ELSE raw[m]
      BY <2>5, <2>6 DEF DeviceTypes, Raws
    <2>8. PendingKnown(raw')
      BY <2>5, <2>7 DEF DeviceTypes, PendingKnown
    <2>9. DeviceOlder(raw, raw')
      BY <2>1, <2>7 DEF DeviceOlder
    <2>10. IsKept(<<e, at>>, raw')
      BY <2>5, <2>7, DeviceRowsDiffer DEF IsKept
    <2>11. \A x \in known' : x \in known \/ IsKept(x, raw')
      BY <2>1, <2>10
    <2>12. CASE checkin' = checkin
      BY <2>7, <2>8, <2>9, <2>11, <2>12 DEF DeviceWritten, DeviceTypes
    <2>13. CASE /\ e # Dv!Nobody /\ Dv!_process_raw_log(s, row).made
                /\ checkin' = [checkin EXCEPT ![n] = [emp |-> e, at |-> at]]
      <3>1. e \in Employees /\ ~Dv!ExistingCheckin(s, e, at)
        BY <2>2, <2>13, ProcessIs DEF Somebody
      <3>2. [emp |-> e, at |-> at] \in Checkins
        BY <3>1 DEF Checkins
      <3>3. checkin' \in Checks
        BY <2>13, <3>2 DEF DeviceTypes, Checks
      <3>4. ASSUME s.checkin = checkin, s.portal = portal, DeviceApart(checkin, portal) PROVE DeviceApart(checkin', portal)
        <4>1. <<e, at>> \notin portal /\ \A m \in Logs : checkin[m] # [emp |-> e, at |-> at]
          BY <3>1, <3>4 DEF Dv!ExistingCheckin
        <4>2. checkin \in Checks /\ DeviceApart(checkin, portal)
          BY <3>4 DEF DeviceTypes
        <4>3. DeviceApart([checkin EXCEPT ![n] = [emp |-> e, at |-> at]], portal)
          BY <3>1, <4>1, <4>2, ApartWith
        <4> QED BY <2>13, <4>3
      <3> QED BY <1>s, <2>7, <2>8, <2>9, <2>11, <3>3, <3>4 DEF DeviceWritten
    <2> QED BY <2>1, <2>12, <2>13
  <1> QED BY <1>1, <1>2, <1>s

-----------------------------------------------------------------------------
(* The rows of a sync, one after the other. *)

\* What there may be on the way of a sync of the snapshot s, over some rows.
OnTheWay(s, rows) ==
  {d \in [raw : Raws, checkin : Checks] :
     /\ PendingKnown(d.raw) /\ DeviceOlder(s.raw, d.raw)
     /\ \A n \in Logs : d.checkin[n] = Dv!NoRow => s.checkin[n] = Dv!NoRow
     /\ \A n \in Logs \ rows : d.checkin[n] = s.checkin[n]
     /\ DeviceApart(s.checkin, s.portal) => DeviceApart(d.checkin, s.portal)}

LEMMA RowIs ==
  ASSUME DeviceNames, NEW s \in Snapshots, NEW rows \in SUBSET Logs,
         \A n \in rows : s.raw[n] # Dv!NoRow /\ s.raw[n].emp \in Employees,
         NEW failing, NEW n \in rows, NEW done \in OnTheWay(s, rows)
  PROVE  Dv!SyncRow(s, failing, n, done) \in OnTheWay(s, rows)
  <1> DEFINE row == done.raw[n]
             out == Dv!_process_raw_log([s EXCEPT !.checkin = done.checkin], row)
  <1>1. done.raw \in Raws /\ done.checkin \in Checks /\ PendingKnown(done.raw) /\ DeviceOlder(s.raw, done.raw)
        /\ done \in [raw : Raws, checkin : Checks]
        /\ (\A m \in Logs : done.checkin[m] = Dv!NoRow => s.checkin[m] = Dv!NoRow)
        /\ (\A m \in Logs \ rows : done.checkin[m] = s.checkin[m])
        /\ (DeviceApart(s.checkin, s.portal) => DeviceApart(done.checkin, s.portal))
    BY DEF OnTheWay
  <1>2. row \in LogRows /\ row # Dv!NoRow /\ row.emp \in Employees /\ row.at \in Times
    <2>1. row # Dv!NoRow /\ row.emp = s.raw[n].emp
      BY <1>1 DEF DeviceOlder
    <2>2. row \in LogRows
      BY <1>1, <2>1 DEF Raws
    <2> QED BY <2>1, <2>2 DEF LogRows
  <1>3. /\ out.status \in {"Processed", "Skipped", "Duplicate"} /\ out.made \in BOOLEAN
        /\ out.made => ~Dv!ExistingCheckin([s EXCEPT !.checkin = done.checkin], row.emp, row.at)
    BY ProcessIs
  <1>4. out.made => /\ <<row.emp, row.at>> \notin s.portal
                    /\ \A m \in Logs : done.checkin[m] # [emp |-> row.emp, at |-> row.at]
    <2>1. [s EXCEPT !.checkin = done.checkin].checkin = done.checkin /\ [s EXCEPT !.checkin = done.checkin].portal = s.portal
      BY DEF Snapshots
    <2> HIDE DEF out
    <2> QED BY <1>3, <2>1 DEF Dv!ExistingCheckin
  <1>x. Dv!SyncRow(s, failing, n, done) =
          IF n \in failing /\ out.made THEN [done EXCEPT !.raw[n].status = "Error"]
          ELSE [raw     |-> [done.raw EXCEPT ![n].status = out.status],
                checkin |-> IF out.made THEN [done.checkin EXCEPT ![n] = [emp |-> row.emp, at |-> row.at]]
                            ELSE done.checkin]
    BY DEF Dv!SyncRow
  <1>y. PICK made, status : made = out.made /\ status = out.status
    OBVIOUS
  <1> HIDE DEF row, out
  <1>5. ASSUME NEW t \in {"Processed", "Skipped", "Duplicate", "Error"}
        PROVE  /\ [done.raw EXCEPT ![n] = [row EXCEPT !.status = t]] \in Raws
               /\ PendingKnown([done.raw EXCEPT ![n] = [row EXCEPT !.status = t]])
               /\ DeviceOlder(s.raw, [done.raw EXCEPT ![n] = [row EXCEPT !.status = t]])
    <2>1. PICK new : new = [row EXCEPT !.status = t]
      OBVIOUS
    <2>2. new \in LogRows /\ new.emp = row.emp /\ new.at = row.at /\ new.status # "Pending"
      BY <1>2, <2>1 DEF LogRows
    <2>3. PICK tab : tab = [done.raw EXCEPT ![n] = new]
      OBVIOUS
    <2>4. tab \in Raws /\ \A m \in Logs : tab[m] = IF m = n THEN new ELSE done.raw[m]
      BY <1>1, <2>2, <2>3 DEF Raws
    <2>5. PendingKnown(tab)
      BY <1>1, <2>2, <2>4 DEF PendingKnown
    <2>6. DeviceOlder(s.raw, tab)
      BY <1>1, <2>2, <2>4, DeviceRowsDiffer DEF DeviceOlder, row
    <2> QED BY <2>1, <2>3, <2>4, <2>5, <2>6
  <1>6. CASE n \in failing /\ made
    <2>1. [done EXCEPT !.raw[n].status = "Error"] =
            [raw |-> [done.raw EXCEPT ![n] = [row EXCEPT !.status = "Error"]], checkin |-> done.checkin]
      BY <1>1 DEF row
    <2>2. PICK tab : tab = [done.raw EXCEPT ![n] = [row EXCEPT !.status = "Error"]]
      OBVIOUS
    <2>3. tab \in Raws /\ PendingKnown(tab) /\ DeviceOlder(s.raw, tab)
      BY <1>5, <2>2
    <2>4. [raw |-> tab, checkin |-> done.checkin] \in OnTheWay(s, rows)
      BY <1>1, <2>3 DEF OnTheWay
    <2> QED BY <1>6, <1>x, <1>y, <2>1, <2>2, <2>4
  <1>7. CASE ~(n \in failing /\ made)
    <2>1. [done.raw EXCEPT ![n].status = status] = [done.raw EXCEPT ![n] = [row EXCEPT !.status = status]]
      BY <1>1 DEF row
    <2>2. PICK tab : tab = [done.raw EXCEPT ![n] = [row EXCEPT !.status = status]]
      OBVIOUS
    <2>3. tab \in Raws /\ PendingKnown(tab) /\ DeviceOlder(s.raw, tab)
      BY <1>3, <1>5, <1>y, <2>2
    <2>4. PICK c : c = IF made THEN [done.checkin EXCEPT ![n] = [emp |-> row.emp, at |-> row.at]] ELSE done.checkin
      OBVIOUS
    <2>5. c \in Checks /\ \A m \in Logs : /\ c[m] = Dv!NoRow => done.checkin[m] = Dv!NoRow
                                          /\ m # n => c[m] = done.checkin[m]
      <3>1. PICK x : x = [emp |-> row.emp, at |-> row.at]
        OBVIOUS
      <3>2. x \in Checkins /\ x # Dv!NoRow
        BY <1>2, <3>1, DeviceRowsDiffer DEF Checkins
      <3>3. c = IF made THEN [done.checkin EXCEPT ![n] = x] ELSE done.checkin
        BY <2>4, <3>1
      <3> QED BY <1>1, <3>2, <3>3 DEF Checks
    <2>6. ASSUME DeviceApart(s.checkin, s.portal) PROVE DeviceApart(c, s.portal)
      <3>1. CASE made
        <4>1. PICK e, t, h, p : e = row.emp /\ t = row.at /\ h = done.checkin /\ p = s.portal
          OBVIOUS
        <4>2. e \in Employees /\ t \in Times /\ h \in Checks /\ DeviceApart(h, p) /\ <<e, t>> \notin p
              /\ \A m \in Logs : h[m] # [emp |-> e, at |-> t]
          BY <1>1, <1>2, <1>4, <1>y, <2>6, <3>1, <4>1
        <4>3. DeviceApart([h EXCEPT ![n] = [emp |-> e, at |-> t]], p)
          BY <4>2, ApartWith
        <4> QED BY <2>4, <3>1, <4>1, <4>3
      <3>2. CASE ~made
        BY <1>1, <2>4, <2>6, <3>2
      <3> QED BY <3>1, <3>2
    <2>7. [raw |-> tab, checkin |-> c] \in OnTheWay(s, rows)
      BY <1>1, <2>3, <2>5, <2>6 DEF OnTheWay
    <2> QED BY <1>7, <1>x, <1>y, <2>1, <2>2, <2>4, <2>7
  <1> QED BY <1>6, <1>7

LEMMA SweepIs ==
  ASSUME DeviceNames, NEW s \in Snapshots, PendingKnown(s.raw), NEW rows \in SUBSET Logs,
         \A n \in rows : s.raw[n] # Dv!NoRow /\ s.raw[n].emp \in Employees, NEW failing
  PROVE  Dv!_process_pending_logs(s, rows, failing) \in OnTheWay(s, rows)
  <1> DEFINE D == OnTheWay(s, rows)
             base == [raw |-> s.raw, checkin |-> s.checkin]
             pick == PickOf(rows)
             F == [p \in rows \X D |-> Dv!SyncRow(s, failing, p[1], p[2])]
             it == CHOOSE f : f = [t \in SUBSET rows |-> IF t = {} THEN base
                                     ELSE LET x == CHOOSE x \in t : TRUE IN Dv!SyncRow(s, failing, x, f[t \ {x}])]
  <1>1. Dv!_process_pending_logs(s, rows, failing) = it[rows]
    BY DEF Dv!_process_pending_logs, Dv!FoldSet, Dv!MapThenFoldSet
  <1>2. IsFiniteSet(rows)
    BY FS_Subset DEF DeviceNames
  <1>3. base \in D
    <2>1. s.raw \in Raws /\ s.checkin \in Checks
      BY DEF Snapshots
    <2>2. DeviceOlder(s.raw, s.raw)
      BY DEF DeviceOlder
    <2> QED BY <2>1, <2>2 DEF OnTheWay
  <1>4. \A n \in rows, done \in D : Dv!SyncRow(s, failing, n, done) \in D
    BY RowIs
  <1> HIDE DEF D
  <1>5. F \in [rows \X D -> D] /\ \A n \in rows, done \in D : F[n, done] = Dv!SyncRow(s, failing, n, done)
    BY <1>4
  <1>6. \A t \in SUBSET rows : t # {} => pick[t] \in t /\ pick[t] \in rows /\ pick[t] = CHOOSE x \in t : TRUE
    BY Picks
  <1> HIDE DEF F, pick, base
  <1>7. PICK f \in [SUBSET rows -> D] : Recurs(f, rows, base, F, pick)
    BY <1>2, <1>3, <1>5, <1>6, FoldExists
  <1>8. f = [t \in SUBSET rows |-> IF t = {} THEN base
               ELSE LET x == CHOOSE x \in t : TRUE IN Dv!SyncRow(s, failing, x, f[t \ {x}])]
    <2>1. ASSUME NEW t \in SUBSET rows, t # {}
          PROVE  F[pick[t], f[t \ {pick[t]}]] = LET x == CHOOSE x \in t : TRUE IN Dv!SyncRow(s, failing, x, f[t \ {x}])
      <3>1. pick[t] \in rows /\ pick[t] = (CHOOSE x \in t : TRUE) /\ t \ {pick[t]} \in SUBSET rows
        BY <1>6, <2>1
      <3>2. f[t \ {pick[t]}] \in D
        BY <3>1
      <3> QED BY <1>5, <3>1, <3>2
    <2>2. \A t \in SUBSET rows : (IF t = {} THEN base ELSE F[pick[t], f[t \ {pick[t]}]])
                             = (IF t = {} THEN base ELSE LET x == CHOOSE x \in t : TRUE IN Dv!SyncRow(s, failing, x, f[t \ {x}]))
      BY <2>1
    <2> QED BY <1>7, <2>2 DEF Recurs
  <1>9. it = [t \in SUBSET rows |-> IF t = {} THEN base
                ELSE LET x == CHOOSE x \in t : TRUE IN Dv!SyncRow(s, failing, x, it[t \ {x}])]
    BY <1>8, ZenonT(30)
  <1> HIDE DEF it
  <1>10. StepAlike(rows, it, f)
    <2>1. it[{}] = f[{}]
      BY <1>8, <1>9
    <2>2. ASSUME NEW t \in SUBSET rows, t # {} PROVE \E x \in t : it[t \ {x}] = f[t \ {x}] => it[t] = f[t]
      <3>1. PICK x \in t : x = CHOOSE y \in t : TRUE
        BY <2>2
      <3>2. it[t] = Dv!SyncRow(s, failing, x, it[t \ {x}])
        BY <1>9, <2>2, <3>1
      <3>3. f[t] = Dv!SyncRow(s, failing, x, f[t \ {x}])
        BY <1>8, <2>2, <3>1
      <3> QED BY <3>2, <3>3
    <2> QED BY <2>1, <2>2 DEF StepAlike
  <1>11. it[rows] = f[rows]
    BY <1>2, <1>10, FoldUnique
  <1> QED BY <1>1, <1>7, <1>11 DEF D

LEMMA SyncIs ==
  ASSUME DeviceNames, DeviceTypes, NEW r \in Requests, NEW device, Dv!sync_device(r, device), DeviceOlder(req[r].raw, raw)
  PROVE  DeviceWritten(req[r]) /\ Dv!Ends(r) /\ req[r] # Dv!Idle /\ punched' = punched
  <1> DEFINE s == req[r]
  <1>1. PICK pending : pending = {n \in Logs : s.raw[n].status = "Pending" /\ s.raw[n].device = device}
    OBVIOUS
  <1>2. /\ s # Dv!Idle /\ UNCHANGED <<punched, known>> /\ Dv!Ends(r)
        /\ \E rows \in Dv!kSubset(Dv!Swept(Dv!Cardinality(pending)), pending) : \E failing \in SUBSET rows :
             LET after == Dv!_process_pending_logs(s, rows, failing) IN
             /\ raw' = [n \in Logs |-> IF n \in rows THEN after.raw[n] ELSE raw[n]]
             /\ checkin' = [n \in Logs |-> IF n \in rows /\ after.checkin[n] # Dv!NoRow THEN after.checkin[n] ELSE checkin[n]]
    <2>1. pending = {n \in Logs : req[r].raw[n].status = "Pending" /\ req[r].raw[n].device = device}
      BY <1>1
    <2>2. /\ req[r] # Dv!Idle /\ UNCHANGED <<punched, known>> /\ Dv!Ends(r)
          /\ \E rows \in Dv!kSubset(Dv!Swept(Dv!Cardinality(pending)), pending) : \E failing \in SUBSET rows :
               LET after == Dv!_process_pending_logs(req[r], rows, failing) IN
               /\ raw' = [n \in Logs |-> IF n \in rows THEN after.raw[n] ELSE raw[n]]
               /\ checkin' = [n \in Logs |-> IF n \in rows /\ after.checkin[n] # Dv!NoRow THEN after.checkin[n] ELSE checkin[n]]
      BY <2>1, Zenon DEF Dv!sync_device
    <2> QED BY <2>2
  <1>3. PICK rows, failing, after :
          /\ rows \in SUBSET pending
          /\ after = Dv!_process_pending_logs(s, rows, failing)
          /\ raw' = [n \in Logs |-> IF n \in rows THEN after.raw[n] ELSE raw[n]]
          /\ checkin' = [n \in Logs |-> IF n \in rows /\ after.checkin[n] # Dv!NoRow THEN after.checkin[n] ELSE checkin[n]]
    BY <1>2 DEF Dv!kSubset
  <1>4. s \in Snapshots /\ PendingKnown(s.raw) /\ DeviceOlder(s.raw, raw)
    BY <1>2 DEF DeviceTypes
  <1>5. rows \in SUBSET Logs /\ \A n \in rows : s.raw[n] # Dv!NoRow /\ s.raw[n].emp \in Employees
    BY <1>1, <1>3, <1>4 DEF PendingKnown, Dv!NoRow
  <1>6. after \in OnTheWay(s, rows)
    BY <1>3, <1>4, <1>5, SweepIs
  <1>7. /\ after.raw \in Raws /\ after.checkin \in Checks /\ PendingKnown(after.raw) /\ DeviceOlder(s.raw, after.raw)
        /\ \A n \in Logs : after.checkin[n] = Dv!NoRow => s.checkin[n] = Dv!NoRow
        /\ \A n \in Logs \ rows : after.checkin[n] = s.checkin[n]
        /\ DeviceApart(s.checkin, s.portal) => DeviceApart(after.checkin, s.portal)
    BY <1>6 DEF OnTheWay
  <1>8. raw' \in Raws /\ PendingKnown(raw') /\ checkin' \in Checks
    BY <1>3, <1>7 DEF DeviceTypes, Raws, Checks, PendingKnown
  <1>9. DeviceOlder(raw, raw')
    <2>1. ASSUME NEW n \in Logs, raw[n] # Dv!NoRow PROVE raw'[n] # Dv!NoRow /\ raw'[n].emp = raw[n].emp /\ raw'[n].at = raw[n].at
      <3>1. CASE n \in rows
        <4>1. s.raw[n] # Dv!NoRow
          BY <1>5, <3>1
        <4>2. after.raw[n] # Dv!NoRow /\ after.raw[n].emp = s.raw[n].emp /\ after.raw[n].at = s.raw[n].at
          BY <1>7, <4>1 DEF DeviceOlder
        <4>3. raw[n].emp = s.raw[n].emp /\ raw[n].at = s.raw[n].at
          BY <1>4, <4>1 DEF DeviceOlder
        <4> QED BY <1>3, <3>1, <4>2, <4>3
      <3>2. CASE n \notin rows
        BY <1>3, <2>1, <3>2
      <3> QED BY <3>1, <3>2
    <2> QED BY <2>1 DEF DeviceOlder
  <1>10. ASSUME s.checkin = checkin, s.portal = portal, DeviceApart(checkin, portal) PROVE DeviceApart(checkin', portal)
    <2>1. \A n \in Logs : checkin'[n] = after.checkin[n]
      BY <1>3, <1>7, <1>10
    <2>2. checkin' = after.checkin
      BY <1>7, <1>8, <2>1 DEF Checks
    <2> QED BY <1>7, <1>10, <2>2
  <1>11. \A x \in known' : x \in known
    BY <1>2
  <1> QED BY <1>2, <1>8, <1>9, <1>10, <1>11 DEF DeviceWritten

-----------------------------------------------------------------------------
(* The steps. *)

LEMMA DeviceInvInit ==
  ASSUME DeviceNames, Dv!Init
  PROVE  DeviceInv
  <1>1. raw \in Raws /\ PendingKnown(raw) /\ checkin \in Checks
    BY DEF Dv!Init, Raws, Checks, PendingKnown, Dv!NoRow
  <1>2. portal \in SUBSET (Employees \X Times) /\ holder \in [Badges -> Employees] /\ punched \in SUBSET DeviceHeld
        /\ overlap \in BOOLEAN /\ lockedTo \in 0..LastDay
    BY DEF Dv!Init, DeviceNames
  <1>3. mapping \in Mappings
    BY DEF Dv!Init, Mappings, Somebody
  <1>4. req \in [Requests -> {Dv!Idle} \cup Snapshots] /\ \A r \in Requests : req[r] = Dv!Idle
    BY DEF Dv!Init
  <1>5. DeviceApart(checkin, portal)
    BY DEF Dv!Init, DeviceApart
  <1>6. Dv!AnsweredIsKept
    BY DEF Dv!Init, Dv!AnsweredIsKept
  <1> QED BY <1>1, <1>2, <1>3, <1>4, <1>5, <1>6 DEF DeviceInv, DeviceTypes, DeviceBase, DeviceCurrent

\* A request that ends with what it has written, or without.
LEMMA DeviceEndKeeps ==
  ASSUME DeviceInv, NEW r \in Requests, req[r] # Dv!Idle, Dv!Ends(r), DeviceWritten(req[r]), punched' \in SUBSET DeviceHeld
  PROVE  DeviceInv'
  <1>1. /\ req' = [req EXCEPT ![r] = Dv!Idle] /\ UNCHANGED <<portal, mapping, holder, lockedTo, overlap>>
    BY DEF Dv!Ends
  <1>2. req' \in [Requests -> {Dv!Idle} \cup Snapshots] /\ req'[r] = Dv!Idle /\ \A q \in Requests : q # r => req'[q] = req[q]
    BY <1>1 DEF DeviceInv, DeviceTypes
  <1>3. DeviceTypes'
    BY <1>1, <1>2 DEF DeviceInv, DeviceTypes, DeviceWritten
  <1>4. DeviceBase'
    <2> SUFFICES ASSUME NEW q \in Requests, req'[q] # Dv!Idle PROVE DeviceOlder(req'[q].raw, raw')
      BY DEF DeviceBase
    <2>1. DeviceOlder(req[q].raw, raw) /\ DeviceOlder(raw, raw') /\ req'[q] = req[q]
      BY <1>2 DEF DeviceInv, DeviceBase, DeviceWritten
    <2> QED BY <2>1, DeviceOlderThan
  <1>5. DeviceCurrent'
    <2>1. ~overlap => \A q \in Requests : req'[q] = Dv!Idle
      BY <1>2 DEF DeviceInv, DeviceCurrent
    <2>2. ~overlap => DeviceApart(checkin', portal)
      BY DEF DeviceInv, DeviceCurrent, DeviceWritten
    <2> QED BY <1>1, <2>1, <2>2 DEF DeviceCurrent
  <1>6. Dv!AnsweredIsKept'
    <2> SUFFICES ASSUME NEW x \in known' PROVE IsKept(x, raw')
      BY DEF Dv!AnsweredIsKept, IsKept
    <2>1. CASE x \in known
      <3>1. PICK n \in Logs : raw[n] # Dv!NoRow /\ raw[n].emp = x[1] /\ raw[n].at = x[2]
        BY <2>1 DEF DeviceInv, Dv!AnsweredIsKept
      <3> QED BY <3>1 DEF DeviceWritten, DeviceOlder, IsKept
    <2> QED BY <2>1 DEF DeviceWritten
  <1> QED BY <1>3, <1>4, <1>5, <1>6 DEF DeviceInv

LEMMA ResolvedIs ==
  ASSUME NEW s \in Snapshots, NEW b \in Badges, NEW d \in Devices, NEW e \in Dv!_resolve_employee(s, b, d)
  PROVE  e \in Somebody
  <1>1. \A x \in Devices : s.mapping[x, b] \in Somebody
    BY DEF Snapshots, Mappings
  <1> QED BY <1>1 DEF Dv!_resolve_employee, Somebody

\* What happens around the handling of rows.
LEMMA AroundKeeps ==
  ASSUME DeviceInv, UNCHANGED <<raw, checkin, known, overlap, req>>,
         portal' \in SUBSET (Employees \X Times), mapping' \in Mappings, holder' \in [Badges -> Employees],
         punched' \in SUBSET DeviceHeld, lockedTo' \in 0..LastDay,
         ~overlap => portal' = portal \/ (DeviceApart(checkin, portal') /\ \A r \in Requests : req[r] = Dv!Idle)
  PROVE  DeviceInv'
  <1>1. DeviceTypes' /\ DeviceBase' /\ Dv!AnsweredIsKept'
    BY DEF DeviceInv, DeviceTypes, DeviceBase, Dv!AnsweredIsKept
  <1>2. DeviceCurrent'
    BY DEF DeviceInv, DeviceCurrent
  <1> QED BY <1>1, <1>2 DEF DeviceInv

LEMMA DeviceInvStep ==
  ASSUME DeviceNames, DeviceInv, [Dv!Next]_Dv!vars
  PROVE  DeviceInv'
  <1>t. DeviceTypes
    BY DEF DeviceInv
  <1>0. CASE UNCHANGED Dv!vars
    BY <1>0 DEF Dv!vars, DeviceInv, DeviceTypes, DeviceBase, DeviceCurrent, Dv!AnsweredIsKept
  <1>1. ASSUME NEW r \in Requests, Dv!Begin(r) PROVE DeviceInv'
    <2>1. PICK s : s = Dv!Snapshot
      OBVIOUS
    <2>2. /\ s \in Snapshots /\ s.raw = raw /\ s.checkin = checkin /\ s.portal = portal
      BY <1>t, <2>1 DEF Dv!Snapshot, Snapshots, DeviceTypes
    <2>3. /\ req[r] = Dv!Idle /\ (overlap \/ \A q \in Requests : req[q] = Dv!Idle)
          /\ req' = [req EXCEPT ![r] = s]
          /\ UNCHANGED <<raw, checkin, portal, mapping, holder, punched, known, lockedTo, overlap>>
      BY <1>1, <2>1 DEF Dv!Begin, Dv!Alone
    <2>4. req' \in [Requests -> {Dv!Idle} \cup Snapshots] /\ req'[r] = s /\ \A q \in Requests : q # r => req'[q] = req[q]
      BY <1>t, <2>2, <2>3 DEF DeviceTypes
    <2>5. DeviceTypes'
      BY <1>t, <2>2, <2>3, <2>4 DEF DeviceTypes
    <2>6. DeviceOlder(raw, raw)
      BY DEF DeviceOlder
    <2>7. DeviceBase'
      BY <2>2, <2>3, <2>4, <2>6 DEF DeviceInv, DeviceBase
    <2>8. DeviceCurrent'
      BY <2>2, <2>3, <2>4 DEF DeviceInv, DeviceCurrent
    <2> QED BY <2>3, <2>5, <2>7, <2>8 DEF DeviceInv, Dv!AnsweredIsKept
  <1>2. ASSUME NEW r \in Requests, Dv!Abort(r) PROVE DeviceInv'
    <2>1. /\ req[r] # Dv!Idle /\ Dv!Ends(r) /\ UNCHANGED <<raw, checkin, punched, known>>
      BY <1>2 DEF Dv!Abort
    <2>2. DeviceOlder(raw, raw)
      BY DEF DeviceOlder
    <2>3. DeviceWritten(req[r]) /\ punched' \in SUBSET DeviceHeld
      BY <1>t, <2>1, <2>2 DEF DeviceWritten, DeviceTypes
    <2> QED BY <2>1, <2>3, DeviceEndKeeps
  <1>3. ASSUME NEW r \in Requests, NEW p \in punched, Dv!device_import(r, p) PROVE DeviceInv'
    <2>1. PICK e \in Dv!_resolve_employee(req[r], p.badge, p.device) :
            /\ Dv!_create_raw_log(r, e, p.badge, p.device, p.at)
            /\ req[r] # Dv!Idle /\ punched' \in {punched, punched \ {p}} /\ Dv!Ends(r)
      BY <1>3 DEF Dv!device_import
    <2>2. p.badge \in Badges /\ p.device \in Devices /\ p.at \in Times
      BY <1>t DEF DeviceTypes, DeviceHeld
    <2>3. req[r] \in Snapshots
      BY <1>t, <2>1 DEF DeviceTypes
    <2>4. e \in Somebody
      BY <2>1, <2>2, <2>3, ResolvedIs
    <2>5. PICK b, d, t : b = p.badge /\ d = p.device /\ t = p.at
      OBVIOUS
    <2>6. b \in Badges \cup {"None"} /\ d \in Devices \cup {"None"} /\ t \in Times /\ Dv!_create_raw_log(r, e, b, d, t)
      BY <2>1, <2>2, <2>5
    <2>7. DeviceOlder(req[r].raw, raw)
      BY <2>1 DEF DeviceInv, DeviceBase
    <2>8. DeviceWritten(req[r])
      BY <1>t, <2>1, <2>4, <2>6, <2>7, CreateIs
    <2>9. punched' \in SUBSET DeviceHeld
      BY <1>t, <2>1 DEF DeviceTypes
    <2> QED BY <2>1, <2>8, <2>9, DeviceEndKeeps
  <1>4. ASSUME NEW r \in Requests, NEW e \in Employees, NEW d \in Devices \cup {"None"}, NEW at \in Times,
               Dv!upload_logs(r, e, d, at)
        PROVE  DeviceInv'
    <2>1. req[r] # Dv!Idle /\ Dv!_create_raw_log(r, e, "None", d, at) /\ UNCHANGED punched /\ Dv!Ends(r)
      BY <1>4 DEF Dv!upload_logs
    <2>2. e \in Somebody
      BY DEF Somebody
    <2>3. DeviceOlder(req[r].raw, raw)
      BY <2>1 DEF DeviceInv, DeviceBase
    <2>4. PICK b : b = "None"
      OBVIOUS
    <2>5. b \in Badges \cup {"None"} /\ Dv!_create_raw_log(r, e, b, d, at)
      BY <2>1, <2>4
    <2>6. DeviceWritten(req[r])
      BY <1>t, <2>1, <2>2, <2>3, <2>5, CreateIs
    <2>7. punched' \in SUBSET DeviceHeld
      BY <1>t, <2>1 DEF DeviceTypes
    <2> QED BY <2>1, <2>6, <2>7, DeviceEndKeeps
  <1>5. ASSUME NEW r \in Requests, NEW d \in Devices, Dv!sync_device(r, d) PROVE DeviceInv'
    <2>1. req[r] # Dv!Idle
      BY <1>5 DEF Dv!sync_device
    <2>2. DeviceOlder(req[r].raw, raw)
      BY <2>1 DEF DeviceInv, DeviceBase
    <2>3. DeviceWritten(req[r]) /\ Dv!Ends(r) /\ punched' = punched
      BY <1>t, <1>5, <2>2, SyncIs
    <2>4. punched' \in SUBSET DeviceHeld
      BY <1>t, <2>3 DEF DeviceTypes
    <2> QED BY <2>1, <2>3, <2>4, DeviceEndKeeps
  <1>6. ASSUME NEW d \in Devices, NEW b \in Badges, NEW e \in Employees \cup {Dv!Nobody}, Dv!VNDeviceEmployeeMapping(d, b, e)
        PROVE  DeviceInv'
    <2>1. /\ mapping' = [mapping EXCEPT ![<<d, b>>] = e]
          /\ UNCHANGED <<raw, checkin, portal, holder, punched, known, lockedTo, overlap, req>>
      BY <1>6 DEF Dv!VNDeviceEmployeeMapping
    <2>2. mapping' \in Mappings
      BY <1>t, <2>1 DEF DeviceTypes, Mappings, Somebody
    <2> QED BY <1>t, <2>1, <2>2, AroundKeeps DEF DeviceTypes
  <1>7. ASSUME NEW d \in Devices, NEW b \in Badges, NEW at \in Times, Dv!Punch(d, b, at) PROVE DeviceInv'
    <2>1. [badge |-> b, device |-> d, at |-> at, who |-> holder[b]] \in DeviceHeld
      BY <1>t DEF DeviceTypes, DeviceHeld
    <2>2. /\ punched' \in SUBSET DeviceHeld
          /\ UNCHANGED <<raw, checkin, portal, mapping, holder, known, lockedTo, overlap, req>>
      BY <1>t, <1>7, <2>1 DEF Dv!Punch, DeviceTypes
    <2> QED BY <1>t, <2>2, AroundKeeps DEF DeviceTypes
  <1>8. ASSUME NEW e \in Employees, NEW b \in Badges, Dv!HandOver(b, e) PROVE DeviceInv'
    BY <1>t, <1>8, AroundKeeps DEF DeviceTypes, Dv!HandOver
  <1>9. ASSUME NEW e \in Employees, NEW at \in Times, Dv!PortalCheckin(e, at) PROVE DeviceInv'
    <2>1. /\ overlap \/ \A q \in Requests : req[q] = Dv!Idle
          /\ \A n \in Logs : checkin[n] # [emp |-> e, at |-> at]
          /\ portal' = portal \cup {<<e, at>>}
          /\ UNCHANGED <<raw, checkin, mapping, holder, punched, known, lockedTo, overlap, req>>
      BY <1>9 DEF Dv!PortalCheckin, Dv!Alone, Dv!ExistingCheckin
    <2>2. DeviceApart(checkin, portal) => DeviceApart(checkin, portal')
      <3>1. ASSUME NEW n \in Logs, checkin[n] # Dv!NoRow PROVE <<checkin[n].emp, checkin[n].at>> # <<e, at>>
        <4>1. PICK x \in Checkins : x = checkin[n]
          BY <1>t, <3>1 DEF DeviceTypes, Checks
        <4>2. x = [emp |-> x.emp, at |-> x.at]
          BY DEF Checkins
        <4> QED BY <2>1, <4>1, <4>2
      <3> QED BY <2>1, <3>1 DEF DeviceApart
    <2>3. portal' \in SUBSET (Employees \X Times)
      BY <1>t, <2>1 DEF DeviceTypes
    <2>4. ~overlap => DeviceApart(checkin, portal)
      BY DEF DeviceInv, DeviceCurrent
    <2> QED BY <1>t, <2>1, <2>2, <2>3, <2>4, AroundKeeps DEF DeviceTypes
  <1>10. ASSUME NEW d \in Dv!Days, Dv!LockDay(d) PROVE DeviceInv'
    <2>1. lockedTo' \in 0..LastDay
      BY <1>10 DEF Dv!LockDay, Dv!Days, DeviceNames
    <2> QED BY <1>t, <1>10, <2>1, AroundKeeps DEF DeviceTypes, Dv!LockDay
  <1> QED BY <1>0, <1>1, <1>2, <1>3, <1>4, <1>5, <1>6, <1>7, <1>8, <1>9, <1>10 DEF Dv!Next

LEMMA DeviceInvAll ==
  ASSUME DeviceNames
  PROVE  Dv!Spec => []DeviceInv
  <1>1. Dv!Init => DeviceInv
    BY DeviceInvInit
  <1>2. DeviceInv /\ [Dv!Next]_Dv!vars => DeviceInv'
    BY DeviceInvStep
  <1> QED BY <1>1, <1>2, PTL DEF Dv!Spec

\* Raw logs, check-ins and mappings keep their types.
THEOREM DeviceTyped ==
  ASSUME DeviceNames
  PROVE  Dv!Spec => []Dv!TypeOK
  <1>1. DeviceInv => Dv!TypeOK
    <2> SUFFICES ASSUME DeviceTypes PROVE Dv!TypeOK
      BY DEF DeviceInv
    <2>1. ASSUME NEW n \in Logs, raw[n] # Dv!NoRow
          PROVE  /\ raw[n].status \in {"Pending", "Processed", "Skipped", "Duplicate", "Error"}
                 /\ raw[n].emp \in Employees \cup {Dv!Nobody} /\ raw[n].at \in Times
      <3>1. PICK x \in LogRows : x = raw[n]
        BY <2>1 DEF DeviceTypes, Raws
      <3> QED BY <3>1 DEF LogRows, Somebody
    <2> QED BY <2>1 DEF Dv!TypeOK, DeviceTypes, Checks, Checkins, Mappings, Somebody
  <1> QED BY <1>1, DeviceInvAll, PTL

LEMMA AtMostOneIs ==
  ASSUME NEW S, \A a, b \in S : a = b
  PROVE  IsFiniteSet(S) /\ Cardinality(S) \in {0, 1} /\ (S # {} => Cardinality(S) = 1) /\ (S = {} => Cardinality(S) = 0)
  <1>1. CASE S = {}
    BY <1>1, FS_EmptySet
  <1>2. CASE S # {}
    <2>1. PICK a : S = {a}
      BY <1>2
    <2> QED BY <1>2, <2>1, FS_Singleton
  <1> QED BY <1>1, <1>2

\* When requests do not overlap an employee has one check-in of a time, of a device or of the portal, however often the
\* punch was sent, uploaded or swept (_process_raw_log).
THEOREM DeviceOnce ==
  ASSUME DeviceNames
  PROVE  Dv!Spec => []Dv!OneCheckinPerTime
  <1>1. DeviceInv => Dv!OneCheckinPerTime
    <2> SUFFICES ASSUME DeviceInv, ~overlap, NEW e \in Employees, NEW at \in Times
                 PROVE  Cardinality({n \in Logs : checkin[n] = [emp |-> e, at |-> at]})
                          + Cardinality({<<e, at>>} \cap portal) <= 1
      BY DvCounts DEF Dv!OneCheckinPerTime
    <2>1. PICK A, B, x : /\ x = [emp |-> e, at |-> at] /\ A = {n \in Logs : checkin[n] = x} /\ B = {<<e, at>>} \cap portal
      OBVIOUS
    <2>2. DeviceApart(checkin, portal) /\ x # Dv!NoRow /\ x.emp = e /\ x.at = at
      <3>1. x \in Checkins
        BY <2>1 DEF Checkins
      <3> QED BY <2>1, <3>1, DeviceRowsDiffer DEF DeviceInv, DeviceCurrent
    <2>3. (\A a, b \in A : a = b) /\ (\A a, b \in B : a = b) /\ (A # {} => B = {})
      BY <2>1, <2>2 DEF DeviceApart
    <2>4. Cardinality(A) \in {0, 1} /\ Cardinality(B) \in {0, 1} /\ (A = {} => Cardinality(A) = 0) /\ (B = {} => Cardinality(B) = 0)
      BY <2>3, AtMostOneIs
    <2>5. Cardinality(A) + Cardinality(B) <= 1
      <3>1. PICK a, b : a = Cardinality(A) /\ b = Cardinality(B)
        OBVIOUS
      <3>2. a \in {0, 1} /\ b \in {0, 1} /\ (a = 0 \/ b = 0)
        BY <2>3, <2>4, <3>1
      <3>3. a + b <= 1
        BY <3>2
      <3> QED BY <3>1, <3>3
    <2> QED BY <2>1, <2>5
  <1> QED BY <1>1, DeviceInvAll, PTL

\* What was answered with "imported" or "duplicate" stays under its employee, requests that overlap included
\* (_create_raw_log).
THEOREM DeviceAnswers ==
  ASSUME DeviceNames
  PROVE  Dv!Spec => []Dv!AnsweredIsKept
  <1>1. DeviceInv => Dv!AnsweredIsKept
    BY DEF DeviceInv
  <1> QED BY <1>1, DeviceInvAll, PTL

-----------------------------------------------------------------------------
(* Punches edited by HR. *)

\* The hours a punch may have.
HandTimes == EditTimes \cup {tap[2] : tap \in Taps} \cup {End[s] : s \in Shifts}
\* Shifts of less than a day that end apart, taps of a kind and an hour, and times of one shift that are not further
\* from each other than the search of an edit goes.
ShiftPlan ==
  /\ Shifts \subseteq Nat \ {0} /\ Cap \in Nat /\ Cap <= 24 /\ Overlaps \subseteq BOOLEAN
  /\ \A s \in Shifts : Start[s] \in Nat /\ End[s] \in Nat /\ Start[s] < End[s] /\ End[s] + 6 <= Start[s] + Cap
  /\ \A s, q \in Shifts : End[s] = End[q] => s = q
  /\ EditTimes \subseteq Nat /\ \A tap \in Taps : tap[1] \in Hp!Kinds /\ tap[2] \in Nat
  /\ \A t, u \in HandTimes, k \in Hp!Kinds :
       Hp!shift_of_punch(t, k) # {} /\ Hp!shift_of_punch(t, k) = Hp!shift_of_punch(u, k) => Hp!Distance(u, t) <= 36
\* No hour typed in is the one at which the engine closes a session.
NotTheEnd == \A s \in Shifts : End[s] \notin EditTimes

Punches == [kind : Hp!Kinds, at : HandTimes, auto : BOOLEAN, of : Shifts \cup {0}]
EngineOwn(p) == p.auto => p.of \in Shifts /\ p.kind = "OUT" /\ p.at = End[p.of]
HandBefore  == UNION {[S -> Hp!Statuses] : S \in SUBSET Shifts}
Asked   == [step : {"waive", "recalc"}, in : SUBSET Punches, out : SUBSET Punches, row : SUBSET Punches, was : HandBefore]
HandTypes ==
  /\ punch \in SUBSET Punches /\ IsFiniteSet(punch) /\ (\A p \in punch : EngineOwn(p))
  /\ flag \in [Shifts -> BOOLEAN] /\ ticket \in [Shifts -> Hp!Statuses] /\ due \subseteq Shifts
  /\ locked \in BOOLEAN /\ paid \in BOOLEAN /\ overlap \in BOOLEAN /\ named \in BOOLEAN
  /\ edit \in {Hp!NoEdit} \cup Asked /\ (edit # Hp!NoEdit => \A p \in edit.out : p.at \in EditTimes /\ ~p.auto)

-----------------------------------------------------------------------------
LEMMA TimesNat == ASSUME ShiftPlan PROVE HandTimes \subseteq Nat
  BY DEF HandTimes, ShiftPlan

LEMMA MaxOfThree ==
  ASSUME NEW a \in Int, NEW b \in Int
  PROVE  Hp!Max({a, b, 0}) \in Int /\ Hp!Max({a, b, 0}) >= 0
  <1> DEFINE S == {a, b, 0}
  <1>1. \E x \in S : \A y \in S : x >= y
    <2>1. CASE a >= b /\ a >= 0
      BY <2>1
    <2>2. CASE b >= a /\ b >= 0
      BY <2>2
    <2>3. CASE ~(a >= 0) /\ ~(b >= 0)
      BY <2>3
    <2> QED BY <2>1, <2>2, <2>3
  <1>2. Hp!Max(S) \in S /\ \A y \in S : Hp!Max(S) >= y
    BY <1>1 DEF Hp!Max
  <1> QED BY <1>2

LEMMA MaxOfTwo ==
  ASSUME NEW a \in Int, NEW b \in Int
  PROVE  Hp!Max({a, b}) \in {a, b} /\ Hp!Max({a, b}) >= a /\ Hp!Max({a, b}) >= b
  <1> DEFINE S == {a, b}
  <1>1. \E x \in S : \A y \in S : x >= y
    <2>1. CASE a >= b
      BY <2>1
    <2>2. CASE b >= a
      BY <2>2
    <2> QED BY <2>1, <2>2
  <1>2. Hp!Max(S) \in S /\ \A y \in S : Hp!Max(S) >= y
    BY <1>1 DEF Hp!Max
  <1> QED BY <1>2

LEMMA OneOfAll ==
  ASSUME NEW t \in Nat
  PROVE  Hp!Min({t}) = t
  <1>1. \E x \in {t} : \A y \in {t} : x <= y
    OBVIOUS
  <1> QED BY <1>1 DEF Hp!Min

LEMMA ShiftOfIs ==
  ASSUME NEW t, NEW k, NEW x
  PROVE  x \in Hp!shift_of_punch(t, k) <=>
           /\ x \in Shifts /\ Hp!Work(x) \in {Hp!Day(t) - 1, Hp!Day(t)}
           /\ \A q \in Shifts : Hp!Work(q) \in {Hp!Day(t) - 1, Hp!Day(t)} =>
                \/ Hp!Rank(t, k, x) < Hp!Rank(t, k, q)
                \/ Hp!Rank(t, k, x) = Hp!Rank(t, k, q) /\ x <= q
  BY DEF Hp!shift_of_punch

\* The rank of a punch.
LEMMA RankIs ==
  ASSUME ShiftPlan, NEW t \in Nat, NEW s \in Shifts
  PROVE  /\ Hp!InWindow(t, s) => Hp!Rank(t, "OUT", s) = Hp!Distance(t, End[s])
         /\ ~Hp!InWindow(t, s) => Hp!Rank(t, "OUT", s) >= 1000
         /\ Hp!Rank(t, "OUT", s) \in Int
         /\ Hp!Distance(t, End[s]) \in Nat
  <1>1. Start[s] \in Nat /\ End[s] \in Nat
    BY DEF ShiftPlan
  <1>2. Hp!Distance(t, End[s]) \in Nat
    BY <1>1 DEF Hp!Distance
  <1>3. CASE Hp!InWindow(t, s)
    BY <1>2, <1>3 DEF Hp!Rank
  <1>4. CASE ~Hp!InWindow(t, s)
    <2>1. PICK m : m = Hp!Max({Start[s] - t, t - End[s], 0})
      OBVIOUS
    <2>2. m \in Int /\ m >= 0
      BY <1>1, <2>1, MaxOfThree
    <2>3. Hp!Rank(t, "OUT", s) = 1000 + m
      BY <1>4, <2>1 DEF Hp!Rank
    <2> QED BY <1>2, <1>4, <2>2, <2>3
  <1> QED BY <1>3, <1>4

\* The OUT of the engine is of its own shift.
LEMMA EngineShift ==
  ASSUME ShiftPlan, NEW s \in Shifts
  PROVE  Hp!shift_of_punch(End[s], "OUT") = {s}
  <1> DEFINE t == End[s]
             C == {x \in Shifts : Hp!Work(x) \in {Hp!Day(t) - 1, Hp!Day(t)}}
  <1>1. Start[s] \in Nat /\ t \in Nat /\ Start[s] < t /\ t + 6 <= Start[s] + Cap /\ Cap \in Nat /\ Cap <= 24
    BY DEF ShiftPlan
  <1>2. Hp!InWindow(t, s)
    BY <1>1 DEF Hp!InWindow
  <1>3. Hp!Rank(t, "OUT", s) = 0
    BY <1>1, <1>2, RankIs DEF Hp!Distance
  <1>4. s \in C
    <2>1. Start[s] <= t /\ t <= Start[s] + 24
      BY <1>1
    <2>2. Start[s] \div 24 \in {(t \div 24) - 1, t \div 24}
      BY <1>1, <2>1
    <2> QED BY <2>2 DEF Hp!Work, Hp!Day
  <1>5. \A q \in Shifts \ {s} : Hp!Rank(t, "OUT", q) > 0
    <2> SUFFICES ASSUME NEW q \in Shifts, q # s PROVE Hp!Rank(t, "OUT", q) > 0
      OBVIOUS
    <2>1. End[q] \in Nat /\ End[q] # t
      BY DEF ShiftPlan
    <2>2. Hp!Distance(t, End[q]) > 0
      BY <1>1, <2>1 DEF Hp!Distance
    <2>3. CASE Hp!InWindow(t, q)
      BY <1>1, <2>2, <2>3, RankIs
    <2>4. CASE ~Hp!InWindow(t, q)
      BY <1>1, <2>4, RankIs
    <2> QED BY <2>3, <2>4
  <1>6. \A q \in C : Hp!Rank(t, "OUT", s) < Hp!Rank(t, "OUT", q) \/ q = s
    BY <1>3, <1>5
  <1>7. s \in Hp!shift_of_punch(t, "OUT")
    <2>1. s <= s
      BY DEF ShiftPlan
    <2> QED BY <1>4, <1>6, <2>1, ShiftOfIs
  <1>8. ASSUME NEW x \in Hp!shift_of_punch(t, "OUT"), x # s PROVE FALSE
    <2>1. x \in Shifts /\ (Hp!Rank(t, "OUT", x) < Hp!Rank(t, "OUT", s) \/ Hp!Rank(t, "OUT", x) = Hp!Rank(t, "OUT", s))
      BY <1>4, ShiftOfIs
    <2>2. Hp!Rank(t, "OUT", x) \in Int /\ Hp!Rank(t, "OUT", x) > 0
      BY <1>1, <1>5, <1>8, <2>1, RankIs
    <2> QED BY <1>3, <2>1, <2>2
  <1> QED BY <1>7, <1>8

\* A shift that a punch is of, with the punch inside its allowance, is the nearest of those that allow it.
LEMMA NearestOfItsShift ==
  ASSUME ShiftPlan, NEW t \in Nat, NEW s \in Hp!shift_of_punch(t, "OUT"),
         Start[s] <= t, t <= End[s] + Hp!_OUT_AFTER_PLANNED_END, ticket[s] # "None"
  PROVE  s \in Hp!_checkout_miss_at(t)
  <1> DEFINE C == {x \in Shifts : ticket[x] # "None" /\ Start[x] <= t /\ t <= End[x] + Hp!_OUT_AFTER_PLANNED_END}
  <1>1. s \in Shifts
    BY DEF Hp!shift_of_punch
  <1>2. \A x \in Shifts : Start[x] \in Nat /\ End[x] \in Nat /\ Start[x] < End[x] /\ End[x] + 6 <= Start[x] + Cap
        /\ Cap \in Nat /\ Cap <= 24
    BY DEF ShiftPlan
  <1>3. s \in C
    BY <1>1
  <1>4. ASSUME NEW q \in C PROVE Hp!Distance(t, End[s]) <= Hp!Distance(t, End[q])
    <2>1. q \in Shifts /\ Start[q] <= t /\ t <= End[q] + 6
      BY DEF Hp!_OUT_AFTER_PLANNED_END
    <2>2. Hp!InWindow(t, q) /\ Hp!InWindow(t, s)
      BY <1>1, <1>2, <2>1 DEF Hp!InWindow, Hp!_OUT_AFTER_PLANNED_END
    <2>3. Hp!Work(q) \in {Hp!Day(t) - 1, Hp!Day(t)}
      <3>1. Start[q] \in Nat /\ Start[q] <= t /\ t <= Start[q] + 24
        BY <1>2, <2>1
      <3>2. Start[q] \div 24 \in {(t \div 24) - 1, t \div 24}
        BY <3>1
      <3> QED BY <3>2 DEF Hp!Work, Hp!Day
    <2>4. Hp!Rank(t, "OUT", s) < Hp!Rank(t, "OUT", q) \/ Hp!Rank(t, "OUT", s) = Hp!Rank(t, "OUT", q)
      BY <2>1, <2>3 DEF Hp!shift_of_punch
    <2>5. Hp!Distance(t, End[s]) \in Nat /\ Hp!Distance(t, End[q]) \in Nat
          /\ Hp!Rank(t, "OUT", s) = Hp!Distance(t, End[s]) /\ Hp!Rank(t, "OUT", q) = Hp!Distance(t, End[q])
      BY <1>1, <2>1, <2>2, RankIs
    <2> QED BY <2>4, <2>5
  <1> QED BY <1>3, <1>4 DEF Hp!_checkout_miss_at

-----------------------------------------------------------------------------
(* What an edit does to the punches. *)

LEMMA HandRows ==
  ASSUME ShiftPlan, NEW p \in Punches, NEW t \in EditTimes, NEW k \in Hp!Kinds
  PROVE  /\ Hp!Moved(p, t) \in Punches /\ Hp!Moved(p, t).at = t /\ ~Hp!Moved(p, t).auto
         /\ Hp!Moved(p, t).kind = p.kind /\ Hp!Moved(p, t).of = p.of
         /\ Hp!Genuine(k, t) \in Punches /\ Hp!Genuine(k, t).at = t /\ ~Hp!Genuine(k, t).auto
         /\ Hp!Genuine(k, t).kind = k /\ Hp!Genuine(k, t).of = 0
  <1>1. t \in HandTimes
    BY DEF HandTimes
  <1> QED BY <1>1 DEF Punches, Hp!Moved, Hp!Genuine, Hp!Row

LEMMA FoundIs ==
  ASSUME NEW P, NEW t, NEW k, NEW p \in Hp!_find_existing_checkin(P, t, k)
  PROVE  /\ p \in P /\ p.kind = k
         /\ Hp!shift_of_punch(t, k) # {} => Hp!ShiftOf(p) = Hp!shift_of_punch(t, k)
  BY DEF Hp!_find_existing_checkin, Hp!FirstOrLast

\* The row n comes in the place of those of T.
Upserted(P, t, k, row, n, T) ==
  /\ T \subseteq P /\ Hp!_upsert_employee_checkin(P, t, k, row) = (P \ T) \cup {n}
  /\ n \in Punches /\ n.at = t /\ ~n.auto
  /\ (P \ T) \cup {n} \in SUBSET Punches /\ IsFiniteSet((P \ T) \cup {n})
  /\ \A p \in (P \ T) \cup {n} : EngineOwn(p)
  /\ row = {} => /\ n.kind = k /\ Hp!ShiftOf(n) = Hp!shift_of_punch(t, k)
                 /\ n.of # 0 => \E p \in T : p.of = n.of /\ p.kind = k
                 /\ \A p \in T : p.kind = k /\ (Hp!ShiftOf(n) # {} => Hp!ShiftOf(p) = Hp!ShiftOf(n))

LEMMA RowUpsertIs ==
  ASSUME ShiftPlan, NEW P \in SUBSET Punches, IsFiniteSet(P), \A p \in P : EngineOwn(p),
         NEW t \in EditTimes, NEW k \in Hp!Kinds, NEW row \in SUBSET P,
         NEW n, n = Hp!New(P, t, k, row), NEW T, T = Hp!Target(P, t, k, row)
  PROVE  Upserted(P, t, k, row, n, T)
  <1>1. T \subseteq P /\ (row = {} => T = Hp!_find_existing_checkin(P, t, k))
    BY FoundIs DEF Hp!Target
  <1>2. Hp!_upsert_employee_checkin(P, t, k, row) = (P \ T) \cup {n}
    BY DEF Hp!_upsert_employee_checkin
  <1>3. /\ n \in Punches /\ n.at = t /\ ~n.auto
        /\ row = {} => n.kind = k /\ (n.of # 0 => \E p \in T : p.of = n.of /\ p.kind = k)
    <2>1. CASE T = {}
      <3>1. n = Hp!Genuine(k, t)
        BY <2>1 DEF Hp!New
      <3>2. Hp!Genuine(k, t) \in Punches /\ Hp!Genuine(k, t).at = t /\ ~Hp!Genuine(k, t).auto /\ Hp!Genuine(k, t).kind = k /\ Hp!Genuine(k, t).of = 0
        BY DEF Hp!Genuine, Hp!Row, Punches, HandTimes
      <3> QED BY <3>1, <3>2
    <2>2. CASE T # {}
      <3>1. PICK p \in T : n = Hp!Moved(p, t)
        BY <2>2 DEF Hp!New
      <3>2. p \in Punches
        BY <1>1
      <3>3. row = {} => p.kind = k
        BY <1>1, FoundIs
      <3> QED BY <3>1, <3>2, <3>3, HandRows
    <2> QED BY <2>1, <2>2
  <1>4. IsFiniteSet((P \ T) \cup {n})
    BY FS_Difference, FS_AddElement
  <1>5. \A p \in (P \ T) \cup {n} : EngineOwn(p)
    BY <1>3 DEF EngineOwn
  <1>6. row = {} => /\ Hp!ShiftOf(n) = Hp!shift_of_punch(t, k)
                    /\ \A p \in T : p.kind = k /\ (Hp!ShiftOf(n) # {} => Hp!ShiftOf(p) = Hp!ShiftOf(n))
    <2> SUFFICES ASSUME row = {}
                 PROVE  /\ Hp!ShiftOf(n) = Hp!shift_of_punch(t, k)
                        /\ \A p \in T : p.kind = k /\ (Hp!ShiftOf(n) # {} => Hp!ShiftOf(p) = Hp!ShiftOf(n))
      OBVIOUS
    <2>1. Hp!ShiftOf(n) = Hp!shift_of_punch(n.at, n.kind)
      BY DEF Hp!ShiftOf
    <2>2. Hp!ShiftOf(n) = Hp!shift_of_punch(t, k)
      BY <1>3, <2>1
    <2> QED BY <1>1, <2>2, FoundIs
  <1> QED BY <1>1, <1>2, <1>3, <1>4, <1>5, <1>6 DEF Upserted

\* The two rows of an edit, one after the other.
EditsIn(P1, a, in) == P1 = Hp!_upsert_employee_checkin(punch, a, "IN", {}) /\ in = {Hp!New(punch, a, "IN", {})}
EditsOut(P1, P2, b, out, row) ==
  P2 = Hp!_upsert_employee_checkin(P1, b, "OUT", row \cap P1) /\ out = {Hp!New(P1, b, "OUT", row \cap P1)}
Edits(P1, P2, in, out, row) ==
  /\ (P1 = punch /\ in = {}) \/ \E a \in EditTimes : EditsIn(P1, a, in)
  /\ (P2 = P1 /\ out = {}) \/ \E b \in EditTimes : EditsOut(P1, P2, b, out, row)

LEMMA EditIs ==
  ASSUME ShiftPlan, NEW i \in Hp!AtMostOne(EditTimes), NEW o \in Hp!AtMostOne(EditTimes), NEW row \in Hp!AtMostOne(punch),
         Hp!EditPunches(i, o, row)
  PROVE  /\ \E P1, in, out :
              /\ Edits(P1, punch', in, out, row)
              /\ edit' = [step |-> "waive", in |-> in, out |-> out, row |-> row,
                          was |-> [s \in UNION {Hp!ShiftOf(p) : p \in out} |-> ticket[s]]]
         /\ edit = Hp!NoEdit /\ (row # {} => named)
         /\ flag' = [s \in Shifts |-> flag[s] /\ ~\E t \in i \cup o : Hp!Work(s) = Hp!Day(t)]
         /\ UNCHANGED <<ticket, due, locked, paid, overlap, named>>
  <1> DEFINE P1 == IF i = {} THEN punch ELSE Hp!_upsert_employee_checkin(punch, Hp!Min(i), "IN", {})
             P2 == IF o = {} THEN P1 ELSE Hp!_upsert_employee_checkin(P1, Hp!Min(o), "OUT", row \cap P1)
             out == IF o = {} THEN {} ELSE {Hp!New(P1, Hp!Min(o), "OUT", row \cap P1)}
             in  == IF i = {} THEN {} ELSE {Hp!New(punch, Hp!Min(i), "IN", {})}
  <1>1. /\ punch' = P2
        /\ edit' = [step |-> "waive", in |-> in, out |-> out, row |-> row,
                    was |-> [s \in UNION {Hp!ShiftOf(p) : p \in out} |-> ticket[s]]]
        /\ edit = Hp!NoEdit /\ (row # {} => named)
        /\ flag' = [s \in Shifts |-> flag[s] /\ ~\E t \in i \cup o : Hp!Work(s) = Hp!Day(t)]
        /\ UNCHANGED <<ticket, due, locked, paid, overlap, named>>
    BY DEF Hp!EditPunches
  <1>2. (P1 = punch /\ in = {}) \/ \E a \in EditTimes : EditsIn(P1, a, in)
    <2>1. CASE i = {}
      BY <2>1
    <2>2. CASE i # {}
      <3>1. PICK a \in EditTimes : i = {a}
        BY <2>2 DEF Hp!AtMostOne
      <3>2. Hp!Min(i) = a
        BY <3>1, OneOfAll DEF ShiftPlan
      <3>3. P1 = Hp!_upsert_employee_checkin(punch, a, "IN", {}) /\ in = {Hp!New(punch, a, "IN", {})}
        BY <2>2, <3>2
      <3> HIDE DEF P1, in
      <3> QED BY <3>3 DEF EditsIn
    <2> QED BY <2>1, <2>2
  <1>3. (P2 = P1 /\ out = {}) \/ \E b \in EditTimes : EditsOut(P1, P2, b, out, row)
    <2>1. CASE o = {}
      BY <2>1
    <2>2. CASE o # {}
      <3>1. PICK b \in EditTimes : o = {b}
        BY <2>2 DEF Hp!AtMostOne
      <3>2. Hp!Min(o) = b
        BY <3>1, OneOfAll DEF ShiftPlan
      <3> HIDE DEF P1
      <3>3. P2 = Hp!_upsert_employee_checkin(P1, b, "OUT", row \cap P1) /\ out = {Hp!New(P1, b, "OUT", row \cap P1)}
        BY <2>2, <3>2
      <3> HIDE DEF P2, out
      <3> QED BY <3>3 DEF EditsOut
    <2> QED BY <2>1, <2>2
  <1> HIDE DEF P1, P2, in, out
  <1>4. Edits(P1, punch', in, out, row)
    BY <1>1, <1>2, <1>3 DEF Edits
  <1> QED BY <1>1, <1>4

\* The engine's row carries the shift it is of, and keeps to it unless it is named.
OwnShift(p) == p.of # 0 => p.kind = "OUT" /\ (Hp!ShiftOf(p) = {} \/ Hp!ShiftOf(p) = {p.of})

\* What there is after the edit of some punches.
LEMMA EditKeeps ==
  ASSUME ShiftPlan, HandTypes, NEW P1, NEW P2, NEW in, NEW out, NEW row \in SUBSET punch, Edits(P1, P2, in, out, row)
  PROVE  /\ P2 \in SUBSET Punches /\ IsFiniteSet(P2) /\ \A p \in P2 : EngineOwn(p)
         /\ in \in SUBSET Punches /\ out \in SUBSET Punches /\ \A p \in out : p.at \in EditTimes /\ ~p.auto
         /\ row = {} /\ (\A p \in punch : OwnShift(p)) =>
              /\ \A p \in P2 : OwnShift(p)
              /\ \A p \in out : p.kind = "OUT" /\ OwnShift(p)
  <1>k. {"IN", "OUT"} = Hp!Kinds
    BY DEF Hp!Kinds
  <1>1. /\ P1 \in SUBSET Punches /\ IsFiniteSet(P1) /\ \A p \in P1 : EngineOwn(p)
        /\ in \in SUBSET Punches
        /\ (\A p \in punch : OwnShift(p)) => \A p \in P1 : OwnShift(p)
    <2>1. CASE P1 = punch /\ in = {}
      BY <2>1 DEF HandTypes
    <2>2. ASSUME NEW a \in EditTimes, EditsIn(P1, a, in) PROVE <1>1!:
      <3>1. PICK n, T : n = Hp!New(punch, a, "IN", {}) /\ T = Hp!Target(punch, a, "IN", {})
        OBVIOUS
      <3>2. /\ T \subseteq punch /\ Hp!_upsert_employee_checkin(punch, a, "IN", {}) = (punch \ T) \cup {n}
            /\ n \in Punches
            /\ (punch \ T) \cup {n} \in SUBSET Punches /\ IsFiniteSet((punch \ T) \cup {n})
            /\ \A p \in (punch \ T) \cup {n} : EngineOwn(p)
            /\ n.kind = "IN" /\ (n.of # 0 => \E p \in T : p.of = n.of /\ p.kind = "IN")
        <4>1. {} \in SUBSET punch /\ "IN" \in Hp!Kinds
          BY <1>k
        <4>2. Upserted(punch, a, "IN", {}, n, T)
          BY <3>1, <4>1, RowUpsertIs DEF HandTypes
        <4> QED BY <4>2 DEF Upserted
      <3>3. P1 = (punch \ T) \cup {n} /\ in = {n}
        BY <2>2, <3>1, <3>2 DEF EditsIn
      <3>4. ASSUME \A p \in punch : OwnShift(p) PROVE \A p \in P1 : OwnShift(p)
        <4>1. n.of = 0
          BY <3>2, <3>4 DEF OwnShift
        <4> QED BY <3>3, <3>4, <4>1 DEF OwnShift
      <3> QED BY <3>2, <3>3, <3>4
    <2> QED BY <2>1, <2>2 DEF Edits
  <1>2. CASE P2 = P1 /\ out = {}
    BY <1>1, <1>2
  <1>3. ASSUME NEW b \in EditTimes, EditsOut(P1, P2, b, out, row)
        PROVE  /\ P2 \in SUBSET Punches /\ IsFiniteSet(P2) /\ \A p \in P2 : EngineOwn(p)
               /\ out \in SUBSET Punches /\ \A p \in out : p.at \in EditTimes /\ ~p.auto
               /\ row = {} /\ (\A p \in punch : OwnShift(p)) =>
                    /\ \A p \in P2 : OwnShift(p)
                    /\ \A p \in out : p.kind = "OUT" /\ OwnShift(p)
    <2>1. PICK r, n, T : r = row \cap P1 /\ n = Hp!New(P1, b, "OUT", r) /\ T = Hp!Target(P1, b, "OUT", r)
      OBVIOUS
    <2>2. /\ T \subseteq P1 /\ Hp!_upsert_employee_checkin(P1, b, "OUT", r) = (P1 \ T) \cup {n}
          /\ n \in Punches /\ n.at = b /\ ~n.auto
          /\ (P1 \ T) \cup {n} \in SUBSET Punches /\ IsFiniteSet((P1 \ T) \cup {n})
          /\ \A p \in (P1 \ T) \cup {n} : EngineOwn(p)
          /\ r = {} => /\ n.kind = "OUT" /\ (n.of # 0 => \E p \in T : p.of = n.of /\ p.kind = "OUT")
                       /\ \A p \in T : p.kind = "OUT" /\ (Hp!ShiftOf(n) # {} => Hp!ShiftOf(p) = Hp!ShiftOf(n))
      <3>1. r \in SUBSET P1 /\ "OUT" \in Hp!Kinds
        BY <1>k, <2>1
      <3>2. P1 \in SUBSET Punches /\ IsFiniteSet(P1) /\ \A p \in P1 : EngineOwn(p)
        BY <1>1
      <3>3. n = Hp!New(P1, b, "OUT", r) /\ T = Hp!Target(P1, b, "OUT", r)
        BY <2>1
      <3>4. Upserted(P1, b, "OUT", r, n, T)
        BY <3>1, <3>2, <3>3, RowUpsertIs
      <3> QED BY <3>4 DEF Upserted
    <2>3. P2 = (P1 \ T) \cup {n} /\ out = {n}
      BY <1>3, <2>1, <2>2 DEF EditsOut
    <2>4. ASSUME row = {}, \A p \in punch : OwnShift(p)
          PROVE  (\A p \in P2 : OwnShift(p)) /\ \A p \in out : p.kind = "OUT" /\ OwnShift(p)
      <3>1. r = {} /\ \A p \in P1 : OwnShift(p)
        BY <1>1, <2>1, <2>4
      <3>2. OwnShift(n)
        BY <2>2, <3>1 DEF OwnShift
      <3> QED BY <2>2, <2>3, <3>1, <3>2
    <2> QED BY <2>2, <2>3, <2>4
  <1> QED BY <1>1, <1>2, <1>3 DEF Edits

-----------------------------------------------------------------------------
(* Types. *)

LEMMA HandTypedInit ==
  ASSUME ShiftPlan, Hp!Init
  PROVE  HandTypes
  <1>1. IsFiniteSet(punch) /\ punch \in SUBSET Punches /\ \A p \in punch : EngineOwn(p)
    BY FS_EmptySet DEF Hp!Init
  <1>2. overlap \in BOOLEAN
    BY DEF Hp!Init, ShiftPlan
  <1> QED BY <1>1, <1>2 DEF Hp!Init, HandTypes, Hp!Statuses

LEMMA CalculatedIs ==
  ASSUME HandTypes, NEW S
  PROVE  /\ Hp!Calculated(punch, S) \in [Shifts -> BOOLEAN]
         /\ Hp!_auto_resolve_checkout_miss(ticket, punch, S) \in [Shifts -> Hp!Statuses]
         /\ \A s \in Shifts : ticket[s] = "Waived" => Hp!_auto_resolve_checkout_miss(ticket, punch, S)[s] = "Waived"
         /\ \A s \in Shifts : s \in S /\ ~Hp!_is_date_locked(Hp!Work(s)) => Hp!Calculated(punch, S)[s] = Hp!AutoFlag(punch, s)
  <1>1. \A s \in Shifts : Hp!AutoFlag(punch, s) \in BOOLEAN
    BY DEF Hp!AutoFlag
  <1>2. Hp!Calculated(punch, S) \in [Shifts -> BOOLEAN]
    BY <1>1 DEF Hp!Calculated, HandTypes
  <1>3. Hp!_auto_resolve_checkout_miss(ticket, punch, S) \in [Shifts -> Hp!Statuses]
    BY DEF Hp!_auto_resolve_checkout_miss, HandTypes, Hp!Statuses
  <1>4. \A s \in Shifts : ticket[s] = "Waived" => Hp!_auto_resolve_checkout_miss(ticket, punch, S)[s] = "Waived"
    BY DEF Hp!_auto_resolve_checkout_miss
  <1>5. \A s \in Shifts : s \in S /\ ~Hp!_is_date_locked(Hp!Work(s)) => Hp!Calculated(punch, S)[s] = Hp!AutoFlag(punch, s)
    BY DEF Hp!Calculated
  <1> QED BY <1>2, <1>3, <1>4, <1>5

\* A step outside of edits.
Outside == edit' = edit /\ overlap' = overlap /\ named' = named

LEMMA HandTypedStep ==
  ASSUME ShiftPlan, HandTypes, [Hp!Next]_Hp!vars
  PROVE  HandTypes'
  <1>0. CASE UNCHANGED Hp!vars
    BY <1>0 DEF Hp!vars, HandTypes
  <1>1. ASSUME NEW tap \in Taps, Hp!Tap(tap[1], tap[2]) PROVE HandTypes'
    <2>1. PICK k, t : k = tap[1] /\ t = tap[2]
      OBVIOUS
    <2>2. k \in Hp!Kinds /\ t \in HandTimes
      BY <2>1 DEF ShiftPlan, HandTimes
    <2>3. Hp!Genuine(k, t) \in Punches /\ ~Hp!Genuine(k, t).auto
      BY <2>2 DEF Hp!Genuine, Hp!Row, Punches
    <2>4. punch' = punch \cup {Hp!Genuine(k, t)} /\ due' = due \cup Hp!shift_of_punch(t, k)
          /\ UNCHANGED <<flag, ticket, edit, locked, paid, overlap, named>>
      BY <1>1, <2>1 DEF Hp!Tap
    <2>5. IsFiniteSet(punch')
      BY <2>4, FS_AddElement DEF HandTypes
    <2>6. Hp!shift_of_punch(t, k) \subseteq Shifts
      BY DEF Hp!shift_of_punch
    <2>7. \A p \in punch' : EngineOwn(p)
      BY <2>3, <2>4 DEF HandTypes, EngineOwn
    <2> QED BY <2>3, <2>4, <2>5, <2>6, <2>7 DEF HandTypes
  <1>2. ASSUME NEW s \in Shifts, Hp!Recalculate(s) PROVE HandTypes'
    <2>1. flag' \in [Shifts -> BOOLEAN] /\ ticket' \in [Shifts -> Hp!Statuses]
      BY <1>2, CalculatedIs DEF Hp!Recalculate
    <2> QED BY <1>2, <2>1 DEF Hp!Recalculate, HandTypes
  <1>3. ASSUME NEW s \in Shifts, Hp!CloseSession(s) PROVE HandTypes'
    <2>1. PICK n : n = Hp!Row("OUT", End[s], TRUE, s)
      OBVIOUS
    <2>2. n \in Punches /\ EngineOwn(n)
      BY <2>1 DEF Hp!Row, Punches, Hp!Kinds, HandTimes, EngineOwn
    <2>3. punch' = punch \cup {n} /\ flag' = [flag EXCEPT ![s] = TRUE] /\ ticket' = [ticket EXCEPT ![s] = "Pending"]
          /\ UNCHANGED <<due, edit, locked, paid, overlap, named>>
      BY <1>3, <2>1 DEF Hp!CloseSession
    <2>4. IsFiniteSet(punch')
      BY <2>3, FS_AddElement DEF HandTypes
    <2>5. \A p \in punch' : EngineOwn(p)
      BY <2>2, <2>3 DEF HandTypes
    <2> QED BY <2>2, <2>3, <2>4, <2>5 DEF HandTypes, Hp!Statuses
  <1>4. ASSUME NEW s \in Shifts, NEW status \in Hp!Statuses, Hp!Decide(s, status) PROVE HandTypes'
    BY <1>4 DEF Hp!Decide, HandTypes
  <1>5. CASE Hp!Months
    BY <1>5 DEF Hp!Months, HandTypes
  <1>6. ASSUME NEW i \in Hp!AtMostOne(EditTimes), NEW o \in Hp!AtMostOne(EditTimes), NEW row \in Hp!AtMostOne(punch),
               Hp!EditPunches(i, o, row)
        PROVE  HandTypes'
    <2>1. PICK P1, in, out :
            /\ Edits(P1, punch', in, out, row)
            /\ edit' = [step |-> "waive", in |-> in, out |-> out, row |-> row,
                        was |-> [s \in UNION {Hp!ShiftOf(p) : p \in out} |-> ticket[s]]]
      BY <1>6, EditIs
    <2>2. /\ flag' = [s \in Shifts |-> flag[s] /\ ~\E t \in i \cup o : Hp!Work(s) = Hp!Day(t)]
          /\ UNCHANGED <<ticket, due, locked, paid, overlap, named>>
      BY <1>6, EditIs
    <2>3. row \in SUBSET punch
      BY DEF Hp!AtMostOne
    <2>4. /\ punch' \in SUBSET Punches /\ IsFiniteSet(punch') /\ \A p \in punch' : EngineOwn(p)
          /\ in \in SUBSET Punches /\ out \in SUBSET Punches /\ \A p \in out : p.at \in EditTimes /\ ~p.auto
      BY <2>1, <2>3, EditKeeps
    <2>5. flag' \in [Shifts -> BOOLEAN]
      BY <2>2
    <2>6. edit' \in Asked /\ edit'.out = out
      <3>1. PICK of : of = UNION {Hp!ShiftOf(p) : p \in out}
        OBVIOUS
      <3>2. of \in SUBSET Shifts
        BY <3>1 DEF Hp!ShiftOf, Hp!shift_of_punch
      <3>3. [s \in of |-> ticket[s]] \in HandBefore
        BY <3>2 DEF HandBefore, HandTypes
      <3>4. row \in SUBSET Punches
        BY <2>3 DEF HandTypes
      <3> QED BY <2>1, <2>4, <3>1, <3>3, <3>4 DEF Asked
    <2> QED BY <2>2, <2>4, <2>5, <2>6 DEF HandTypes
  <1>7. CASE Hp!_waive_checkout_miss_for_manual_out
    <2>1. /\ edit.step = "waive" /\ edit' = [edit EXCEPT !.step = "recalc"]
          /\ ticket' \in [Shifts -> Hp!Statuses]
          /\ UNCHANGED <<punch, flag, due, locked, paid, overlap, named>>
      BY <1>7 DEF Hp!_waive_checkout_miss_for_manual_out, HandTypes, Hp!Statuses
    <2>2. edit \in Asked /\ \A p \in edit.out : p.at \in EditTimes /\ ~p.auto
      BY <2>1 DEF Hp!NoEdit, HandTypes
    <2>3. edit' \in Asked /\ edit'.out = edit.out
      BY <2>1, <2>2 DEF Asked
    <2> QED BY <2>1, <2>2, <2>3 DEF HandTypes
  <1>8. CASE Hp!_sync_recalc_after_checkin
    <2>1. flag' \in [Shifts -> BOOLEAN] /\ ticket' \in [Shifts -> Hp!Statuses]
      BY <1>8, CalculatedIs DEF Hp!_sync_recalc_after_checkin
    <2> QED BY <1>8, <2>1 DEF Hp!_sync_recalc_after_checkin, HandTypes
  <1> QED BY <1>0, <1>1, <1>2, <1>3, <1>4, <1>5, <1>6, <1>7, <1>8 DEF Hp!Next

-----------------------------------------------------------------------------
(* An edit is of its own shift. *)

\* Of some punches one is first, or last.
LEMMA FirstOrLastIs ==
  ASSUME ShiftPlan, NEW S \in SUBSET Punches, IsFiniteSet(S), S # {}, NEW k
  PROVE  Hp!FirstOrLast(S, k) # {}
  <1> DEFINE At == {p.at : p \in S}
  <1>1. \A p \in S : p.at \in Nat
    BY TimesNat DEF Punches
  <1>2. At \in SUBSET Nat /\ At # {} /\ IsFiniteSet(At)
    <2> DEFINE f == [p \in S |-> p.at]
    <2>1. DOMAIN f = S /\ f = [p \in S |-> f[p]] /\ {f[p] : p \in S} = At
      OBVIOUS
    <2> HIDE DEF f
    <2>2. IsFiniteSet({f[p] : p \in S})
      BY <2>1, ImageFinite
    <2>3. IsFiniteSet(At)
      BY <2>1, <2>2
    <2> QED BY <1>1, <2>3
  <1>3. \E x \in At : \A y \in At : x <= y
    BY <1>2, LeastExists
  <1>4. \E x \in At : \A y \in At : x >= y
    BY <1>2, GreatestExists
  <1>5. PICK p \in S : \A q \in S : p.at <= q.at
    BY <1>3
  <1>6. PICK p2 \in S : \A q \in S : p2.at >= q.at
    BY <1>4
  <1> QED BY <1>5, <1>6 DEF Hp!FirstOrLast

LEMMA CountIs ==
  ASSUME ShiftPlan, NEW P \in SUBSET Punches, IsFiniteSet(P), \A p \in P : EngineOwn(p),
         NEW t \in EditTimes, NEW k \in Hp!Kinds,
         NEW n, n = Hp!New(P, t, k, {}), NEW T, T = Hp!Target(P, t, k, {}), Hp!ShiftOf(n) # {}
  PROVE  Cardinality(Hp!SameShift((P \ T) \cup {n}, n)) <= Hp!Max({1, Cardinality(Hp!SameShift(P, n))})
  <1>1. /\ T \subseteq P /\ n \in Punches /\ n.at = t /\ n.kind = k /\ Hp!ShiftOf(n) = Hp!shift_of_punch(t, k)
        /\ \A p \in T : p.kind = k /\ Hp!ShiftOf(p) = Hp!ShiftOf(n)
    <2>1. PICK r : r = {} /\ n = Hp!New(P, t, k, r) /\ T = Hp!Target(P, t, k, r)
      OBVIOUS
    <2>2. r \in SUBSET P
      BY <2>1
    <2>3. /\ T \subseteq P /\ n \in Punches /\ n.at = t
          /\ r = {} => /\ n.kind = k /\ Hp!ShiftOf(n) = Hp!shift_of_punch(t, k)
                      /\ \A p \in T : p.kind = k /\ (Hp!ShiftOf(n) # {} => Hp!ShiftOf(p) = Hp!ShiftOf(n))
      <3>1. Upserted(P, t, k, r, n, T)
        BY <2>1, <2>2, RowUpsertIs
      <3> QED BY <3>1 DEF Upserted
    <2> QED BY <2>1, <2>3
  <1>2. PICK A : A = Hp!SameShift(P, n)
    OBVIOUS
  <1>3. PICK B : B = Hp!SameShift((P \ T) \cup {n}, n)
    OBVIOUS
  <1>4. A \subseteq P /\ IsFiniteSet(A) /\ Cardinality(A) \in Nat
    BY <1>2, FS_Subset, FS_CardinalityType DEF Hp!SameShift
  <1>5. Hp!Max({1, Cardinality(A)}) \in Int /\ Hp!Max({1, Cardinality(A)}) >= 1 /\ Hp!Max({1, Cardinality(A)}) >= Cardinality(A)
    <2>1. PICK c : c = Cardinality(A)
      OBVIOUS
    <2>2. c \in Int /\ 1 \in Int
      BY <1>4, <2>1
    <2>3. Hp!Max({1, c}) \in {1, c} /\ Hp!Max({1, c}) >= 1 /\ Hp!Max({1, c}) >= c
      BY <2>2, MaxOfTwo
    <2> QED BY <2>1, <2>2, <2>3
  <1>6. CASE T = {}
    <2> DEFINE S == {p \in P : p.kind = k /\ Hp!Distance(p.at, t) <= 36 /\ Hp!ShiftOf(p) = Hp!shift_of_punch(t, k)}
    <2>1. T = Hp!FirstOrLast(S, k)
      BY <1>1 DEF Hp!Target, Hp!_find_existing_checkin
    <2>2. S = {}
      <3>1. S \in SUBSET Punches /\ IsFiniteSet(S)
        BY FS_Subset
      <3> HIDE DEF S
      <3> QED BY <1>6, <2>1, <3>1, FirstOrLastIs
    <2>3. ASSUME NEW p \in A PROVE FALSE
      <3>1. p \in P /\ p.kind = k /\ Hp!ShiftOf(p) = Hp!shift_of_punch(t, k) /\ p.at \in HandTimes
        BY <1>1, <1>2, <2>3 DEF Hp!SameShift, Punches
      <3>2. Hp!shift_of_punch(p.at, k) = Hp!shift_of_punch(t, k) /\ Hp!shift_of_punch(t, k) # {}
        BY <1>1, <3>1 DEF Hp!ShiftOf
      <3>3. t \in HandTimes
        BY DEF HandTimes
      <3>4. Hp!Distance(p.at, t) <= 36
        BY <3>1, <3>2, <3>3 DEF ShiftPlan
      <3> QED BY <2>2, <3>1, <3>4
    <2>4. B \subseteq {n}
      BY <1>2, <1>3, <2>3 DEF Hp!SameShift
    <2>5. IsFiniteSet({n}) /\ Cardinality({n}) = 1
      BY FS_Singleton
    <2>6. Cardinality(B) <= 1 /\ Cardinality(B) \in Nat
      BY <2>4, <2>5, FS_Subset, FS_CardinalityType
    <2> QED BY <1>2, <1>3, <1>5, <2>6
  <1>7. CASE T # {}
    <2>1. PICK p : p \in T
      BY <1>7
    <2>2. p \in A
      BY <1>1, <1>2, <2>1 DEF Hp!SameShift
    <2>3. B \subseteq (A \ {p}) \cup {n}
      BY <1>2, <1>3, <2>1 DEF Hp!SameShift
    <2>4. IsFiniteSet(A \ {p}) /\ Cardinality(A \ {p}) = Cardinality(A) - 1
      BY <1>4, <2>2, FS_RemoveElement
    <2>5. IsFiniteSet((A \ {p}) \cup {n}) /\ Cardinality((A \ {p}) \cup {n}) <= Cardinality(A)
      <3>1. Cardinality((A \ {p}) \cup {n}) = Cardinality(A \ {p}) \/ Cardinality((A \ {p}) \cup {n}) = Cardinality(A \ {p}) + 1
        BY <2>4, FS_AddElement
      <3>2. IsFiniteSet((A \ {p}) \cup {n})
        BY <2>4, FS_AddElement
      <3>3. PICK c : c = Cardinality(A)
        OBVIOUS
      <3>4. c \in Nat /\ Cardinality(A \ {p}) = c - 1
        BY <1>4, <2>4, <3>3
      <3>5. Cardinality((A \ {p}) \cup {n}) <= c
        BY <3>1, <3>4
      <3> QED BY <3>2, <3>3, <3>5
    <2>6. Cardinality(B) <= Cardinality((A \ {p}) \cup {n}) /\ Cardinality(B) \in Nat /\ Cardinality((A \ {p}) \cup {n}) \in Nat
      BY <2>3, <2>5, FS_Subset, FS_CardinalityType
    <2> QED BY <1>2, <1>3, <1>4, <1>5, <2>5, <2>6
  <1> QED BY <1>6, <1>7

LEMMA OwnShiftOnly ==
  ASSUME ShiftPlan, HandTypes, NEW P1, NEW P2, NEW in, NEW out, Edits(P1, P2, in, out, {})
  PROVE  /\ \A p \in punch \ P2 : \E q \in in \cup out : q.kind = p.kind /\ (Hp!ShiftOf(q) # {} => Hp!ShiftOf(q) = Hp!ShiftOf(p))
         /\ \A q \in in \cup out :
              Hp!ShiftOf(q) # {} => Cardinality(Hp!SameShift(P2, q)) <= Hp!Max({1, Cardinality(Hp!SameShift(punch, q))})
  <1>k. "IN" \in Hp!Kinds /\ "OUT" \in Hp!Kinds /\ {} \in SUBSET punch
    BY DEF Hp!Kinds
  <1>1. /\ P1 \in SUBSET Punches /\ IsFiniteSet(P1) /\ \A p \in P1 : EngineOwn(p)
        /\ \A p \in punch \ P1 : \E q \in in : q.kind = p.kind /\ (Hp!ShiftOf(q) # {} => Hp!ShiftOf(q) = Hp!ShiftOf(p))
        /\ \A q \in in : /\ q.kind = "IN"
                         /\ Hp!ShiftOf(q) # {} => Cardinality(Hp!SameShift(P1, q)) <= Hp!Max({1, Cardinality(Hp!SameShift(punch, q))})
        /\ \A q : q.kind = "OUT" => Hp!SameShift(P1, q) = Hp!SameShift(punch, q)
    <2>1. CASE P1 = punch /\ in = {}
      BY <2>1 DEF HandTypes
    <2>2. ASSUME NEW a \in EditTimes, EditsIn(P1, a, in) PROVE <1>1!:
      <3>1. PICK n, T : n = Hp!New(punch, a, "IN", {}) /\ T = Hp!Target(punch, a, "IN", {})
        OBVIOUS
      <3>2. /\ T \subseteq punch /\ Hp!_upsert_employee_checkin(punch, a, "IN", {}) = (punch \ T) \cup {n}
            /\ (punch \ T) \cup {n} \in SUBSET Punches /\ IsFiniteSet((punch \ T) \cup {n})
            /\ \A p \in (punch \ T) \cup {n} : EngineOwn(p)
            /\ n.kind = "IN" /\ \A p \in T : p.kind = "IN" /\ (Hp!ShiftOf(n) # {} => Hp!ShiftOf(p) = Hp!ShiftOf(n))
        <4>1. {} \in SUBSET punch /\ "IN" \in Hp!Kinds
          BY <1>k
        <4>2. Upserted(punch, a, "IN", {}, n, T)
          BY <3>1, <4>1, RowUpsertIs DEF HandTypes
        <4> QED BY <4>2 DEF Upserted
      <3>3. P1 = (punch \ T) \cup {n} /\ in = {n}
        BY <2>2, <3>1, <3>2 DEF EditsIn
      <3>4. Hp!ShiftOf(n) # {} => Cardinality(Hp!SameShift((punch \ T) \cup {n}, n)) <= Hp!Max({1, Cardinality(Hp!SameShift(punch, n))})
        BY <1>k, <3>1, CountIs DEF HandTypes
      <3>5. ASSUME NEW q, q.kind = "OUT" PROVE Hp!SameShift(P1, q) = Hp!SameShift(punch, q)
        <4>1. (\A p \in T : p.kind # q.kind) /\ n.kind # q.kind
          BY <3>2, <3>5
        <4>2. Hp!SameShift((punch \ T) \cup {n}, q) = Hp!SameShift(punch, q)
          BY <4>1 DEF Hp!SameShift
        <4> QED BY <3>3, <4>2
      <3> QED BY <3>2, <3>3, <3>4, <3>5
    <2> QED BY <2>1, <2>2 DEF Edits
  <1>2. CASE P2 = P1 /\ out = {}
    BY <1>1, <1>2
  <1>3. ASSUME NEW b \in EditTimes, EditsOut(P1, P2, b, out, {})
        PROVE  /\ \A p \in punch \ P2 : \E q \in in \cup out : q.kind = p.kind /\ (Hp!ShiftOf(q) # {} => Hp!ShiftOf(q) = Hp!ShiftOf(p))
               /\ \A q \in in \cup out :
                    Hp!ShiftOf(q) # {} => Cardinality(Hp!SameShift(P2, q)) <= Hp!Max({1, Cardinality(Hp!SameShift(punch, q))})
    <2>0. {} \cap P1 = {} /\ {} \in SUBSET P1
      OBVIOUS
    <2>1. PICK r, n, T : /\ r = {} /\ n = Hp!New(P1, b, "OUT", r) /\ T = Hp!Target(P1, b, "OUT", r)
                         /\ n = Hp!New(P1, b, "OUT", {}) /\ T = Hp!Target(P1, b, "OUT", {})
      OBVIOUS
    <2>2. /\ T \subseteq P1 /\ Hp!_upsert_employee_checkin(P1, b, "OUT", {}) = (P1 \ T) \cup {n}
          /\ n.kind = "OUT" /\ \A p \in T : p.kind = "OUT" /\ (Hp!ShiftOf(n) # {} => Hp!ShiftOf(p) = Hp!ShiftOf(n))
      <3>1. r \in SUBSET P1 /\ n = Hp!New(P1, b, "OUT", r) /\ T = Hp!Target(P1, b, "OUT", r)
        BY <2>1
      <3>2. P1 \in SUBSET Punches /\ IsFiniteSet(P1) /\ \A p \in P1 : EngineOwn(p)
        BY <1>1
      <3>3. /\ T \subseteq P1 /\ Hp!_upsert_employee_checkin(P1, b, "OUT", r) = (P1 \ T) \cup {n}
            /\ r = {} => n.kind = "OUT" /\ \A p \in T : p.kind = "OUT" /\ (Hp!ShiftOf(n) # {} => Hp!ShiftOf(p) = Hp!ShiftOf(n))
        <4>1. Upserted(P1, b, "OUT", r, n, T)
          BY <1>k, <3>1, <3>2, RowUpsertIs
        <4> QED BY <4>1 DEF Upserted
      <3> QED BY <2>1, <3>3
    <2>3. P2 = (P1 \ T) \cup {n} /\ out = {n}
      BY <1>3, <2>0, <2>1, <2>2 DEF EditsOut
    <2>4. Hp!ShiftOf(n) # {} => Cardinality(Hp!SameShift((P1 \ T) \cup {n}, n)) <= Hp!Max({1, Cardinality(Hp!SameShift(P1, n))})
      BY <1>k, <1>1, <2>1, CountIs
    <2>5. Hp!SameShift(P1, n) = Hp!SameShift(punch, n)
      BY <1>1, <2>2
    <2>6. ASSUME NEW q, q.kind = "IN" PROVE Hp!SameShift(P2, q) = Hp!SameShift(P1, q)
      <3>1. (\A p \in T : p.kind # q.kind) /\ n.kind # q.kind
        BY <2>2, <2>6
      <3>2. Hp!SameShift((P1 \ T) \cup {n}, q) = Hp!SameShift(P1, q)
        BY <3>1 DEF Hp!SameShift
      <3> QED BY <2>3, <3>2
    <2>7. \A p \in punch \ P2 : \E q \in in \cup out : q.kind = p.kind /\ (Hp!ShiftOf(q) # {} => Hp!ShiftOf(q) = Hp!ShiftOf(p))
      BY <1>1, <2>2, <2>3
    <2>8. \A q \in in \cup out :
                    Hp!ShiftOf(q) # {} => Cardinality(Hp!SameShift(P2, q)) <= Hp!Max({1, Cardinality(Hp!SameShift(punch, q))})
      BY <1>1, <2>3, <2>4, <2>5, <2>6
    <2> QED BY <2>7, <2>8
  <1> QED BY <1>1, <1>2, <1>3 DEF Edits

-----------------------------------------------------------------------------
(* The waiver. *)

\* When nothing comes in between and no row is named, an OUT of an edit is of the shift it carries, the tickets seen
\* before the waiver are those there are, and the waiver leaves none of the allowance behind.
Owed(p, s) ==
  /\ edit.step = "waive" => edit.was[s] = ticket[s]
  /\ edit.step = "recalc" /\ ~paid /\ Start[s] <= p.at /\ p.at <= End[s] + Hp!_OUT_AFTER_PLANNED_END
     /\ edit.was[s] \in Hp!_MANUAL_OUT_WAIVABLE => ticket[s] = "Waived"
OwnOuts == edit # Hp!NoEdit => \A p \in edit.out : p.kind = "OUT" /\ OwnShift(p) /\ \A s \in Hp!ShiftOf(p) : Owed(p, s)
WaivesOwn == ~overlap /\ ~named => (\A p \in punch : OwnShift(p)) /\ OwnOuts

LEMMA ShiftOfAre == \A p : Hp!ShiftOf(p) \subseteq Shifts
  BY DEF Hp!ShiftOf, Hp!shift_of_punch

LEMMA WaiveIs ==
  ASSUME ShiftPlan, HandTypes, ~overlap, ~named, OwnOuts, Hp!_waive_checkout_miss_for_manual_out
  PROVE  OwnOuts'
  <1>1. /\ edit.step = "waive" /\ edit' = [edit EXCEPT !.step = "recalc"]
        /\ UNCHANGED <<punch, flag, due, locked, paid, overlap, named>>
    BY DEF Hp!_waive_checkout_miss_for_manual_out
  <1>2. edit # Hp!NoEdit /\ edit \in Asked
    BY <1>1 DEF Hp!NoEdit, HandTypes
  <1>3. edit'.out = edit.out /\ edit'.was = edit.was /\ edit'.step = "recalc"
    BY <1>1, <1>2 DEF Asked
  <1>4. ASSUME NEW p \in edit.out, NEW s \in Hp!ShiftOf(p), ~paid, Start[s] <= p.at,
               p.at <= End[s] + Hp!_OUT_AFTER_PLANNED_END, edit.was[s] \in Hp!_MANUAL_OUT_WAIVABLE
        PROVE  ticket'[s] = "Waived"
    <2>1. p.kind = "OUT" /\ OwnShift(p) /\ edit.was[s] = ticket[s]
      BY <1>1, <1>2 DEF OwnOuts, Owed
    <2>2. s \in Shifts /\ ticket[s] \in Hp!_MANUAL_OUT_WAIVABLE
      BY <1>4, <2>1, ShiftOfAre
    <2>3. s \in Hp!_checkout_miss_for_out_log(p)
      <3>1. CASE p.of # 0
        BY <2>1, <3>1 DEF OwnShift, Hp!_checkout_miss_for_out_log
      <3>2. CASE p.of = 0
        <4>1. p.at \in Nat
          BY <1>2, TimesNat DEF Asked, Punches
        <4>2. s \in Hp!shift_of_punch(p.at, "OUT") /\ ticket[s] # "None"
          BY <2>1, <2>2 DEF Hp!ShiftOf, Hp!_MANUAL_OUT_WAIVABLE
        <4>3. PICK t : t = p.at
          OBVIOUS
        <4>4. s \in Hp!_checkout_miss_at(t)
          BY <1>4, <4>1, <4>2, <4>3, NearestOfItsShift
        <4> QED BY <3>2, <4>3, <4>4 DEF Hp!_checkout_miss_for_out_log
      <3> QED BY <3>1, <3>2
    <2>4. s \in UNION {Hp!_checkout_miss_for_out_log(q) : q \in edit.out}
      BY <2>3
    <2> QED BY <1>4, <2>2, <2>4 DEF Hp!_waive_checkout_miss_for_manual_out
  <1> QED BY <1>1, <1>2, <1>3, <1>4 DEF OwnOuts, Owed, OwnShift, Hp!ShiftOf

LEMMA WaivesStep ==
  ASSUME ShiftPlan, HandTypes, WaivesOwn, [Hp!Next]_Hp!vars
  PROVE  WaivesOwn'
  <1>0. CASE UNCHANGED Hp!vars
    BY <1>0 DEF Hp!vars, WaivesOwn, OwnOuts, Owed, OwnShift, Hp!ShiftOf
  <1>1. ASSUME NEW tap \in Taps, Hp!Tap(tap[1], tap[2]) PROVE WaivesOwn'
    <2>1. PICK n : n = Hp!Genuine(tap[1], tap[2])
      OBVIOUS
    <2>2. n.of = 0
      BY <2>1 DEF Hp!Genuine, Hp!Row
    <2>3. (overlap \/ edit = Hp!NoEdit) /\ punch' = punch \cup {n} /\ UNCHANGED <<edit, overlap, named>>
      BY <1>1, <2>1 DEF Hp!Tap, Hp!Alone
    <2> QED BY <2>2, <2>3 DEF WaivesOwn, OwnOuts, OwnShift
  <1>2. ASSUME NEW s \in Shifts, Hp!Recalculate(s) PROVE WaivesOwn'
    BY <1>2 DEF Hp!Recalculate, Hp!Alone, WaivesOwn, OwnOuts, OwnShift
  <1>3. ASSUME NEW s \in Shifts, Hp!CloseSession(s) PROVE WaivesOwn'
    <2>1. PICK n : n = Hp!Row("OUT", End[s], TRUE, s)
      OBVIOUS
    <2>2. OwnShift(n)
      BY <2>1, EngineShift DEF Hp!Row, OwnShift, Hp!ShiftOf
    <2>3. (overlap \/ edit = Hp!NoEdit) /\ punch' = punch \cup {n} /\ UNCHANGED <<edit, overlap, named>>
      BY <1>3, <2>1 DEF Hp!CloseSession, Hp!Alone
    <2> QED BY <2>2, <2>3 DEF WaivesOwn, OwnOuts, OwnShift
  <1>4. ASSUME NEW s \in Shifts, NEW status \in Hp!Statuses, Hp!Decide(s, status) PROVE WaivesOwn'
    BY <1>4 DEF Hp!Decide, Hp!Alone, WaivesOwn, OwnOuts, OwnShift
  <1>5. CASE Hp!Months
    BY <1>5 DEF Hp!Months, Hp!Alone, WaivesOwn, OwnOuts, OwnShift
  <1>6. ASSUME NEW i \in Hp!AtMostOne(EditTimes), NEW o \in Hp!AtMostOne(EditTimes), NEW row \in Hp!AtMostOne(punch),
               Hp!EditPunches(i, o, row)
        PROVE  WaivesOwn'
    <2>1. PICK P1, in, out :
            /\ Edits(P1, punch', in, out, row)
            /\ edit' = [step |-> "waive", in |-> in, out |-> out, row |-> row,
                        was |-> [s \in UNION {Hp!ShiftOf(p) : p \in out} |-> ticket[s]]]
      BY <1>6, EditIs
    <2>2. (row # {} => named) /\ UNCHANGED <<ticket, overlap, named>>
      BY <1>6, EditIs
    <2>3. row \in SUBSET punch
      BY DEF Hp!AtMostOne
    <2>4. ASSUME ~overlap, ~named PROVE (\A p \in punch' : OwnShift(p)) /\ \A p \in out : p.kind = "OUT" /\ OwnShift(p)
      <3>1. row = {} /\ \A p \in punch : OwnShift(p)
        BY <2>2, <2>4 DEF WaivesOwn
      <3> QED BY <2>1, <2>3, <3>1, EditKeeps
    <2>5. edit'.step = "waive" /\ edit'.out = out
      BY <2>1
    <2>6. ASSUME NEW p \in out, NEW s \in Hp!ShiftOf(p) PROVE edit'.was[s] = ticket'[s]
      BY <2>1, <2>2, <2>6
    <2> QED BY <2>2, <2>4, <2>5, <2>6 DEF WaivesOwn, OwnOuts, Owed, OwnShift, Hp!ShiftOf
  <1>7. CASE Hp!_waive_checkout_miss_for_manual_out
    <2>1. UNCHANGED <<punch, overlap, named>>
      BY <1>7 DEF Hp!_waive_checkout_miss_for_manual_out
    <2> QED BY <1>7, <2>1, WaiveIs DEF WaivesOwn, OwnShift, Hp!ShiftOf
  <1>8. CASE Hp!_sync_recalc_after_checkin
    BY <1>8 DEF Hp!_sync_recalc_after_checkin, WaivesOwn, OwnOuts, OwnShift
  <1> QED BY <1>0, <1>1, <1>2, <1>3, <1>4, <1>5, <1>6, <1>7, <1>8 DEF Hp!Next

\* The steps that begin an edit and end one.
LEMMA EditsBegin ==
  ASSUME HandTypes, [Hp!Next]_Hp!vars
  PROVE  /\ edit = Hp!NoEdit /\ edit' # Hp!NoEdit =>
              \E i, o \in Hp!AtMostOne(EditTimes), row \in Hp!AtMostOne(punch) : Hp!EditPunches(i, o, row)
         /\ edit # Hp!NoEdit /\ edit' = Hp!NoEdit => Hp!_sync_recalc_after_checkin
  <1> DEFINE Begins == \E i, o \in Hp!AtMostOne(EditTimes), row \in Hp!AtMostOne(punch) : Hp!EditPunches(i, o, row)
  <1>1. CASE edit' = edit
    BY <1>1
  <1>2. CASE Begins
    <2>1. edit = Hp!NoEdit
      BY <1>2, SMT DEF Hp!EditPunches
    <2> QED BY <1>2, <2>1
  <1>3. CASE Hp!_waive_checkout_miss_for_manual_out
    <2>1. edit.step = "waive" /\ edit' = [edit EXCEPT !.step = "recalc"]
      BY <1>3 DEF Hp!_waive_checkout_miss_for_manual_out
    <2>2. edit \in Asked
      BY <2>1 DEF Hp!NoEdit, HandTypes
    <2>3. edit'.step = "recalc" /\ edit # Hp!NoEdit
      BY <2>1, <2>2 DEF Asked, Hp!NoEdit
    <2> QED BY <2>3 DEF Hp!NoEdit
  <1>4. CASE Hp!_sync_recalc_after_checkin
    <2>1. edit' = Hp!NoEdit
      BY <1>4 DEF Hp!_sync_recalc_after_checkin
    <2> QED BY <1>4, <2>1
  <1>5. ASSUME NEW s \in Shifts, Hp!Recalculate(s) \/ Hp!CloseSession(s) \/ \E status \in Hp!Statuses : Hp!Decide(s, status)
        PROVE  edit' = edit
    BY <1>5 DEF Hp!Recalculate, Hp!CloseSession, Hp!Decide
  <1>6. ASSUME NEW tap \in Taps, Hp!Tap(tap[1], tap[2]) PROVE edit' = edit
    BY <1>6 DEF Hp!Tap
  <1>7. Hp!Months \/ UNCHANGED Hp!vars => edit' = edit
    BY DEF Hp!Months, Hp!vars
  <1> QED BY <1>1, <1>2, <1>3, <1>4, <1>5, <1>6, <1>7 DEF Hp!Next

\* What an edit of no named row does to the punches (_upsert_employee_checkin).
LEMMA OwnShiftStep ==
  ASSUME ShiftPlan, HandTypes, [Hp!Next]_Hp!vars
  PROVE  Hp!EditsOwnShift
  <1> SUFFICES ASSUME edit = Hp!NoEdit, edit' # Hp!NoEdit, edit'.row = {}
               PROVE  /\ \A p \in punch \ punch' : \E q \in edit'.in \cup edit'.out :
                           q.kind = p.kind /\ (Hp!ShiftOf(q) # {} => Hp!ShiftOf(q) = Hp!ShiftOf(p))
                      /\ \A q \in edit'.in \cup edit'.out :
                           Hp!ShiftOf(q) # {} => Cardinality(Hp!SameShift(punch', q)) <= Hp!Max({1, Cardinality(Hp!SameShift(punch, q))})
    BY HpCounts DEF Hp!EditsOwnShift
  <1>1. PICK i \in Hp!AtMostOne(EditTimes), o \in Hp!AtMostOne(EditTimes), row \in Hp!AtMostOne(punch) : Hp!EditPunches(i, o, row)
    BY EditsBegin
  <1>2. PICK P1, in, out :
          /\ Edits(P1, punch', in, out, row)
          /\ edit' = [step |-> "waive", in |-> in, out |-> out, row |-> row,
                      was |-> [s \in UNION {Hp!ShiftOf(p) : p \in out} |-> ticket[s]]]
    BY <1>1, EditIs
  <1>3. edit'.in = in /\ edit'.out = out /\ row = {}
    BY <1>2
  <1>4. PICK P2 : P2 = punch'
    OBVIOUS
  <1>5. Edits(P1, P2, in, out, {})
    BY <1>2, <1>3, <1>4
  <1>6. /\ \A p \in punch \ P2 : \E q \in in \cup out : q.kind = p.kind /\ (Hp!ShiftOf(q) # {} => Hp!ShiftOf(q) = Hp!ShiftOf(p))
        /\ \A q \in in \cup out :
             Hp!ShiftOf(q) # {} => Cardinality(Hp!SameShift(P2, q)) <= Hp!Max({1, Cardinality(Hp!SameShift(punch, q))})
    BY <1>5, OwnShiftOnly
  <1> QED BY <1>3, <1>4, <1>6

\* The recalculation of an edit finds its waiver made (_waive_checkout_miss_for_manual_out).
LEMMA WaivesAtEnd ==
  ASSUME HandTypes, WaivesOwn, [Hp!Next]_Hp!vars
  PROVE  Hp!HandOutWaives
  <1> SUFFICES ASSUME edit # Hp!NoEdit, edit' = Hp!NoEdit, ~overlap, ~named, ~paid, NEW p \in edit.out, NEW s \in Hp!ShiftOf(p),
                      Start[s] <= p.at, p.at <= End[s] + Hp!_OUT_AFTER_PLANNED_END,
                      edit.was[s] \in {"Pending", "Explained", "Penalised"}
               PROVE  ticket'[s] = "Waived"
    BY DEF Hp!HandOutWaives
  <1>1. Hp!_sync_recalc_after_checkin
    BY EditsBegin
  <1>2. PICK S : edit.step = "recalc" /\ ticket' = Hp!_auto_resolve_checkout_miss(ticket, punch, S)
    BY <1>1 DEF Hp!_sync_recalc_after_checkin
  <1>3. ticket[s] = "Waived"
    BY <1>2 DEF WaivesOwn, OwnOuts, Owed, Hp!_MANUAL_OUT_WAIVABLE
  <1> QED BY <1>2, <1>3, CalculatedIs, ShiftOfAre

\* It finds no engine's OUT at the hour of its own (_upsert_employee_checkin).
LEMMA CountsAtEnd ==
  ASSUME ShiftPlan, NotTheEnd, HandTypes, [Hp!Next]_Hp!vars
  PROVE  Hp!HandOutCounts
  <1> SUFFICES ASSUME edit # Hp!NoEdit, edit' = Hp!NoEdit, NEW p \in edit.out \cap punch, NEW s \in Hp!ShiftOf(p),
                      p \in Hp!LastOut(punch, s), ~Hp!_is_date_locked(Hp!Work(s))
               PROVE  ~flag'[s]
    BY DEF Hp!HandOutCounts
  <1>1. PICK S : S = UNION {Hp!ShiftOf(q) : q \in (edit.in \cup edit.out) \cap punch} /\ flag' = Hp!Calculated(punch, S)
    BY EditsBegin DEF Hp!_sync_recalc_after_checkin
  <1>2. s \in S /\ s \in Shifts
    BY <1>1, ShiftOfAre
  <1>3. flag'[s] = Hp!AutoFlag(punch, s)
    BY <1>1, <1>2, CalculatedIs
  <1>4. ASSUME NEW q \in Hp!LastOut(punch, s), q.auto PROVE FALSE
    <2>1. q \in punch /\ p \in punch /\ q.at >= p.at /\ p.at >= q.at
      <3>1. q \in {r \in Hp!_filter_logs_to_window(punch, s) : r.kind = "OUT"}
            /\ p \in {r \in Hp!_filter_logs_to_window(punch, s) : r.kind = "OUT"}
        BY <1>4 DEF Hp!LastOut, Hp!FirstOrLast
      <3>2. p.at >= q.at /\ q.at >= p.at
        BY <1>4, <3>1 DEF Hp!LastOut, Hp!FirstOrLast
      <3> QED BY <3>1, <3>2 DEF Hp!_filter_logs_to_window
    <2>2. p.at \in Nat /\ q.at \in Nat
      BY <2>1, TimesNat DEF HandTypes, Punches
    <2>3. q.at = p.at
      BY <2>1, <2>2
    <2>4. q.of \in Shifts /\ q.at = End[q.of]
      BY <1>4, <2>1 DEF HandTypes, EngineOwn
    <2>5. p.at \in EditTimes
      BY DEF HandTypes
    <2> QED BY <2>3, <2>4, <2>5 DEF NotTheEnd
  <1> QED BY <1>3, <1>4 DEF Hp!AutoFlag

LEMMA HandTypedAll ==
  ASSUME ShiftPlan
  PROVE  Hp!Spec => []HandTypes
  <1>1. Hp!Init => HandTypes
    BY HandTypedInit
  <1>2. HandTypes /\ [Hp!Next]_Hp!vars => HandTypes'
    BY HandTypedStep
  <1> QED BY <1>1, <1>2, PTL DEF Hp!Spec

\* Punches, tickets, sessions and the edit in progress keep their types.
THEOREM HandTyped ==
  ASSUME ShiftPlan
  PROVE  Hp!Spec => []Hp!TypeOK
  <1>1. HandTypes => Hp!TypeOK
    <2> SUFFICES ASSUME HandTypes PROVE Hp!TypeOK
      OBVIOUS
    <2>1. \A p \in punch : p.kind \in Hp!Kinds /\ p.at \in Nat /\ p.auto \in BOOLEAN /\ p.of \in Shifts \cup {0}
      BY TimesNat DEF HandTypes, Punches
    <2>2. edit.step \in {"none", "waive", "recalc"}
      BY DEF HandTypes, Hp!NoEdit, Asked
    <2>3. {locked, paid, overlap, named} \subseteq BOOLEAN
      BY DEF HandTypes
    <2> QED BY <2>1, <2>2, <2>3 DEF Hp!TypeOK, HandTypes
  <1> QED BY <1>1, HandTypedAll, PTL

\* An edit that names no row takes punches of its own shift and kind away, and leaves a shift with one of the kind no
\* further one (_find_existing_checkin, _upsert_employee_checkin).
THEOREM EditsAreOfTheirShift ==
  ASSUME ShiftPlan
  PROVE  Hp!Spec => [][Hp!EditsOwnShift]_Hp!vars
  <1>1. HandTypes /\ [Hp!Next]_Hp!vars => [Hp!EditsOwnShift]_Hp!vars
    BY OwnShiftStep
  <1> QED BY <1>1, HandTypedAll, PTL DEF Hp!Spec

\* An OUT typed in, inside the allowance of its shift, waives the ticket of that shift before the recalculation could
\* close it (_waive_checkout_miss_for_manual_out).
THEOREM HandOutsWaive ==
  ASSUME ShiftPlan
  PROVE  Hp!Spec => [][Hp!HandOutWaives]_Hp!vars
  <1>1. Hp!Init => WaivesOwn
    BY DEF Hp!Init, WaivesOwn, OwnOuts
  <1>2. HandTypes /\ WaivesOwn /\ [Hp!Next]_Hp!vars => WaivesOwn'
    BY WaivesStep
  <1>3. HandTypes /\ WaivesOwn /\ [Hp!Next]_Hp!vars => [Hp!HandOutWaives]_Hp!vars
    BY WaivesAtEnd
  <1> QED BY <1>1, <1>2, <1>3, HandTypedAll, PTL DEF Hp!Spec

\* After the edit an OUT that is the last of its session is not taken for the OUT of the engine
\* (_upsert_employee_checkin, _sync_recalc_after_checkin).
THEOREM HandOutsCount ==
  ASSUME ShiftPlan, NotTheEnd
  PROVE  Hp!Spec => [][Hp!HandOutCounts]_Hp!vars
  <1>1. HandTypes /\ [Hp!Next]_Hp!vars => [Hp!HandOutCounts]_Hp!vars
    BY CountsAtEnd
  <1> QED BY <1>1, HandTypedAll, PTL DEF Hp!Spec

-----------------------------------------------------------------------------
(* The monthly period. *)

\* No employee's name is that of the period's row, and a work session has a figure.
MonthNames == "period" \notin Employees /\ 1 \in Values

MonthRows  == [Employees -> Mp!Line \cup {Mp!NoLine}]
Ops   == {"generate", "confirm", "adjust", "lock", "unlock"}
MonthHeld  == [op : Ops, lines : SUBSET Employees, new : MonthRows, line : MonthRows, status : Mp!PeriodStatuses,
          fresh : SUBSET (Employees \cup {"period"})]
Calls == {Mp!Idle} \cup MonthHeld
MonthTypes ==
  /\ work \in [Employees -> Values] /\ line \in MonthRows /\ period.status \in Mp!PeriodStatuses
  /\ req \in [Requests -> Calls]

\* What a request is, once it has begun.
MonthShape(q) ==
  /\ q.op = "confirm" => \A e \in q.lines : /\ q.line[e] # Mp!NoLine /\ q.line[e].status # "Locked"
                                            /\ q.new[e] = [q.line[e] EXCEPT !.status = "Confirmed"]
  /\ q.op \in {"generate", "adjust"} =>
       /\ q.status # "Locked"
       /\ \A e \in Employees \ q.lines : q.new[e] = q.line[e]
       /\ \A e \in q.lines : q.new[e] # Mp!NoLine
  /\ q.op = "adjust" => \E e \in q.lines : q.line[e] # Mp!NoLine
  /\ q.op = "lock" => /\ q.status \in {"Generated", "Unlocked"} /\ q.lines = Mp!Lines(q.line)
                      /\ \A e \in q.lines : q.new[e] = [q.line[e] EXCEPT !.status = "Locked"]
  /\ q.op = "unlock" => q.status = "Locked" /\ q.lines \subseteq Mp!Lines(q.line)

\* What its stamps tell: with the period's, no figure has changed since; with a line's, a
\* confirmation's line has not.
MonthCurrent(q) ==
  /\ "period" \in q.fresh => q.status = period.status /\ Mp!Figures(q.line) = Mp!Figures(line)
  /\ q.op = "confirm" => \A e \in q.lines : e \in q.fresh => q.line[e] = line[e]

Totalled == IF period.status \in {"None", "Draft"} THEN Mp!Lines(line) = {}
            ELSE period.total = Mp!rollup_period(line)
AllLocked == period.status = "Locked" => \A e \in Mp!Lines(line) : line[e].status = "Locked"
NoneIsQuiet == period.status = "None" => \A r \in Requests : req[r] = Mp!Idle
MonthInv ==
  /\ MonthTypes /\ Totalled /\ AllLocked /\ NoneIsQuiet
  /\ \A r \in Requests : req[r] # Mp!Idle => MonthShape(req[r]) /\ MonthCurrent(req[r])

-----------------------------------------------------------------------------
(* Lines with the same figures. *)

Like(x, y) == (x = Mp!NoLine <=> y = Mp!NoLine) /\ (x # Mp!NoLine => x.value = y.value)

LEMMA FiguresEqual ==
  ASSUME NEW a, NEW b, \A e \in Employees : Like(a[e], b[e])
  PROVE  Mp!Figures(a) = Mp!Figures(b) /\ Mp!Lines(a) = Mp!Lines(b)
  <1>1. Mp!Lines(a) = Mp!Lines(b)
    BY DEF Mp!Lines, Like
  <1>2. \A e \in Mp!Lines(a) : a[e].value = b[e].value
    BY DEF Mp!Lines, Like
  <1> QED BY <1>1, <1>2 DEF Mp!Figures

LEMMA FiguresSame ==
  ASSUME NEW a, NEW b, Mp!Figures(a) = Mp!Figures(b)
  PROVE  Mp!Lines(a) = Mp!Lines(b) /\ \A e \in Employees : Like(a[e], b[e])
  <1>1. DOMAIN Mp!Figures(a) = Mp!Lines(a) /\ DOMAIN Mp!Figures(b) = Mp!Lines(b)
    BY DEF Mp!Figures
  <1>2. Mp!Lines(a) = Mp!Lines(b)
    BY <1>1
  <1>3. \A e \in Mp!Lines(a) : Mp!Figures(a)[e] = a[e].value /\ Mp!Figures(b)[e] = b[e].value
    BY <1>2 DEF Mp!Figures
  <1> QED BY <1>2, <1>3 DEF Mp!Lines, Like

LEMMA LineFields ==
  ASSUME NEW l \in MonthRows, NEW e \in Employees, l[e] # Mp!NoLine
  PROVE  /\ l[e] \in Mp!Line
         /\ \A st \in Mp!LineStatuses : /\ [l[e] EXCEPT !.status = st] \in Mp!Line
                                        /\ [l[e] EXCEPT !.status = st].status = st
                                        /\ [l[e] EXCEPT !.status = st].value = l[e].value
                                        /\ [l[e] EXCEPT !.status = st] # Mp!NoLine
  <1>1. l[e] \in Mp!Line
    BY DEF MonthRows
  <1>2. ASSUME NEW st \in Mp!LineStatuses
        PROVE  /\ [l[e] EXCEPT !.status = st] \in Mp!Line
               /\ [l[e] EXCEPT !.status = st].status = st
               /\ [l[e] EXCEPT !.status = st].value = l[e].value
    BY <1>1 DEF Mp!Line
  <1>3. \A x \in Mp!Line : x # Mp!NoLine
    BY DEF Mp!Line, Mp!NoLine, Mp!LineStatuses
  <1> QED BY <1>1, <1>2, <1>3

\* Giving some lines another status.
LEMMA SetStatusIs ==
  ASSUME NEW l \in MonthRows, NEW E \in SUBSET Mp!Lines(l), NEW st \in Mp!LineStatuses
  PROVE  /\ Mp!SetStatus(l, E, st) \in MonthRows
         /\ \A e \in Employees : Like(Mp!SetStatus(l, E, st)[e], l[e])
         /\ \A e \in E : /\ Mp!SetStatus(l, E, st)[e] = [l[e] EXCEPT !.status = st]
                         /\ Mp!SetStatus(l, E, st)[e].status = st
         /\ \A e \in Employees \ E : Mp!SetStatus(l, E, st)[e] = l[e]
  <1>1. \A e \in E : e \in Employees /\ l[e] # Mp!NoLine
    BY DEF Mp!Lines
  <1>2. ASSUME NEW e \in E
        PROVE  /\ Mp!SetStatus(l, E, st)[e] = [l[e] EXCEPT !.status = st]
               /\ Mp!SetStatus(l, E, st)[e] \in Mp!Line /\ Mp!SetStatus(l, E, st)[e].status = st
               /\ Like(Mp!SetStatus(l, E, st)[e], l[e])
    <2>1. Mp!SetStatus(l, E, st)[e] = [l[e] EXCEPT !.status = st]
      BY <1>1 DEF Mp!SetStatus
    <2> QED BY <1>1, <2>1, LineFields DEF Like
  <1>3. \A e \in Employees \ E : Mp!SetStatus(l, E, st)[e] = l[e]
    BY DEF Mp!SetStatus
  <1>4. \A e \in Employees : Mp!SetStatus(l, E, st)[e] \in Mp!Line \cup {Mp!NoLine}
    BY <1>2, <1>3 DEF MonthRows
  <1>5. Mp!SetStatus(l, E, st) \in MonthRows
    BY <1>4 DEF Mp!SetStatus, MonthRows
  <1>6. \A e \in Employees : Like(Mp!SetStatus(l, E, st)[e], l[e])
    BY <1>2, <1>3 DEF Like
  <1> QED BY <1>2, <1>3, <1>5, <1>6

-----------------------------------------------------------------------------
(* A request begins. *)

LEMMA BeginKeeps ==
  ASSUME MonthInv, NEW r \in Requests, NEW op \in Ops, NEW E \in SUBSET Employees, NEW new \in MonthRows,
         Mp!Begin(r, op, E, new),
         MonthShape([op |-> op, lines |-> E, new |-> new, line |-> line, status |-> period.status,
                fresh |-> Employees \cup {"period"}])
  PROVE  MonthInv'
  <1>1. PICK q : q = [op |-> op, lines |-> E, new |-> new, line |-> line, status |-> period.status,
                      fresh |-> Employees \cup {"period"}]
    OBVIOUS
  <1>2. q \in MonthHeld /\ MonthShape(q)
    BY <1>1 DEF MonthHeld, MonthInv, MonthTypes
  <1>3. req' = [req EXCEPT ![r] = q] /\ period.status # "None"
        /\ UNCHANGED <<work, changes, period, line, review>>
    BY <1>1 DEF Mp!Begin
  <1>4. MonthTypes'
    BY <1>2, <1>3 DEF MonthInv, MonthTypes, Calls
  <1>5. MonthCurrent(q)
    BY <1>1 DEF MonthCurrent
  <1>6. ASSUME NEW u \in Requests, req'[u] # Mp!Idle PROVE MonthShape(req'[u]) /\ MonthCurrent(req[u])'
    <2>1. CASE u = r
      <3>1. req'[u] = q
        BY <1>3, <2>1 DEF MonthInv, MonthTypes
      <3> QED BY <1>2, <1>3, <1>5, <3>1 DEF MonthCurrent
    <2>2. CASE u # r
      <3>1. req'[u] = req[u]
        BY <1>3, <2>2 DEF MonthInv, MonthTypes
      <3> QED BY <1>3, <1>6, <3>1 DEF MonthInv, MonthCurrent
    <2> QED BY <2>1, <2>2
  <1> QED BY <1>3, <1>4, <1>6 DEF MonthInv, Totalled, AllLocked, NoneIsQuiet

LEMMA UpsertIs ==
  ASSUME MonthTypes
  PROVE  /\ Mp!_upsert_line(line) \in MonthRows
         /\ \A e \in Employees \ Mp!WithSessions : Mp!_upsert_line(line)[e] = line[e]
         /\ \A e \in Mp!WithSessions : Mp!_upsert_line(line)[e] # Mp!NoLine
  <1>1. ASSUME NEW e \in Mp!WithSessions
        PROVE  Mp!_upsert_line(line)[e] \in Mp!Line
    <2>1. e \in Employees /\ work[e] \in Values
      BY DEF Mp!WithSessions, MonthTypes
    <2>2. (IF line[e].status \in {"Confirmed", "Adjusted"} THEN line[e].status ELSE "Draft") \in Mp!LineStatuses
      BY DEF Mp!LineStatuses
    <2>3. \A st \in Mp!LineStatuses : [status |-> st, value |-> work[e]] \in Mp!Line
      BY <2>1 DEF Mp!Line
    <2> QED BY <2>1, <2>2, <2>3 DEF Mp!_upsert_line
  <1>2. \A e \in Employees \ Mp!WithSessions : Mp!_upsert_line(line)[e] = line[e]
    BY DEF Mp!_upsert_line
  <1>3. \A e \in Employees : Mp!_upsert_line(line)[e] \in Mp!Line \cup {Mp!NoLine}
    BY <1>1, <1>2 DEF MonthTypes, MonthRows
  <1>4. Mp!_upsert_line(line) \in MonthRows
    BY <1>3 DEF Mp!_upsert_line, MonthRows
  <1>5. \A x \in Mp!Line : x # Mp!NoLine
    BY DEF Mp!Line, Mp!NoLine, Mp!LineStatuses
  <1> QED BY <1>1, <1>2, <1>4, <1>5

Starts(r) ==
  \/ Mp!GenerateBegin(r) \/ Mp!ConfirmAllBegin(r) \/ Mp!LockBegin(r) \/ Mp!UnlockBegin(r)
  \/ \E e \in Employees : Mp!ConfirmBegin(r, e) \/ \E v \in Values : Mp!AdjustBegin(r, e, v)

LEMMA StartKeeps ==
  ASSUME MonthInv, NEW r \in Requests, Starts(r)
  PROVE  MonthInv'
  <1>0. line \in MonthRows /\ Mp!Lines(line) \in SUBSET Employees
    BY DEF MonthInv, MonthTypes, Mp!Lines
  <1>1. CASE Mp!GenerateBegin(r)
    <2>1. /\ period.status # "Locked" /\ Mp!Begin(r, "generate", Mp!WithSessions, Mp!_upsert_line(line))
          /\ Mp!WithSessions \in SUBSET Employees
      BY <1>1 DEF Mp!GenerateBegin, Mp!WithSessions
    <2>2. PICK new : new = Mp!_upsert_line(line)
      OBVIOUS
    <2>3. /\ new \in MonthRows /\ \A e \in Employees \ Mp!WithSessions : new[e] = line[e]
          /\ \A e \in Mp!WithSessions : new[e] # Mp!NoLine
      BY <2>2, UpsertIs DEF MonthInv
    <2>4. MonthShape([op |-> "generate", lines |-> Mp!WithSessions, new |-> new, line |-> line,
                 status |-> period.status, fresh |-> Employees \cup {"period"}])
      BY <2>1, <2>3 DEF MonthShape
    <2> QED BY <2>1, <2>2, <2>3, <2>4, BeginKeeps DEF Ops
  <1>2. ASSUME NEW E \in SUBSET Mp!Lines(line), \A e \in E : line[e].status # "Locked",
               Mp!Begin(r, "confirm", E, Mp!SetStatus(line, E, "Confirmed"))
        PROVE  MonthInv'
    <2>1. PICK new : new = Mp!SetStatus(line, E, "Confirmed")
      OBVIOUS
    <2>2. new \in MonthRows /\ \A e \in E : new[e] = [line[e] EXCEPT !.status = "Confirmed"]
      BY <1>0, <2>1, SetStatusIs DEF Mp!LineStatuses
    <2>3. \A e \in E : line[e] # Mp!NoLine
      BY DEF Mp!Lines
    <2>4. MonthShape([op |-> "confirm", lines |-> E, new |-> new, line |-> line,
                 status |-> period.status, fresh |-> Employees \cup {"period"}])
      BY <1>2, <2>2, <2>3 DEF MonthShape
    <2> QED BY <1>0, <1>2, <2>1, <2>2, <2>4, BeginKeeps DEF Ops
  <1>3. ASSUME NEW e \in Employees, Mp!ConfirmBegin(r, e) PROVE MonthInv'
    BY <1>2, <1>3 DEF Mp!ConfirmBegin, Mp!Lines
  <1>4. CASE Mp!ConfirmAllBegin(r)
    BY <1>2, <1>4 DEF Mp!ConfirmAllBegin, Mp!Drafts
  <1>5. ASSUME NEW e \in Employees, NEW v \in Values, Mp!AdjustBegin(r, e, v) PROVE MonthInv'
    <2>1. PICK new : new = [line EXCEPT ![e] = [status |-> "Adjusted", value |-> v]]
      OBVIOUS
    <2>2. [status |-> "Adjusted", value |-> v] \in Mp!Line /\ [status |-> "Adjusted", value |-> v] # Mp!NoLine
      BY DEF Mp!Line, Mp!LineStatuses, Mp!NoLine
    <2>3. new \in MonthRows /\ new[e] # Mp!NoLine /\ \A u \in Employees \ {e} : new[u] = line[u]
      BY <1>0, <2>1, <2>2 DEF MonthRows
    <2>4. MonthShape([op |-> "adjust", lines |-> {e}, new |-> new, line |-> line,
                 status |-> period.status, fresh |-> Employees \cup {"period"}])
      BY <1>5, <2>3 DEF MonthShape, Mp!AdjustBegin
    <2> QED BY <1>5, <2>1, <2>3, <2>4, BeginKeeps DEF Ops, Mp!AdjustBegin
  <1>6. CASE Mp!LockBegin(r)
    <2>1. PICK new : new = Mp!SetStatus(line, Mp!Lines(line), "Locked")
      OBVIOUS
    <2>2. new \in MonthRows /\ \A e \in Mp!Lines(line) : new[e] = [line[e] EXCEPT !.status = "Locked"]
      BY <1>0, <2>1, SetStatusIs DEF Mp!LineStatuses
    <2>3. MonthShape([op |-> "lock", lines |-> Mp!Lines(line), new |-> new, line |-> line,
                 status |-> period.status, fresh |-> Employees \cup {"period"}])
      BY <1>6, <2>2 DEF MonthShape, Mp!LockBegin
    <2> QED BY <1>0, <1>6, <2>1, <2>2, <2>3, BeginKeeps DEF Ops, Mp!LockBegin
  <1>7. CASE Mp!UnlockBegin(r)
    <2>1. PICK E : E = {e \in Mp!Lines(line) : line[e].status = "Locked"}
      OBVIOUS
    <2>2. MonthShape([op |-> "unlock", lines |-> E, new |-> line, line |-> line,
                 status |-> period.status, fresh |-> Employees \cup {"period"}])
      BY <1>7, <2>1 DEF MonthShape, Mp!UnlockBegin
    <2> QED BY <1>0, <1>7, <2>1, <2>2, BeginKeeps DEF Ops, Mp!UnlockBegin
  <1> QED BY <1>1, <1>3, <1>4, <1>5, <1>6, <1>7 DEF Starts

-----------------------------------------------------------------------------
(* A request ends. *)

\* The other requests lose the stamps of what it saved, and nothing else.
LEMMA DoneReq ==
  ASSUME MonthTypes, NEW r \in Requests, NEW S, NEW l, NEW p, Mp!Done(r, S, l, p)
  PROVE  /\ req' \in [Requests -> Calls]
         /\ \A q \in Requests : req'[q] # Mp!Idle =>
              /\ req[q] # Mp!Idle /\ req[q] \in MonthHeld /\ req'[q] \in MonthHeld
              /\ req'[q].fresh = req[q].fresh \ S
              /\ req'[q].op = req[q].op /\ req'[q].lines = req[q].lines
              /\ req'[q].new = req[q].new /\ req'[q].line = req[q].line
              /\ req'[q].status = req[q].status
  <1> SUFFICES ASSUME NEW q \in Requests
               PROVE  /\ req'[q] \in Calls
                      /\ req'[q] # Mp!Idle =>
                           /\ req[q] # Mp!Idle /\ req[q] \in MonthHeld /\ req'[q] \in MonthHeld
                           /\ req'[q].fresh = req[q].fresh \ S
                           /\ req'[q].op = req[q].op /\ req'[q].lines = req[q].lines
                           /\ req'[q].new = req[q].new /\ req'[q].line = req[q].line
                           /\ req'[q].status = req[q].status
    BY DEF Mp!Done
  <1>1. CASE q = r \/ req[q] = Mp!Idle
    BY <1>1 DEF Mp!Done, Calls
  <1>2. CASE ~(q = r \/ req[q] = Mp!Idle)
    <2>1. req[q] \in MonthHeld
      BY <1>2 DEF MonthTypes, Calls
    <2>2. PICK F : F = req[q].fresh \ S
      OBVIOUS
    <2>3. F \in SUBSET (Employees \cup {"period"}) /\ req'[q] = [req[q] EXCEPT !.fresh = F]
      BY <1>2, <2>1, <2>2 DEF Mp!Done, MonthHeld
    <2>4. [req[q] EXCEPT !.fresh = F] \in MonthHeld
      BY <2>1, <2>3 DEF MonthHeld
    <2> QED BY <1>2, <2>1, <2>2, <2>3, <2>4 DEF MonthHeld, Calls
  <1> QED BY <1>1, <1>2

\* Nor does what they know become wrong: whoever changes a figure saves the period, and whoever
\* writes a line without its stamp writes a locked one.
LEMMA OthersCurrent ==
  ASSUME MonthInv, NEW r \in Requests, NEW S, NEW l \in MonthRows, NEW p, Mp!Done(r, S, l, p),
         "period" \notin S => p.status = period.status /\ Mp!Figures(l) = Mp!Figures(line),
         \A e \in Employees \ S : l[e] = line[e] \/ line[e].status = "Locked",
         NEW q \in Requests, req'[q] # Mp!Idle
  PROVE  MonthShape(req'[q]) /\ MonthCurrent(req[q])'
  <1>1. /\ req[q] # Mp!Idle /\ req[q] \in MonthHeld
        /\ req'[q].fresh = req[q].fresh \ S
        /\ req'[q].op = req[q].op /\ req'[q].lines = req[q].lines
        /\ req'[q].new = req[q].new /\ req'[q].line = req[q].line
        /\ req'[q].status = req[q].status
    BY DoneReq DEF MonthInv
  <1>2. MonthShape(req[q]) /\ MonthCurrent(req[q])
    BY <1>1 DEF MonthInv
  <1>3. MonthShape(req'[q])
    BY <1>1, <1>2 DEF MonthShape
  <1>4. line' = l /\ period' = p
    BY DEF Mp!Done
  <1>5. "period" \in req'[q].fresh => req'[q].status = period'.status /\ Mp!Figures(req'[q].line) = Mp!Figures(line')
    BY <1>1, <1>2, <1>4 DEF MonthCurrent
  <1>6. ASSUME req'[q].op = "confirm", NEW e \in req'[q].lines, e \in req'[q].fresh
        PROVE  req'[q].line[e] = line'[e]
    <2>1. /\ e \in req[q].lines /\ e \in req[q].fresh /\ e \notin S /\ e \in Employees
          /\ req[q].op = "confirm"
      BY <1>1, <1>6 DEF MonthHeld
    <2>2. req[q].line[e] = line[e] /\ line[e].status # "Locked"
      BY <1>2, <2>1 DEF MonthShape, MonthCurrent
    <2> QED BY <1>1, <1>4, <2>1, <2>2
  <1>7. PICK c, f : c = req'[q] /\ f = Mp!Figures(line')
    OBVIOUS
  <1> QED BY <1>3, <1>5, <1>6, <1>7 DEF MonthCurrent, Mp!Figures, Mp!Lines

\* The lines a request writes have the figures of its `new', when the rest has not changed.
LEMMA MergeIs ==
  ASSUME MonthInv, NEW r \in Requests, req[r] # Mp!Idle
  PROVE  /\ Mp!Merge(req[r]) \in MonthRows
         /\ \A e \in Employees \ req[r].lines : Mp!Merge(req[r])[e] = line[e]
         /\ \A e \in req[r].lines : Mp!Merge(req[r])[e] = req[r].new[e]
         /\ req[r] \in MonthHeld /\ MonthShape(req[r]) /\ MonthCurrent(req[r])
  <1>1. req[r] \in MonthHeld /\ MonthShape(req[r]) /\ MonthCurrent(req[r])
    BY DEF MonthInv, MonthTypes, Calls
  <1>2. req[r].new \in MonthRows /\ line \in MonthRows /\ req[r].lines \in SUBSET Employees
    BY <1>1 DEF MonthHeld, MonthInv, MonthTypes
  <1>3. \A e \in Employees : Mp!Merge(req[r])[e] \in Mp!Line \cup {Mp!NoLine}
    BY <1>2 DEF Mp!Merge, MonthRows
  <1>4. Mp!Merge(req[r]) \in MonthRows
    BY <1>3 DEF Mp!Merge, MonthRows
  <1> QED BY <1>1, <1>2, <1>4 DEF Mp!Merge

\* Every other request ends with the same conclusion: what it writes keeps the three facts.
LEMMA MonthEndKeeps ==
  ASSUME MonthInv, NEW r \in Requests, NEW S, NEW l \in MonthRows, NEW p, Mp!Done(r, S, l, p),
         "period" \notin S => p.status = period.status /\ Mp!Figures(l) = Mp!Figures(line),
         \A e \in Employees \ S : l[e] = line[e] \/ line[e].status = "Locked",
         p.status \in Mp!PeriodStatuses \ {"None"},
         Totalled', AllLocked'
  PROVE  MonthInv'
  <1>1. MonthTypes'
    BY DoneReq DEF MonthInv, MonthTypes, Mp!Done
  <1>2. \A q \in Requests : req'[q] # Mp!Idle => MonthShape(req'[q]) /\ MonthCurrent(req[q])'
    BY OthersCurrent
  <1>3. NoneIsQuiet'
    BY DEF NoneIsQuiet, Mp!Done
  <1> QED BY <1>1, <1>2, <1>3 DEF MonthInv

Ends(r) == \/ Mp!generate_lines(r) \/ Mp!confirm_line(r) \/ Mp!adjust_line(r) \/ Mp!lock_period(r)
           \/ Mp!unlock_period(r)

\* A generation and a correction save the period with the total of the lines as they read them.
LEMMA RewriteKeeps ==
  ASSUME MonthNames, MonthInv, NEW r \in Requests, Mp!generate_lines(r) \/ Mp!adjust_line(r)
  PROVE  MonthInv' /\ period.status # "Locked"
  <1>1. req[r] # Mp!Idle /\ req[r].op \in {"generate", "adjust"}
    BY DEF Mp!generate_lines, Mp!adjust_line, Mp!Idle
  <1>2. PICK q, S, l : q = req[r] /\ S = q.lines \cup {"period"} /\ l = Mp!Merge(q)
    OBVIOUS
  <1>3. PICK p : /\ Mp!Done(r, S, l, p) /\ S \subseteq q.fresh
                 /\ p.total = Mp!rollup_period(q.new)
                 /\ p.status = IF q.op = "generate" THEN "Generated" ELSE q.status
    BY <1>2 DEF Mp!generate_lines, Mp!adjust_line, Mp!Saves
  <1>4. /\ l \in MonthRows /\ q \in MonthHeld /\ MonthShape(q) /\ MonthCurrent(q)
        /\ \A e \in Employees \ q.lines : l[e] = line[e]
        /\ \A e \in q.lines : l[e] = q.new[e]
    BY <1>1, <1>2, MergeIs
  <1>5. q.status = period.status /\ Mp!Figures(q.line) = Mp!Figures(line)
    BY <1>2, <1>3, <1>4 DEF MonthCurrent
  <1>6. /\ q.status # "Locked" /\ q.status \in Mp!PeriodStatuses
        /\ \A e \in Employees \ q.lines : q.new[e] = q.line[e]
    BY <1>1, <1>2, <1>4 DEF MonthShape, MonthHeld
  <1>7. \A e \in Employees : Like(l[e], q.new[e])
    <2>1. \A e \in Employees : Like(q.line[e], line[e])
      BY <1>5, FiguresSame
    <2> QED BY <1>4, <1>6, <2>1 DEF Like
  <1>8. Mp!Figures(l) = Mp!Figures(q.new)
    BY <1>7, FiguresEqual
  <1>9. p.status \in Mp!PeriodStatuses \ {"None", "Draft", "Locked"}
    <2>1. CASE q.op = "generate"
      BY <1>3, <2>1 DEF Mp!PeriodStatuses
    <2>2. CASE q.op = "adjust"
      <3>1. PICK e \in q.lines : q.line[e] # Mp!NoLine
        BY <1>4, <2>2 DEF MonthShape
      <3>2. e \in Employees
        BY <1>4 DEF MonthHeld
      <3>3. line[e] # Mp!NoLine
        BY <1>5, <3>1, <3>2, FiguresSame DEF Like
      <3>4. e \in Mp!Lines(line)
        BY <3>2, <3>3 DEF Mp!Lines
      <3>5. period.status \notin {"None", "Draft"}
        BY <3>4 DEF MonthInv, Totalled
      <3> QED BY <1>3, <1>5, <1>6, <2>2, <3>5
    <2> QED BY <1>1, <1>2, <2>1, <2>2
  <1>10. line' = l /\ period' = p
    BY <1>3 DEF Mp!Done
  <1>11. Mp!rollup_period(l) = Mp!rollup_period(q.new)
    BY <1>8 DEF Mp!rollup_period
  <1>12. Totalled' /\ AllLocked'
    <2>1. PICK t : t = Mp!rollup_period(l)
      OBVIOUS
    <2>2. period'.total = Mp!rollup_period(line')
      BY <1>3, <1>10, <1>11
    <2> QED BY <1>9, <1>10, <2>2 DEF Totalled, AllLocked, Mp!rollup_period, Mp!Figures, Mp!Lines
  <1>13. \A e \in Employees \ S : l[e] = line[e] \/ line[e].status = "Locked"
    BY <1>2, <1>4
  <1>14. "period" \in S
    BY <1>2
  <1> QED BY <1>3, <1>4, <1>5, <1>6, <1>9, <1>12, <1>13, <1>14, MonthEndKeeps

\* A confirmation changes no figure, and no line of a locked month.
LEMMA ConfirmKeeps ==
  ASSUME MonthNames, MonthInv, NEW r \in Requests, Mp!confirm_line(r)
  PROVE  MonthInv' /\ period' = period /\ (period.status = "Locked" => line' = line)
  <1>1. req[r] # Mp!Idle
    BY DEF Mp!confirm_line, Mp!Idle
  <1>2. PICK q, l : q = req[r] /\ l = Mp!Merge(q)
    OBVIOUS
  <1>3. Mp!Done(r, q.lines, l, period) /\ q.lines \subseteq q.fresh /\ q.op = "confirm"
    BY <1>2 DEF Mp!confirm_line, Mp!Saves
  <1>4. /\ l \in MonthRows /\ q \in MonthHeld /\ MonthShape(q) /\ MonthCurrent(q)
        /\ \A e \in Employees \ q.lines : l[e] = line[e]
        /\ \A e \in q.lines : l[e] = q.new[e]
    BY <1>1, <1>2, MergeIs
  <1>5. q.lines \in SUBSET Employees /\ line \in MonthRows
    BY <1>4 DEF MonthHeld, MonthInv, MonthTypes
  <1>6. \A e \in q.lines : /\ line[e] # Mp!NoLine /\ line[e].status # "Locked"
                           /\ l[e] = [line[e] EXCEPT !.status = "Confirmed"]
    BY <1>3, <1>4 DEF MonthShape, MonthCurrent
  <1>7. \A e \in Employees : Like(l[e], line[e])
    <2>1. "Confirmed" \in Mp!LineStatuses
      BY DEF Mp!LineStatuses
    <2>2. ASSUME NEW e \in q.lines PROVE Like(l[e], line[e])
      <3>1. e \in Employees /\ line[e] # Mp!NoLine /\ l[e] = [line[e] EXCEPT !.status = "Confirmed"]
        BY <1>5, <1>6
      <3>2. l[e] # Mp!NoLine /\ l[e].value = line[e].value
        BY <1>5, <2>1, <3>1, LineFields
      <3> QED BY <3>1, <3>2 DEF Like
    <2> QED BY <1>4, <2>2 DEF Like
  <1>8. Mp!Figures(l) = Mp!Figures(line) /\ Mp!Lines(l) = Mp!Lines(line)
    BY <1>7, FiguresEqual
  <1>9. line' = l /\ period' = period
    BY <1>3 DEF Mp!Done
  <1>10. ASSUME period.status = "Locked" PROVE l = line
    <2>1. \A e \in q.lines : FALSE
      BY <1>5, <1>6, <1>10 DEF MonthInv, AllLocked, Mp!Lines
    <2>2. \A e \in Employees : l[e] = line[e]
      BY <1>4, <2>1
    <2> QED BY <1>4, <1>5, <2>2 DEF MonthRows
  <1>11. Mp!rollup_period(l) = Mp!rollup_period(line)
    BY <1>8 DEF Mp!rollup_period
  <1>12. Totalled' /\ AllLocked'
    <2>1. AllLocked'
      BY <1>9, <1>10 DEF MonthInv, AllLocked, Mp!Lines
    <2>2. Mp!rollup_period(line)' = Mp!rollup_period(line) /\ Mp!Lines(line)' = Mp!Lines(line)
      BY <1>8, <1>9 DEF Mp!rollup_period, Mp!Figures, Mp!Lines
    <2> QED BY <1>9, <2>1, <2>2 DEF MonthInv, Totalled
  <1>13. period.status # "None" /\ period.status \in Mp!PeriodStatuses
    BY <1>1 DEF MonthInv, NoneIsQuiet, MonthTypes
  <1> QED BY <1>3, <1>4, <1>8, <1>9, <1>10, <1>12, <1>13, MonthEndKeeps

\* The lock writes every line of the month: those it read are those there are.
LEMMA LockKeeps ==
  ASSUME MonthNames, MonthInv, NEW r \in Requests, Mp!lock_period(r)
  PROVE  MonthInv' /\ period.status # "Locked"
  <1>1. req[r] # Mp!Idle
    BY DEF Mp!lock_period, Mp!Idle
  <1>2. PICK q, S, l : q = req[r] /\ S = q.lines \cup {"period"} /\ l = Mp!Merge(q)
    OBVIOUS
  <1>3. PICK p : /\ Mp!Done(r, S, l, p) /\ S \subseteq q.fresh /\ q.op = "lock"
                 /\ p.total = period.total /\ p.status = "Locked"
    BY <1>2 DEF Mp!lock_period, Mp!Saves
  <1>4. /\ l \in MonthRows /\ q \in MonthHeld /\ MonthShape(q) /\ MonthCurrent(q)
        /\ \A e \in Employees \ q.lines : l[e] = line[e]
        /\ \A e \in q.lines : l[e] = q.new[e]
    BY <1>1, <1>2, MergeIs
  <1>5. q.status = period.status /\ Mp!Figures(q.line) = Mp!Figures(line)
    BY <1>2, <1>3, <1>4 DEF MonthCurrent
  <1>6. /\ q.status \in {"Generated", "Unlocked"} /\ q.lines = Mp!Lines(q.line)
        /\ \A e \in q.lines : q.new[e] = [q.line[e] EXCEPT !.status = "Locked"]
    BY <1>3, <1>4 DEF MonthShape
  <1>7. q.line \in MonthRows /\ Mp!Lines(q.line) = Mp!Lines(line) /\ \A e \in Employees : Like(q.line[e], line[e])
    BY <1>4, <1>5, FiguresSame DEF MonthHeld
  <1>8. ASSUME NEW e \in q.lines
        PROVE  l[e].status = "Locked" /\ Like(l[e], line[e])
    <2>1. e \in Employees /\ q.line[e] # Mp!NoLine /\ "Locked" \in Mp!LineStatuses
      BY <1>6 DEF Mp!Lines, Mp!LineStatuses
    <2>2. l[e] = [q.line[e] EXCEPT !.status = "Locked"]
      BY <1>4, <1>6
    <2>3. Like(q.line[e], line[e])
      BY <1>7, <2>1
    <2> QED BY <1>7, <2>1, <2>2, <2>3, LineFields DEF Like
  <1>9. \A e \in Employees : Like(l[e], line[e])
    BY <1>4, <1>8 DEF Like
  <1>10. Mp!Figures(l) = Mp!Figures(line) /\ Mp!Lines(l) = Mp!Lines(line)
    BY <1>9, FiguresEqual
  <1>11. line' = l /\ period' = p
    BY <1>3 DEF Mp!Done
  <1>12. Totalled' /\ AllLocked'
    <2>1. AllLocked'
      BY <1>6, <1>7, <1>8, <1>10, <1>11 DEF AllLocked, Mp!Lines
    <2>2. Mp!rollup_period(line)' = Mp!rollup_period(line)
      BY <1>10, <1>11 DEF Mp!rollup_period, Mp!Figures, Mp!Lines
    <2>3. period.total = Mp!rollup_period(line)
      BY <1>5, <1>6 DEF MonthInv, Totalled
    <2> QED BY <1>3, <1>11, <2>1, <2>2, <2>3 DEF Totalled
  <1>13. /\ \A e \in Employees \ S : l[e] = line[e] \/ line[e].status = "Locked"
         /\ "period" \in S /\ p.status \in Mp!PeriodStatuses \ {"None"}
    BY <1>2, <1>3, <1>4 DEF Mp!PeriodStatuses
  <1> QED BY <1>3, <1>4, <1>5, <1>6, <1>12, <1>13, MonthEndKeeps

\* The unlock writes lines that are locked.
LEMMA UnlockKeeps ==
  ASSUME MonthNames, MonthInv, NEW r \in Requests, Mp!unlock_period(r)
  PROVE  MonthInv' /\ period'.status = "Unlocked"
  <1>1. req[r] # Mp!Idle
    BY DEF Mp!unlock_period, Mp!Idle
  <1>2. PICK q, l : q = req[r] /\ l = Mp!SetStatus(line, q.lines, "Confirmed")
    OBVIOUS
  <1>3. PICK p : /\ Mp!Done(r, {"period"}, l, p) /\ "period" \in q.fresh /\ q.op = "unlock"
                 /\ p.total = period.total /\ p.status = "Unlocked"
    BY <1>2 DEF Mp!unlock_period, Mp!Saves
  <1>4. q \in MonthHeld /\ MonthShape(q) /\ MonthCurrent(q) /\ line \in MonthRows
    BY <1>1, <1>2, MergeIs DEF MonthInv, MonthTypes
  <1>5. q.status = period.status /\ Mp!Figures(q.line) = Mp!Figures(line)
    BY <1>3, <1>4 DEF MonthCurrent
  <1>6. period.status = "Locked" /\ q.lines \in SUBSET Mp!Lines(line)
    BY <1>3, <1>4, <1>5, FiguresSame DEF MonthShape
  <1>7. /\ l \in MonthRows /\ \A e \in Employees : Like(l[e], line[e])
        /\ \A e \in Employees \ q.lines : l[e] = line[e]
    BY <1>2, <1>4, <1>6, SetStatusIs DEF Mp!LineStatuses
  <1>8. Mp!Figures(l) = Mp!Figures(line) /\ Mp!Lines(l) = Mp!Lines(line)
    BY <1>7, FiguresEqual
  <1>9. line' = l /\ period' = p
    BY <1>3 DEF Mp!Done
  <1>10. Totalled' /\ AllLocked'
    <2>1. Mp!rollup_period(line)' = Mp!rollup_period(line)
      BY <1>8, <1>9 DEF Mp!rollup_period, Mp!Figures, Mp!Lines
    <2>2. period.total = Mp!rollup_period(line)
      BY <1>6 DEF MonthInv, Totalled
    <2> QED BY <1>3, <1>9, <2>1, <2>2 DEF Totalled, AllLocked
  <1>11. \A e \in Employees \ {"period"} : l[e] = line[e] \/ line[e].status = "Locked"
    BY <1>6, <1>7 DEF MonthInv, AllLocked
  <1>12. p.status \in Mp!PeriodStatuses \ {"None"}
    BY <1>3 DEF Mp!PeriodStatuses
  <1> QED BY <1>3, <1>7, <1>9, <1>10, <1>11, <1>12, MonthEndKeeps

-----------------------------------------------------------------------------
LEMMA MonthInvInit ==
  ASSUME MonthNames, Mp!Init
  PROVE  MonthInv
  <1>1. Mp!Lines(line) = {}
    BY DEF Mp!Init, Mp!Lines
  <1> QED BY <1>1 DEF Mp!Init, MonthNames, MonthInv, MonthTypes, MonthRows, Calls, Mp!PeriodStatuses, Totalled, AllLocked,
                      NoneIsQuiet

LEMMA InvNext ==
  ASSUME MonthNames, MonthInv, [Mp!Next]_Mp!vars
  PROVE  MonthInv' /\ Mp!Stands
  <1>1. CASE UNCHANGED Mp!vars
    BY <1>1 DEF Mp!vars, MonthInv, MonthTypes, Totalled, AllLocked, NoneIsQuiet, MonthCurrent, Mp!Stands
  <1>2. CASE Mp!create_period
    <2>1. line' = line /\ req' = req /\ period'.status = "Draft" /\ work' = work
      BY <1>2 DEF Mp!create_period
    <2>2. Mp!Lines(line)' = {}
      BY <1>2, <2>1 DEF Mp!create_period, MonthInv, Totalled, Mp!Lines
    <2> QED BY <1>2, <2>1, <2>2 DEF Mp!create_period, MonthInv, MonthTypes, Totalled, AllLocked, NoneIsQuiet,
               Mp!Stands, Mp!PeriodStatuses
  <1>3. CASE Mp!delete_period
    <2>1. Mp!Lines(line)' = {} /\ line' \in MonthRows
      BY <1>3 DEF Mp!delete_period, Mp!Lines, MonthRows
    <2> QED BY <1>3, <2>1 DEF Mp!delete_period, MonthInv, MonthTypes, Totalled, AllLocked, NoneIsQuiet, Mp!Stands,
               Mp!PeriodStatuses, Calls
  <1>4. CASE Mp!delete_payroll_review
    BY <1>4 DEF Mp!delete_payroll_review, MonthInv, MonthTypes, Totalled, AllLocked, NoneIsQuiet, MonthCurrent, Mp!Stands
  <1>5. ASSUME NEW e \in Employees, NEW v \in Values, Mp!WorkChanges(e, v) PROVE MonthInv' /\ Mp!Stands
    BY <1>5 DEF Mp!WorkChanges, MonthInv, MonthTypes, Totalled, AllLocked, NoneIsQuiet, MonthCurrent, Mp!Stands
  <1>6. ASSUME NEW r \in Requests, Mp!Abort(r) PROVE MonthInv' /\ Mp!Stands
    BY <1>6 DEF Mp!Abort, MonthInv, MonthTypes, Totalled, AllLocked, NoneIsQuiet, MonthCurrent, Mp!Stands, Calls
  <1>7. ASSUME NEW r \in Requests, Starts(r) PROVE MonthInv' /\ Mp!Stands
    <2>1. UNCHANGED <<period, line>>
      BY <1>7 DEF Starts, Mp!GenerateBegin, Mp!ConfirmAllBegin, Mp!LockBegin, Mp!UnlockBegin, Mp!ConfirmBegin,
                  Mp!AdjustBegin, Mp!Begin
    <2> QED BY <1>7, <2>1, StartKeeps DEF Mp!Stands
  <1>8. ASSUME NEW r \in Requests, Ends(r) PROVE MonthInv' /\ Mp!Stands
    <2>1. CASE Mp!generate_lines(r) \/ Mp!adjust_line(r) \/ Mp!lock_period(r)
      BY <2>1, RewriteKeeps, LockKeeps DEF Mp!Stands
    <2>2. CASE Mp!confirm_line(r)
      BY <2>2, ConfirmKeeps DEF Mp!Stands
    <2>3. CASE Mp!unlock_period(r)
      BY <2>3, UnlockKeeps DEF Mp!Stands
    <2> QED BY <1>8, <2>1, <2>2, <2>3 DEF Ends
  <1> QED BY <1>1, <1>2, <1>3, <1>4, <1>5, <1>6, <1>7, <1>8 DEF Mp!Next, Starts, Ends

\* The lines of a locked month are locked and its total is theirs, whatever generations,
\* confirmations, corrections, locks and unlocks overlapped (lock_period, _apply_rollup).
THEOREM LockedAgree ==
  ASSUME MonthNames
  PROVE Mp!Spec => []Mp!LockedLinesAgree
  <1>1. Mp!Init => MonthInv
    BY MonthInvInit
  <1>2. MonthInv /\ [Mp!Next]_Mp!vars => MonthInv'
    BY InvNext
  <1>3. MonthInv => Mp!LockedLinesAgree
    BY DEF MonthInv, Totalled, AllLocked, Mp!LockedLinesAgree
  <1> QED BY <1>1, <1>2, <1>3, PTL DEF Mp!Spec

\* What payroll reads of a locked month does not change before it is unlocked: a request that
\* was on its way when the month was locked writes nothing (check_if_latest).
THEOREM LockedMonthStands ==
  ASSUME MonthNames
  PROVE Mp!Spec => Mp!LockedStands
  <1>1. Mp!Init => MonthInv
    BY MonthInvInit
  <1>2. MonthInv /\ [Mp!Next]_Mp!vars => MonthInv' /\ [Mp!Stands]_Mp!vars
    BY InvNext
  <1> QED BY <1>1, <1>2, PTL DEF Mp!Spec, Mp!LockedStands

-----------------------------------------------------------------------------
\* The sum of a function is that of its partial sums.
LEMMA SumFunctionIs ==
  ASSUME NEW S, IsFiniteSet(S), NEW G \in [S -> Int]
  PROVE  Mp!SumFunction(G) = SumOf(S, G)
  <1> DEFINE it == CHOOSE f : f = [s \in SUBSET S |-> IF s = {} THEN 0 ELSE LET x == CHOOSE x \in s : TRUE IN G[x] + f[s \ {x}]]
  <1>0. DOMAIN G = S
    OBVIOUS
  <1>1. Mp!SumFunction(G) = it[S]
    BY <1>0 DEF Mp!SumFunction, Mp!SumFunctionOnSet, Mp!FoldFunctionOnSet, Mp!MapThenFoldSet
  <1>3. PICK f \in [SUBSET S -> Int] :
           PartialSums(f, S, G)
    BY SumExists
  <1>p. ASSUME NEW s \in SUBSET S, s # {} PROVE PickOf(S)[s] = (CHOOSE x \in s : TRUE)
    BY <1>p, Picks
  <1>4. f = [s \in SUBSET S |-> IF s = {} THEN 0 ELSE LET x == CHOOSE x \in s : TRUE IN G[x] + f[s \ {x}]]
    <2>1. \A s \in SUBSET S : (IF s = {} THEN 0 ELSE G[PickOf(S)[s]] + f[s \ {PickOf(S)[s]}])
                             = (IF s = {} THEN 0 ELSE LET x == CHOOSE x \in s : TRUE IN G[x] + f[s \ {x}])
      BY <1>p
    <2> QED BY <1>3, <2>1 DEF PartialSums
  <1>5. it = [s \in SUBSET S |-> IF s = {} THEN 0 ELSE LET x == CHOOSE x \in s : TRUE IN G[x] + it[s \ {x}]]
    BY <1>4
  <1>6. it[{}] = 0 /\ \A s \in SUBSET S : s # {} => it[s] = G[PickOf(S)[s]] + it[s \ {PickOf(S)[s]}]
    <2> HIDE DEF it
    <2>1. it[{}] = 0
      BY <1>5
    <2>2. ASSUME NEW s \in SUBSET S, s # {} PROVE it[s] = G[PickOf(S)[s]] + it[s \ {PickOf(S)[s]}]
      <3>1. it[s] = LET x == CHOOSE x \in s : TRUE IN G[x] + it[s \ {x}]
        BY <1>5, <2>2
      <3> QED BY <1>p, <2>2, <3>1
    <2> QED BY <2>1, <2>2
  <1>7. it[S] = SumOf(S, G)
    <2> HIDE DEF it
    <2> QED BY <1>6, SumMatches
  <1> QED BY <1>1, <1>7

\* What the figures of a month may be.
PeriodFigures == Values \subseteq Nat /\ IsFiniteSet(Employees) /\ MaxWork \in Nat

LEMMA RollupNat ==
  ASSUME PeriodFigures, NEW l \in MonthRows
  PROVE  Mp!rollup_period(l) \in Nat
  <1>1. PICK S : S = Mp!Lines(l)
    OBVIOUS
  <1>2. IsFiniteSet(S) /\ \A e \in S : e \in Employees /\ l[e] # Mp!NoLine
    BY <1>1, FS_Subset DEF Mp!Lines, PeriodFigures
  <1>3. \A e \in S : l[e].value \in Nat
    <2> SUFFICES ASSUME NEW e \in S PROVE l[e].value \in Nat
      OBVIOUS
    <2>1. l[e] \in Mp!Line
      BY <1>2, LineFields
    <2> QED BY <2>1 DEF Mp!Line, PeriodFigures
  <1>4. Mp!Figures(l) \in [S -> Nat]
    BY <1>1, <1>3 DEF Mp!Figures
  <1>5. PICK G : G = Mp!Figures(l)
    OBVIOUS
  <1>6. G \in [S -> Int] /\ G \in [S -> Nat]
    BY <1>4, <1>5
  <1>7. Mp!SumFunction(G) = SumOf(S, G)
    BY <1>2, <1>6, SumFunctionIs
  <1>8. SumOf(S, G) \in Nat
    <2>1. Nat \in {Nat, Int}
      OBVIOUS
    <2> QED BY <1>2, <1>6, <2>1, SumOfIs
  <1> QED BY <1>5, <1>7, <1>8 DEF Mp!rollup_period

Counted == changes \in 0..MaxWork /\ review \in BOOLEAN /\ period.total \in Nat

LEMMA CountedStep ==
  ASSUME MonthNames, PeriodFigures, MonthInv, Counted, [Mp!Next]_Mp!vars
  PROVE  Counted'
  <1> USE DEF Counted
  <1>1. CASE UNCHANGED Mp!vars
    BY <1>1 DEF Mp!vars
  <1>2. CASE Mp!create_period
    BY <1>2 DEF Mp!create_period
  <1>3. CASE Mp!delete_period
    BY <1>3 DEF Mp!delete_period
  <1>4. CASE Mp!delete_payroll_review
    BY <1>4 DEF Mp!delete_payroll_review
  <1>5. ASSUME NEW e \in Employees, NEW v \in Values, Mp!WorkChanges(e, v) PROVE Counted'
    BY <1>5 DEF Mp!WorkChanges, PeriodFigures
  <1>6. ASSUME NEW r \in Requests, Mp!Abort(r) PROVE Counted'
    BY <1>6 DEF Mp!Abort
  <1>7. ASSUME NEW r \in Requests, Starts(r) PROVE Counted'
    BY <1>7 DEF Starts, Mp!GenerateBegin, Mp!ConfirmAllBegin, Mp!LockBegin, Mp!UnlockBegin, Mp!ConfirmBegin, Mp!AdjustBegin, Mp!Begin
  <1>8. ASSUME NEW r \in Requests, Ends(r) PROVE Counted'
    <2>1. req[r] # Mp!Idle => Mp!rollup_period(req[r].new) \in Nat
      <3> SUFFICES ASSUME req[r] # Mp!Idle PROVE Mp!rollup_period(req[r].new) \in Nat
        OBVIOUS
      <3>1. req[r].new \in MonthRows
        BY MergeIs DEF MonthHeld
      <3> QED BY <3>1, RollupNat
    <2>2. CASE Mp!generate_lines(r)
      BY <2>1, <2>2 DEF Mp!generate_lines, Mp!Done, Mp!Idle
    <2>3. CASE Mp!adjust_line(r)
      BY <2>1, <2>3 DEF Mp!adjust_line, Mp!Done, Mp!Idle
    <2>4. CASE Mp!lock_period(r)
      BY <2>4 DEF Mp!lock_period, Mp!Done
    <2>5. CASE Mp!confirm_line(r)
      BY <2>5 DEF Mp!confirm_line, Mp!Done
    <2>6. CASE Mp!unlock_period(r)
      BY <2>6 DEF Mp!unlock_period, Mp!Done
    <2> QED BY <1>8, <2>2, <2>3, <2>4, <2>5, <2>6 DEF Ends
  <1> QED BY <1>1, <1>2, <1>3, <1>4, <1>5, <1>6, <1>7, <1>8 DEF Mp!Next, Starts, Ends

\* The rows of a month, its counters and its total have their types.
THEOREM MonthTyped ==
  ASSUME MonthNames, PeriodFigures
  PROVE Mp!Spec => []Mp!TypeOK
  <1>1. Mp!Init => MonthInv /\ Counted
    <2> SUFFICES ASSUME Mp!Init PROVE MonthInv /\ Counted
      OBVIOUS
    <2>1. changes = 0 /\ review = FALSE /\ period.total = 0
      BY DEF Mp!Init
    <2>2. 0 \in 0..MaxWork
      BY DEF PeriodFigures
    <2>3. Counted
      <3>1. review \in BOOLEAN
        BY <2>1, Zenon
      <3>2. period.total \in Nat
        BY <2>1
      <3>3. changes \in 0..MaxWork
        BY <2>1, <2>2, Zenon
      <3> QED BY <3>1, <3>2, <3>3 DEF Counted
    <2>4. MonthInv
      BY MonthInvInit
    <2> QED BY <2>3, <2>4
  <1>2. MonthInv /\ Counted /\ [Mp!Next]_Mp!vars => (MonthInv /\ Counted)'
    BY InvNext, CountedStep
  <1>3. MonthInv /\ Counted => Mp!TypeOK
    BY DEF MonthInv, MonthTypes, Counted, Mp!TypeOK, MonthRows
  <1> QED BY <1>1, <1>2, <1>3, PTL DEF Mp!Spec

-----------------------------------------------------------------------------
(* The end of a month. *)

\* What the figures of a month may be.
PayFigures == Formulas \subseteq Int /\ Adjustments \subseteq Int /\ 0 \in Adjustments /\ IsFiniteSet(Employees) /\ LastDate \in Nat \ {0}

LEMMA LineIs ==
  ASSUME PayFigures, NEW l \in Me!Line
  PROVE  /\ l.is \in BOOLEAN
         /\ l.is => l.formula \in Formulas /\ l.adj \in Adjustments
         /\ l.is => l.formula \in Int /\ l.adj \in Int /\ Me!Net(l) \in Int
  <1>1. CASE l = Me!NoLine
    BY <1>1 DEF Me!NoLine
  <1>2. CASE l \in [is : {TRUE}, formula : Formulas, adj : Adjustments]
    <2>1. l.is = TRUE /\ l.formula \in Formulas /\ l.adj \in Adjustments
      BY <1>2
    <2>2. l.formula \in Int /\ l.adj \in Int
      BY <2>1 DEF PayFigures
    <2>3. Me!Net(l) \in Int
      BY <2>2 DEF Me!Net
    <2>4. l.is \in BOOLEAN
      BY <2>1
    <2> QED BY <2>1, <2>2, <2>3, <2>4
  <1> QED BY <1>1, <1>2 DEF Me!Line

LEMMA RollupIs ==
  ASSUME PayFigures, Me!TypeOK
  PROVE  Me!rollup_lines = SumOf(staff, [e \in staff |-> due[e]])
  <1> DEFINE S == staff
             G == [e \in S |-> due[e]]
             it == CHOOSE f : f = [s \in SUBSET S |-> IF s = {} THEN 0 ELSE LET x == CHOOSE x \in s : TRUE IN due[x] + f[s \ {x}]]
  <1>1. Me!rollup_lines = it[S]
    BY DEF Me!rollup_lines, Me!Sum, Me!MapThenSumSet, Me!MapThenFoldSet, Me!_period_employees
  <1>2. IsFiniteSet(S) /\ G \in [S -> Int] /\ \A e \in S : G[e] = due[e]
    BY FS_Subset DEF PayFigures, Me!TypeOK
  <1>3. PICK f \in [SUBSET S -> Int] :
           PartialSums(f, S, G)
    <2> HIDE DEF S, G
    <2> QED BY <1>2, SumExists
  <1>p. ASSUME NEW s \in SUBSET S, s # {}
        PROVE  PickOf(S)[s] = (CHOOSE x \in s : TRUE) /\ G[PickOf(S)[s]] = due[PickOf(S)[s]]
    <2> HIDE DEF S, G
    <2> QED BY <1>2, <1>p, Picks
  <1>4. f = [s \in SUBSET S |-> IF s = {} THEN 0 ELSE LET x == CHOOSE x \in s : TRUE IN due[x] + f[s \ {x}]]
    <2> HIDE DEF S, G
    <2>1. \A s \in SUBSET S : (IF s = {} THEN 0 ELSE G[PickOf(S)[s]] + f[s \ {PickOf(S)[s]}])
                             = (IF s = {} THEN 0 ELSE LET x == CHOOSE x \in s : TRUE IN due[x] + f[s \ {x}])
      BY <1>p
    <2> QED BY <1>3, <2>1 DEF PartialSums
  <1>5. it = [s \in SUBSET S |-> IF s = {} THEN 0 ELSE LET x == CHOOSE x \in s : TRUE IN due[x] + it[s \ {x}]]
    <2> HIDE DEF S, G
    <2> QED BY <1>4
  <1>6. it[{}] = 0 /\ \A s \in SUBSET S : s # {} => it[s] = G[PickOf(S)[s]] + it[s \ {PickOf(S)[s]}]
    <2> HIDE DEF S, G, it
    <2>1. it[{}] = 0
      BY <1>5
    <2>2. ASSUME NEW s \in SUBSET S, s # {} PROVE it[s] = G[PickOf(S)[s]] + it[s \ {PickOf(S)[s]}]
      <3>1. it[s] = LET x == CHOOSE x \in s : TRUE IN due[x] + it[s \ {x}]
        BY <1>5, <2>2
      <3> QED BY <1>p, <2>2, <3>1
    <2> QED BY <2>1, <2>2
  <1>7. it[S] = SumOf(S, G)
    <2> HIDE DEF S, G, it
    <2> QED BY <1>2, <1>6, SumMatches
  <1> QED BY <1>1, <1>7
LEMMA TotalIs ==
  ASSUME PayFigures, NEW l \in [Employees -> Me!Line]
  PROVE  Me!TotalOf(l) = SumOf({e \in Employees : l[e].is}, [e \in {e \in Employees : l[e].is} |-> Me!Net(l[e])])
  <1> DEFINE S == {e \in Employees : l[e].is}
             G == [e \in S |-> Me!Net(l[e])]
             it == CHOOSE f : f = [s \in SUBSET S |-> IF s = {} THEN 0 ELSE LET x == CHOOSE x \in s : TRUE IN Me!Net(l[x]) + f[s \ {x}]]
  <1>1. Me!TotalOf(l) = it[S]
    BY DEF Me!TotalOf, Me!Sum, Me!MapThenSumSet, Me!MapThenFoldSet
  <1>2. IsFiniteSet(S) /\ G \in [S -> Int] /\ \A e \in S : G[e] = Me!Net(l[e])
    <2>1. S \subseteq Employees /\ IsFiniteSet(S)
      BY FS_Subset DEF PayFigures
    <2>2. ASSUME NEW e \in S PROVE Me!Net(l[e]) \in Int
      <3>1. l[e] \in Me!Line /\ l[e].is
        OBVIOUS
      <3> QED BY <3>1, LineIs
    <2> QED BY <2>1, <2>2
  <1>3. PICK f \in [SUBSET S -> Int] :
           PartialSums(f, S, G)
    <2> HIDE DEF S, G
    <2> QED BY <1>2, SumExists
  <1>p. ASSUME NEW s \in SUBSET S, s # {}
        PROVE  PickOf(S)[s] = (CHOOSE x \in s : TRUE) /\ G[PickOf(S)[s]] = Me!Net(l[PickOf(S)[s]])
    <2> HIDE DEF S, G
    <2> QED BY <1>2, <1>p, Picks
  <1>4. f = [s \in SUBSET S |-> IF s = {} THEN 0 ELSE LET x == CHOOSE x \in s : TRUE IN Me!Net(l[x]) + f[s \ {x}]]
    <2> HIDE DEF S, G
    <2>1. \A s \in SUBSET S : (IF s = {} THEN 0 ELSE G[PickOf(S)[s]] + f[s \ {PickOf(S)[s]}])
                             = (IF s = {} THEN 0 ELSE LET x == CHOOSE x \in s : TRUE IN Me!Net(l[x]) + f[s \ {x}])
      BY <1>p
    <2> QED BY <1>3, <2>1 DEF PartialSums
  <1>5. it = [s \in SUBSET S |-> IF s = {} THEN 0 ELSE LET x == CHOOSE x \in s : TRUE IN Me!Net(l[x]) + it[s \ {x}]]
    <2> HIDE DEF S, G
    <2> QED BY <1>4
  <1>6. it[{}] = 0 /\ \A s \in SUBSET S : s # {} => it[s] = G[PickOf(S)[s]] + it[s \ {PickOf(S)[s]}]
    <2> HIDE DEF S, G, it
    <2>1. it[{}] = 0
      BY <1>5
    <2>2. ASSUME NEW s \in SUBSET S, s # {} PROVE it[s] = G[PickOf(S)[s]] + it[s \ {PickOf(S)[s]}]
      <3>1. it[s] = LET x == CHOOSE x \in s : TRUE IN Me!Net(l[x]) + it[s \ {x}]
        BY <1>5, <2>2
      <3> QED BY <1>p, <2>2, <3>1
    <2> QED BY <2>1, <2>2
  <1>7. it[S] = SumOf(S, G)
    <2> HIDE DEF S, G, it
    <2> QED BY <1>2, <1>6, SumMatches
  <1> QED BY <1>1, <1>7
LEMMA FormulaTotalIs ==
  ASSUME PayFigures, NEW l \in [Employees -> Me!Line]
  PROVE  Me!FormulaTotalOf(l) = SumOf({e \in Employees : l[e].is}, [e \in {e \in Employees : l[e].is} |-> l[e].formula])
  <1> DEFINE S == {e \in Employees : l[e].is}
             G == [e \in S |-> l[e].formula]
             it == CHOOSE f : f = [s \in SUBSET S |-> IF s = {} THEN 0 ELSE LET x == CHOOSE x \in s : TRUE IN l[x].formula + f[s \ {x}]]
  <1>1. Me!FormulaTotalOf(l) = it[S]
    BY DEF Me!FormulaTotalOf, Me!Sum, Me!MapThenSumSet, Me!MapThenFoldSet
  <1>2. IsFiniteSet(S) /\ G \in [S -> Int] /\ \A e \in S : G[e] = l[e].formula
    <2>1. S \subseteq Employees /\ IsFiniteSet(S)
      BY FS_Subset DEF PayFigures
    <2>2. ASSUME NEW e \in S PROVE l[e].formula \in Int
      <3>1. l[e] \in Me!Line /\ l[e].is
        OBVIOUS
      <3> QED BY <3>1, LineIs
    <2> QED BY <2>1, <2>2
  <1>3. PICK f \in [SUBSET S -> Int] :
           PartialSums(f, S, G)
    <2> HIDE DEF S, G
    <2> QED BY <1>2, SumExists
  <1>p. ASSUME NEW s \in SUBSET S, s # {}
        PROVE  PickOf(S)[s] = (CHOOSE x \in s : TRUE) /\ G[PickOf(S)[s]] = l[PickOf(S)[s]].formula
    <2> HIDE DEF S, G
    <2> QED BY <1>2, <1>p, Picks
  <1>4. f = [s \in SUBSET S |-> IF s = {} THEN 0 ELSE LET x == CHOOSE x \in s : TRUE IN l[x].formula + f[s \ {x}]]
    <2> HIDE DEF S, G
    <2>1. \A s \in SUBSET S : (IF s = {} THEN 0 ELSE G[PickOf(S)[s]] + f[s \ {PickOf(S)[s]}])
                             = (IF s = {} THEN 0 ELSE LET x == CHOOSE x \in s : TRUE IN l[x].formula + f[s \ {x}])
      BY <1>p
    <2> QED BY <1>3, <2>1 DEF PartialSums
  <1>5. it = [s \in SUBSET S |-> IF s = {} THEN 0 ELSE LET x == CHOOSE x \in s : TRUE IN l[x].formula + it[s \ {x}]]
    <2> HIDE DEF S, G
    <2> QED BY <1>4
  <1>6. it[{}] = 0 /\ \A s \in SUBSET S : s # {} => it[s] = G[PickOf(S)[s]] + it[s \ {PickOf(S)[s]}]
    <2> HIDE DEF S, G, it
    <2>1. it[{}] = 0
      BY <1>5
    <2>2. ASSUME NEW s \in SUBSET S, s # {} PROVE it[s] = G[PickOf(S)[s]] + it[s \ {PickOf(S)[s]}]
      <3>1. it[s] = LET x == CHOOSE x \in s : TRUE IN l[x].formula + it[s \ {x}]
        BY <1>5, <2>2
      <3> QED BY <1>p, <2>2, <3>1
    <2> QED BY <2>1, <2>2
  <1>7. it[S] = SumOf(S, G)
    <2> HIDE DEF S, G, it
    <2> QED BY <1>2, <1>6, SumMatches
  <1> QED BY <1>1, <1>7
-----------------------------------------------------------------------------
(* What a calculation writes. *)

LEMMA UpsertedIs ==
  ASSUME PayFigures, Me!TypeOK, NEW l \in [Employees -> Me!Line], NEW E \in SUBSET Employees
  PROVE  /\ Me!Upserted(l, E) \in [Employees -> Me!Line]
         /\ \A e \in E : Me!Upserted(l, E)[e].is /\ Me!Upserted(l, E)[e].formula = due[e]
         /\ \A e \in E : l[e].is => Me!Upserted(l, E)[e].adj = l[e].adj
         /\ \A e \in Employees \ E : Me!Upserted(l, E)[e] = l[e]
  <1>1. ASSUME NEW e \in E
        PROVE  /\ Me!Upserted(l, E)[e] \in [is : {TRUE}, formula : Formulas, adj : Adjustments]
               /\ Me!Upserted(l, E)[e].is /\ Me!Upserted(l, E)[e].formula = due[e]
               /\ l[e].is => Me!Upserted(l, E)[e].adj = l[e].adj
    <2>1. l[e] \in Me!Line /\ due[e] \in Formulas /\ 0 \in Adjustments
      BY DEF Me!TypeOK, PayFigures
    <2>2. PICK a : a = IF l[e].is THEN l[e].adj ELSE 0
      OBVIOUS
    <2>3. a \in Adjustments
      BY <2>1, <2>2, LineIs
    <2>4. Me!Upserted(l, E)[e] = [is |-> TRUE, formula |-> due[e], adj |-> a]
      BY <2>2 DEF Me!Upserted
    <2> QED BY <2>1, <2>2, <2>3, <2>4
  <1>2. \A e \in Employees \ E : Me!Upserted(l, E)[e] = l[e]
    BY DEF Me!Upserted
  <1>3. \A e \in Employees : Me!Upserted(l, E)[e] \in Me!Line
    BY <1>1, <1>2 DEF Me!Line
  <1>4. Me!Upserted(l, E) \in [Employees -> Me!Line]
    BY <1>3 DEF Me!Upserted
  <1> QED BY <1>1, <1>2, <1>4

\* The total t is that of the lines l, or that of the formula for the staff.
OfLines(t, l, people) ==
  \/ t = Me!TotalOf(l)
  \/ \E E \in SUBSET {e \in Employees : l[e].is} :
       E \cap people = {} /\ t = Me!FormulaTotalOf([e \in Employees |-> IF e \in E THEN Me!NoLine ELSE l[e]])

LEMMA RollupOfLines ==
  ASSUME PayFigures, Me!TypeOK, NEW l \in [Employees -> Me!Line]
  PROVE  OfLines(Me!rollup_lines, Me!Upserted(l, staff), staff) /\ Me!rollup_lines \in Int
  <1>1. PICK u : u = Me!Upserted(l, staff)
    OBVIOUS
  <1>2. staff \in SUBSET Employees
    BY DEF Me!TypeOK
  <1>3. u \in [Employees -> Me!Line] /\ \A e \in staff : u[e].is /\ u[e].formula = due[e]
    BY <1>1, <1>2, UpsertedIs
  <1>4. PICK E : E = {e \in Employees : u[e].is} \ staff
    OBVIOUS
  <1>5. PICK k : k = [e \in Employees |-> IF e \in E THEN Me!NoLine ELSE u[e]]
    OBVIOUS
  <1>6. k \in [Employees -> Me!Line]
    BY <1>3, <1>5 DEF Me!Line
  <1>7. {e \in Employees : k[e].is} = staff
    <2>1. ASSUME NEW e \in Employees PROVE k[e].is <=> e \in staff
      <3>1. CASE e \in E
        BY <1>4, <1>5, <3>1 DEF Me!NoLine
      <3>2. CASE e \notin E
        BY <1>3, <1>4, <1>5, <3>2
      <3> QED BY <3>1, <3>2
    <2> QED BY <1>2, <2>1
  <1>8. [e \in staff |-> k[e].formula] = [e \in staff |-> due[e]]
    <2>1. ASSUME NEW e \in staff PROVE k[e].formula = due[e]
      BY <1>2, <1>3, <1>4, <1>5
    <2> QED BY <2>1
  <1>9. Me!FormulaTotalOf(k) = SumOf(staff, [e \in staff |-> due[e]])
    BY <1>6, <1>7, <1>8, FormulaTotalIs
  <1>10. Me!rollup_lines = Me!FormulaTotalOf(k)
    BY <1>9, RollupIs
  <1>11. Me!rollup_lines \in Int
    <2>1. IsFiniteSet(staff) /\ [e \in staff |-> due[e]] \in [staff -> Int]
      BY <1>2, FS_Subset DEF PayFigures, Me!TypeOK
    <2> QED BY <2>1, RollupIs, SumOfIs
  <1> QED BY <1>1, <1>4, <1>5, <1>10, <1>11 DEF OfLines

LEMMA TotalInt ==
  ASSUME PayFigures, NEW l \in [Employees -> Me!Line]
  PROVE  Me!TotalOf(l) \in Int
  <1>1. PICK S : S = {e \in Employees : l[e].is}
    OBVIOUS
  <1>2. IsFiniteSet(S)
    BY <1>1, FS_Subset DEF PayFigures
  <1>3. \A e \in S : l[e] \in Me!Line /\ l[e].is
    BY <1>1
  <1>4. \A e \in S : Me!Net(l[e]) \in Int
    BY <1>3, LineIs
  <1>5. [e \in S |-> Me!Net(l[e])] \in [S -> Int]
    BY <1>4
  <1> QED BY <1>1, <1>2, <1>5, TotalIs, SumOfIs

LEMMA Adjusted ==
  ASSUME PayFigures, NEW l \in Me!Line, l.is, NEW a \in Adjustments
  PROVE  /\ [l EXCEPT !.adj = a] \in Me!Line /\ [l EXCEPT !.adj = a].is
         /\ [l EXCEPT !.adj = a].formula = l.formula
  <1>1. l \in [is : {TRUE}, formula : Formulas, adj : Adjustments]
    <2>1. l # Me!NoLine
      BY DEF Me!NoLine
    <2> QED BY <2>1 DEF Me!Line
  <1> QED BY <1>1 DEF Me!Line

-----------------------------------------------------------------------------
(* Every step. *)

\* What a step may do to the periods and lines.
Kept(p) == period'[p] = period[p] /\ line'[p] = line[p]
Restatused(p) ==
  /\ line'[p] = line[p] /\ \E st \in Me!Statuses : period'[p] = [period[p] EXCEPT !.status = st]
  /\ period[p] # Me!NoPeriod
  /\ period'[p].status \in {"Calculated", "Approved"} => period[p].status \in {"Calculated", "Approved"}
Computed(p) == line'[p] = Me!Upserted(line[p], staff) /\ period'[p] = [status |-> "Calculated", total |-> Me!rollup_lines]
BrokenOff(p) == \E E \in SUBSET Employees :
  line'[p] = Me!Upserted(line[p], E) /\ period'[p] = [status |-> "Calculating", total |-> 0]
Corrected(p) == \E e \in Employees, a \in Adjustments :
  /\ line[p][e].is /\ line'[p] = [line[p] EXCEPT ![e].adj = a]
  /\ period'[p] = [period[p] EXCEPT !.total = Me!TotalOf(line'[p])]
Opened(p) == line'[p] = line[p] /\ period'[p] = [status |-> "Draft", total |-> 0]
Dropped(p) == period[p] # Me!NoPeriod /\ line'[p] = [e \in Employees |-> Me!NoLine] /\ period'[p] = Me!NoPeriod
Touched(p) == Restatused(p) \/ Computed(p) \/ BrokenOff(p) \/ Corrected(p) \/ Opened(p) \/ Dropped(p)

EndShape ==
  /\ day' \in 1..LastDate /\ staff' \subseteq staff /\ due' \in [Employees -> Formulas] /\ blockers' \subseteq Me!Blockers
  /\ closing' \in [heart : BOOLEAN, alarm : BOOLEAN]
  /\ \/ period' = period /\ line' = line
     \/ /\ staff' = staff
        /\ \E p \in Periods : /\ period' = [period EXCEPT ![p] = period'[p]] /\ line' = [line EXCEPT ![p] = line'[p]]
                              /\ Touched(p)
                              /\ Me!Existing = {} \/ p \in Me!Existing \/ (period' = period /\ line' = line)

\* Only of a period that is there are there lines.
NoneIsEmpty == \A p \in Periods : period[p] = Me!NoPeriod => \A e \in Employees : ~line[p][e].is
EndBase == Me!TypeOK /\ NoneIsEmpty

LEMMA EndSteps ==
  ASSUME PayFigures, EndBase, [Me!Next]_Me!vars
  PROVE  EndShape
  <1> USE DEF EndBase, Me!TypeOK
  <1>1. ASSUME NEW p \in Periods, Me!create_payroll_review(p) PROVE EndShape
    <2>1. line'[p] = line[p] /\ period'[p] = [status |-> "Draft", total |-> 0] /\ line' = [line EXCEPT ![p] = line'[p]]
      BY <1>1 DEF Me!create_payroll_review
    <2> QED BY <1>1, <2>1 DEF Me!create_payroll_review, EndShape, Touched, Opened
  <1>2. ASSUME NEW p \in Periods, Me!calculate_payroll_review(p) PROVE EndShape
    <2>0. p \in Me!Existing /\ period[p] \in Me!Period
      BY <1>2 DEF Me!calculate_payroll_review, Me!Existing, Me!NoPeriod
    <2>1. CASE Me!Pending = {}
      BY <1>2, <2>0, <2>1 DEF Me!calculate_payroll_review, EndShape, Touched, Computed, Me!_period_employees
    <2>2. CASE Me!Pending # {}
      <3>1. period'[p] = [period[p] EXCEPT !.status = "Calculating"] /\ line' = line
            /\ period' = [period EXCEPT ![p] = period'[p]]
        BY <1>2, <2>2 DEF Me!calculate_payroll_review
      <3>2. period'[p].status = "Calculating" /\ "Calculating" \in Me!Statuses
        BY <2>0, <3>1 DEF Me!Period, Me!Statuses
      <3>3. Restatused(p)
        BY <2>0, <3>1, <3>2 DEF Restatused, Me!Existing
      <3> QED BY <1>2, <2>0, <3>1, <3>3 DEF Me!calculate_payroll_review, EndShape, Touched
    <2> QED BY <2>1, <2>2
  <1>3. ASSUME NEW p \in Periods, Me!approve_review(p) PROVE EndShape
    <2>0. p \in Me!Existing /\ period[p] \in Me!Period
      BY <1>3 DEF Me!approve_review, Me!Existing, Me!NoPeriod
    <2>1. period'[p] = [period[p] EXCEPT !.status = "Approved"] /\ line' = line /\ period' = [period EXCEPT ![p] = period'[p]]
      BY <1>3 DEF Me!approve_review
    <2>2. Restatused(p)
      BY <1>3, <2>0, <2>1 DEF Restatused, Me!Existing, Me!approve_review, Me!Statuses
    <2> QED BY <1>3, <2>0, <2>1, <2>2 DEF Me!approve_review, EndShape, Touched
  <1>4. ASSUME NEW p \in Periods, Me!cancel_payroll_review(p) PROVE EndShape
    <2>0. p \in Me!Existing /\ period[p] \in Me!Period
      BY <1>4 DEF Me!cancel_payroll_review, Me!Existing
    <2>1. period'[p] = [period[p] EXCEPT !.status = "Cancelled"] /\ line' = line /\ period' = [period EXCEPT ![p] = period'[p]]
      BY <1>4 DEF Me!cancel_payroll_review
    <2>2. period'[p].status = "Cancelled" /\ "Cancelled" \in Me!Statuses
      BY <2>0, <2>1 DEF Me!Period, Me!Statuses
    <2>3. Restatused(p)
      BY <2>0, <2>1, <2>2 DEF Restatused, Me!Existing
    <2> QED BY <1>4, <2>0, <2>1, <2>3 DEF Me!cancel_payroll_review, EndShape, Touched
  <1>5. ASSUME NEW p \in Periods, Me!delete_payroll_review(p) PROVE EndShape
    <2>0. p \in Me!Existing
      BY <1>5 DEF Me!delete_payroll_review, Me!Existing, Me!NoPeriod
    <2>1. period'[p] = Me!NoPeriod /\ line'[p] = [e \in Employees |-> Me!NoLine]
          /\ period' = [period EXCEPT ![p] = period'[p]] /\ line' = [line EXCEPT ![p] = line'[p]]
      BY <1>5 DEF Me!delete_payroll_review
    <2> QED BY <1>5, <2>0, <2>1 DEF Me!delete_payroll_review, EndShape, Touched, Dropped, Me!Existing
  <1>6. ASSUME NEW p \in Periods, NEW e \in Employees, NEW a \in Adjustments, Me!Adjust(p, e, a) PROVE EndShape
    <2>0. line[p] \in [Employees -> Me!Line]
      OBVIOUS
    <2>1. line' = [line EXCEPT ![p] = line'[p]] /\ line'[p] = [line[p] EXCEPT ![e].adj = a] /\ line[p][e].is
      BY <1>6 DEF Me!Adjust
    <2>2. period' = [period EXCEPT ![p] = period'[p]] /\ period'[p] = [period[p] EXCEPT !.total = Me!TotalOf(line'[p])]
      BY <1>6 DEF Me!Adjust
    <2>3. Corrected(p)
      BY <2>1, <2>2 DEF Corrected
    <2>4. p \in Me!Existing
      BY <2>1 DEF Me!Existing, NoneIsEmpty
    <2> QED BY <1>6, <2>1, <2>2, <2>3, <2>4 DEF Me!Adjust, EndShape, Touched
  <1>7. ASSUME NEW p \in Periods, Me!auto_close_payroll(p) PROVE EndShape
    <2>1. ASSUME NEW E \in SUBSET Me!_period_employees, Me!Broken(p, E), Me!Existing = {} PROVE EndShape
      <3>1. /\ line'[p] = Me!Upserted(line[p], E) /\ period'[p] = [status |-> "Calculating", total |-> 0]
            /\ period' = [period EXCEPT ![p] = period'[p]] /\ line' = [line EXCEPT ![p] = line'[p]]
            /\ closing' = Me!Quiet
        BY <2>1 DEF Me!Broken
      <3>2. E \in SUBSET Employees
        BY DEF Me!_period_employees
      <3>3. BrokenOff(p)
        BY <3>1, <3>2 DEF BrokenOff
      <3> QED BY <1>7, <2>1, <3>1, <3>3 DEF Me!auto_close_payroll, EndShape, Touched, Me!Quiet
    <2>2. ASSUME UNCHANGED <<period, line>>, closing' \in [heart : BOOLEAN, alarm : BOOLEAN] PROVE EndShape
      BY <1>7, <2>2 DEF Me!auto_close_payroll, EndShape
    <2>3. ASSUME Me!Existing = {}, line' = [line EXCEPT ![p] = Me!Upserted(@, Me!_period_employees)],
                 period' = [period EXCEPT ![p] = [status |-> "Calculated", total |-> Me!rollup_lines]],
                 closing' = [heart |-> TRUE, alarm |-> FALSE]
          PROVE  EndShape
      BY <1>7, <2>3 DEF Me!auto_close_payroll, EndShape, Touched, Computed, Me!_period_employees
    <2>4. CASE Me!Existing # {} /\ closing' = [heart |-> TRUE, alarm |-> FALSE] /\ UNCHANGED <<period, line>>
      BY <2>2, <2>4
    <2>5. CASE closing' = [heart |-> FALSE, alarm |-> day > AlarmDay] /\ UNCHANGED <<period, line>>
      BY <2>2, <2>5
    <2> QED BY <1>7, <2>1, <2>2, <2>3, <2>4, <2>5 DEF Me!auto_close_payroll
  <1>8. CASE Me!NextDay
    BY <1>8 DEF Me!NextDay, EndShape, PayFigures
  <1>9. ASSUME NEW e \in Employees, Me!Leaves(e) PROVE EndShape
    BY <1>9 DEF Me!Leaves, EndShape
  <1>10. ASSUME NEW e \in Employees, NEW n \in Formulas, Me!Turns(e, n) PROVE EndShape
    BY <1>10 DEF Me!Turns, EndShape
  <1>11. ASSUME NEW b \in Me!Blockers, Me!Settles(b) PROVE EndShape
    BY <1>11 DEF Me!Settles, EndShape
  <1>12. ASSUME NEW b \in Me!Blockers, Me!Raises(b) PROVE EndShape
    BY <1>12 DEF Me!Raises, EndShape
  <1>13. CASE UNCHANGED Me!vars
    BY <1>13 DEF Me!vars, EndShape
  <1> QED BY <1>1, <1>2, <1>3, <1>4, <1>5, <1>6, <1>7, <1>8, <1>9, <1>10, <1>11, <1>12, <1>13 DEF Me!Next

LEMMA PeriodIs ==
  /\ Me!NoPeriod.status = "None" /\ Me!NoPeriod.total = 0
  /\ \A t \in Int, st \in Me!Statuses : /\ [status |-> st, total |-> t] \in Me!Period
                                        /\ [status |-> st, total |-> t] # Me!NoPeriod
                                        /\ [status |-> st, total |-> t].status = st
                                        /\ [status |-> st, total |-> t].total = t
  /\ \A q \in Me!Period, t \in Int, st \in Me!Statuses :
       /\ q # Me!NoPeriod /\ q.status \in Me!Statuses /\ q.total \in Int
       /\ [q EXCEPT !.status = st] \in Me!Period /\ [q EXCEPT !.status = st].status = st /\ [q EXCEPT !.status = st].total = q.total
       /\ [q EXCEPT !.total = t] \in Me!Period /\ [q EXCEPT !.total = t].status = q.status /\ [q EXCEPT !.total = t].total = t
  BY DEF Me!Period, Me!NoPeriod, Me!Statuses

\* What a touched period and its lines are then.
LEMMA TouchedIs ==
  ASSUME PayFigures, EndBase, NEW p \in Periods, Touched(p), p \in Me!Existing \/ Opened(p) \/ Computed(p) \/ BrokenOff(p)
  PROVE  /\ period'[p] \in Me!Period \cup {Me!NoPeriod} /\ line'[p] \in [Employees -> Me!Line]
         /\ period'[p] = Me!NoPeriod => \A e \in Employees : ~line'[p][e].is
         /\ Me!TotalsAreOfLines /\ period'[p].status \in {"Calculated", "Approved"} => OfLines(period'[p].total, line'[p], staff)
         /\ \A e \in Employees : line'[p][e].is /\ line[p][e].is /\ line'[p][e].formula # line[p][e].formula
              => line'[p][e].adj = line[p][e].adj
  <1>0. /\ line[p] \in [Employees -> Me!Line] /\ period[p] \in Me!Period \cup {Me!NoPeriod} /\ staff \in SUBSET Employees
        /\ p \in Me!Existing => period[p] \in Me!Period
    BY DEF EndBase, Me!TypeOK, Me!Existing
  <1>n. {"Calculating", "Calculated", "Draft"} \subseteq Me!Statuses /\ 0 \in Int
    BY DEF Me!Statuses
  <1>1. CASE Restatused(p)
    <2>1. PICK st \in Me!Statuses : period'[p] = [period[p] EXCEPT !.status = st]
      BY <1>1 DEF Restatused
    <2>2. period[p] \in Me!Period
      BY <1>0, <1>1 DEF Restatused
    <2>3. period'[p] \in Me!Period /\ period'[p] # Me!NoPeriod /\ period'[p].total = period[p].total
      <3>1. PICK q \in Me!Period : q = period[p]
        BY <2>2
      <3>2. [q EXCEPT !.status = st] \in Me!Period /\ [q EXCEPT !.status = st].total = q.total
        BY DEF Me!Period
      <3>3. Me!NoPeriod \notin Me!Period
        BY DEF Me!Period, Me!NoPeriod, Me!Statuses
      <3> QED BY <2>1, <3>1, <3>2, <3>3
    <2>4. Me!TotalsAreOfLines /\ period'[p].status \in {"Calculated", "Approved"} => OfLines(period[p].total, line[p], staff)
      BY <1>1 DEF Restatused, Me!TotalsAreOfLines, OfLines, Me!Held
    <2> QED BY <1>0, <1>1, <2>3, <2>4 DEF Restatused
  <1>2. CASE Computed(p)
    <2>1. line'[p] = Me!Upserted(line[p], staff) /\ period'[p] = [status |-> "Calculated", total |-> Me!rollup_lines]
      BY <1>2 DEF Computed
    <2>2. OfLines(Me!rollup_lines, line'[p], staff) /\ Me!rollup_lines \in Int
      BY <1>0, <2>1, RollupOfLines DEF EndBase
    <2>3. /\ line'[p] \in [Employees -> Me!Line] /\ \A e \in staff : line[p][e].is => line'[p][e].adj = line[p][e].adj
          /\ \A e \in Employees \ staff : line'[p][e] = line[p][e]
      BY <1>0, <2>1, UpsertedIs DEF EndBase
    <2>4. period'[p] \in Me!Period /\ period'[p] # Me!NoPeriod /\ period'[p].total = Me!rollup_lines
      <3>1. PICK t : t = Me!rollup_lines
        OBVIOUS
      <3>2. t \in Int /\ period'[p] = [status |-> "Calculated", total |-> t]
        BY <2>1, <2>2, <3>1
      <3> QED BY <1>n, <3>1, <3>2, PeriodIs
    <2> QED BY <2>2, <2>3, <2>4
  <1>3. CASE BrokenOff(p)
    <2>1. PICK E \in SUBSET Employees : line'[p] = Me!Upserted(line[p], E) /\ period'[p] = [status |-> "Calculating", total |-> 0]
      BY <1>3 DEF BrokenOff
    <2>3. /\ line'[p] \in [Employees -> Me!Line] /\ \A e \in E : line[p][e].is => line'[p][e].adj = line[p][e].adj
          /\ \A e \in Employees \ E : line'[p][e] = line[p][e]
      BY <1>0, <2>1, UpsertedIs DEF EndBase
    <2>4. period'[p] \in Me!Period /\ period'[p] # Me!NoPeriod /\ period'[p].status = "Calculating"
      BY <1>n, <2>1, PeriodIs
    <2> QED BY <2>3, <2>4
  <1>4. CASE Corrected(p)
    <2>1. PICK e \in Employees, a \in Adjustments :
            /\ line[p][e].is /\ line'[p] = [line[p] EXCEPT ![e].adj = a]
            /\ period'[p] = [period[p] EXCEPT !.total = Me!TotalOf(line'[p])]
      BY <1>4 DEF Corrected
    <2>2. line[p][e] \in Me!Line
      BY <1>0
    <2>3. PICK m : m = [line[p][e] EXCEPT !.adj = a]
      OBVIOUS
    <2>4. m \in Me!Line /\ m.is /\ m.formula = line[p][e].formula
      BY <2>1, <2>2, <2>3, Adjusted
    <2>5. line'[p] = [line[p] EXCEPT ![e] = m]
      BY <2>1, <2>3
    <2>6. line'[p] \in [Employees -> Me!Line] /\ line'[p][e] = m /\ \A o \in Employees \ {e} : line'[p][o] = line[p][o]
      BY <1>0, <2>4, <2>5
    <2>7. period[p] # Me!NoPeriod
      BY <2>1 DEF EndBase, NoneIsEmpty
    <2>8. PICK t : t = Me!TotalOf(line'[p])
      OBVIOUS
    <2>9. t \in Int
      BY <2>6, <2>8, TotalInt
    <2>10. period'[p] \in Me!Period /\ period'[p] # Me!NoPeriod /\ period'[p].total = t
      <3>1. PICK q \in Me!Period : q = period[p]
        BY <1>0, <2>7
      <3>2. period'[p] = [q EXCEPT !.total = t]
        BY <2>1, <2>8, <3>1
      <3>3. [q EXCEPT !.total = t] \in Me!Period /\ [q EXCEPT !.total = t].total = t
        BY <2>9 DEF Me!Period
      <3>4. Me!NoPeriod \notin Me!Period
        BY DEF Me!Period, Me!NoPeriod, Me!Statuses
      <3> QED BY <3>2, <3>3, <3>4
    <2>11. OfLines(period'[p].total, line'[p], staff)
      BY <2>8, <2>10 DEF OfLines
    <2>12. \A o \in Employees : line'[p][o].is /\ line[p][o].is /\ line'[p][o].formula # line[p][o].formula
              => line'[p][o].adj = line[p][o].adj
      BY <2>4, <2>6
    <2> QED BY <2>6, <2>10, <2>11, <2>12
  <1>5. CASE Opened(p)
    <2>1. period'[p] = [status |-> "Draft", total |-> 0] /\ line'[p] = line[p]
      BY <1>5 DEF Opened
    <2>2. period'[p] \in Me!Period /\ period'[p] # Me!NoPeriod /\ period'[p].status = "Draft"
      BY <1>n, <2>1, PeriodIs
    <2> QED BY <1>0, <2>1, <2>2
  <1>6. CASE Dropped(p)
    <2>1. Me!NoLine \in Me!Line /\ ~Me!NoLine.is
      BY DEF Me!Line, Me!NoLine
    <2>2. period'[p] = Me!NoPeriod /\ line'[p] = [e \in Employees |-> Me!NoLine]
      BY <1>6 DEF Dropped
    <2> QED BY <2>1, <2>2, PeriodIs
  <1> QED BY <1>1, <1>2, <1>3, <1>4, <1>5, <1>6 DEF Touched

\* One period at most.
One == \A p, q \in Me!Existing : p = q

LEMMA EndInvStep ==
  ASSUME PayFigures, EndBase, [Me!Next]_Me!vars
  PROVE  /\ EndBase'
         /\ One => One'
         /\ Me!TotalsAreOfLines => Me!TotalsAreOfLines'
         /\ Me!AdjustmentStays
  <1>1. EndShape
    BY EndSteps
  <1>2. CASE period' = period /\ line' = line
    <2>1. EndBase'
      BY <1>1, <1>2 DEF EndBase, Me!TypeOK, NoneIsEmpty, EndShape
    <2>2. One => One'
      BY <1>2 DEF One, Me!Existing
    <2>3. Me!TotalsAreOfLines => Me!TotalsAreOfLines'
      <3> SUFFICES ASSUME Me!TotalsAreOfLines, NEW p \in Periods, period[p].status \in {"Calculated", "Approved"}
                   PROVE  \/ period[p].total = Me!TotalOf(line[p])
                          \/ \E E \in SUBSET Me!Held(p) :
                              /\ E \cap staff' = {}
                              /\ period[p].total = Me!FormulaTotalOf([e \in Employees |-> IF e \in E THEN Me!NoLine ELSE line[p][e]])
        BY <1>2, SMTT(30) DEF Me!TotalsAreOfLines, Me!Held
      <3>1. staff' \subseteq staff
        BY <1>1 DEF EndShape
      <3> QED BY <3>1 DEF Me!TotalsAreOfLines
    <2>4. Me!AdjustmentStays
      BY <1>2 DEF Me!AdjustmentStays
    <2> QED BY <2>1, <2>2, <2>3, <2>4
  <1>3. CASE ~(period' = period /\ line' = line)
    <2>1. PICK p \in Periods : /\ period' = [period EXCEPT ![p] = period'[p]] /\ line' = [line EXCEPT ![p] = line'[p]]
                               /\ Touched(p) /\ (Me!Existing = {} \/ p \in Me!Existing) /\ staff' = staff
      BY <1>1, <1>3 DEF EndShape
    <2>2. p \in Me!Existing \/ Opened(p) \/ Computed(p) \/ BrokenOff(p)
      <3>1. CASE Restatused(p)
        BY <3>1 DEF Restatused, Me!Existing
      <3>2. CASE Corrected(p)
        BY <3>2 DEF Corrected, EndBase, NoneIsEmpty, Me!Existing
      <3>3. CASE Dropped(p)
        BY <3>3 DEF Dropped, Me!Existing
      <3> QED BY <2>1, <3>1, <3>2, <3>3 DEF Touched
    <2>3. /\ period'[p] \in Me!Period \cup {Me!NoPeriod} /\ line'[p] \in [Employees -> Me!Line]
          /\ period'[p] = Me!NoPeriod => \A e \in Employees : ~line'[p][e].is
          /\ Me!TotalsAreOfLines /\ period'[p].status \in {"Calculated", "Approved"} => OfLines(period'[p].total, line'[p], staff)
          /\ \A e \in Employees : line'[p][e].is /\ line[p][e].is /\ line'[p][e].formula # line[p][e].formula
               => line'[p][e].adj = line[p][e].adj
      BY <2>1, <2>2, TouchedIs
    <2>4. \A q \in Periods \ {p} : period'[q] = period[q] /\ line'[q] = line[q]
      BY <2>1 DEF EndBase, Me!TypeOK
    <2>5. period' \in [Periods -> Me!Period \cup {Me!NoPeriod}] /\ line' \in [Periods -> [Employees -> Me!Line]]
      BY <2>1, <2>3 DEF EndBase, Me!TypeOK
    <2>6. EndBase'
      BY <1>1, <2>3, <2>4, <2>5 DEF EndBase, Me!TypeOK, NoneIsEmpty, EndShape
    <2>7. ASSUME One PROVE One'
      <3>1. \A q \in Periods : period'[q] # Me!NoPeriod => q = p
        BY <2>1, <2>4, <2>7 DEF One, Me!Existing
      <3> QED BY <3>1 DEF One, Me!Existing
    <2>8. ASSUME Me!TotalsAreOfLines PROVE Me!TotalsAreOfLines'
      <3> SUFFICES ASSUME NEW q \in Periods, period'[q].status \in {"Calculated", "Approved"}
                   PROVE  \/ period'[q].total = Me!TotalOf(line'[q])
                          \/ \E E \in SUBSET {e \in Employees : line'[q][e].is} :
                              /\ E \cap staff' = {}
                              /\ period'[q].total = Me!FormulaTotalOf([e \in Employees |-> IF e \in E THEN Me!NoLine ELSE line'[q][e]])
        BY DEF Me!TotalsAreOfLines, Me!Held
      <3>1. CASE q = p
        BY <2>1, <2>3, <2>8, <3>1 DEF OfLines
      <3>2. CASE q # p
        BY <2>1, <2>4, <2>8, <3>2 DEF Me!TotalsAreOfLines, Me!Held
      <3> QED BY <3>1, <3>2
    <2>9. Me!AdjustmentStays
      BY <2>3, <2>4 DEF Me!AdjustmentStays
    <2> QED BY <2>6, <2>7, <2>8, <2>9
  <1> QED BY <1>2, <1>3

LEMMA EndInvInit ==
  ASSUME PayFigures, Me!Init
  PROVE  EndBase /\ One /\ Me!TotalsAreOfLines
  <1>1. Me!NoLine \in Me!Line /\ ~Me!NoLine.is /\ 1 \in 1..LastDate /\ Me!NoPeriod.status = "None"
    BY DEF Me!Line, Me!NoLine, PayFigures, Me!NoPeriod
  <1>2. Me!TypeOK
    BY <1>1 DEF Me!Init, Me!TypeOK, Me!Quiet
  <1>3. NoneIsEmpty
    BY <1>1 DEF Me!Init, NoneIsEmpty
  <1>4. One
    BY DEF Me!Init, One, Me!Existing
  <1>5. Me!TotalsAreOfLines
    BY <1>1 DEF Me!Init, Me!TotalsAreOfLines
  <1> QED BY <1>2, <1>3, <1>4, <1>5 DEF EndBase

\* The days, reviews and lines of the end of a month keep their types.
THEOREM EndTyped ==
  ASSUME PayFigures
  PROVE Me!Spec => []Me!TypeOK
  <1>1. Me!Init => EndBase
    BY EndInvInit
  <1>2. EndBase /\ [Me!Next]_Me!vars => EndBase'
    BY EndInvStep
  <1>3. EndBase => Me!TypeOK
    BY DEF EndBase
  <1> QED BY <1>1, <1>2, <1>3, PTL DEF Me!Spec

\* A month has one review at most, whether HR opens it or the job of the evening (create_payroll_review,
\* auto_close_payroll).
THEOREM MonthReviewedOnce ==
  ASSUME PayFigures
  PROVE Me!Spec => []Me!OnePeriod
  <1>1. Me!Init => EndBase /\ One
    BY EndInvInit
  <1>2. EndBase /\ One /\ [Me!Next]_Me!vars => (EndBase /\ One)'
    BY EndInvStep
  <1>3. One => Me!OnePeriod
    <2> SUFFICES ASSUME One PROVE Cardinality(Me!Existing) <= 1
      BY MeCounts DEF Me!OnePeriod
    <2>1. CASE Me!Existing = {}
      BY <2>1, FS_EmptySet
    <2>2. ASSUME NEW p \in Me!Existing PROVE Cardinality(Me!Existing) <= 1
      <3>1. Me!Existing = {p}
        BY DEF One
      <3> QED BY <3>1, FS_Singleton
    <2> QED BY <2>1, <2>2
  <1> QED BY <1>1, <1>2, <1>3, PTL DEF Me!Spec

\* The total HR approves is the sum of the lines, or of their formulas for those who were there when it was last
\* calculated (_recompute_period_totals, rollup_lines).
THEOREM TotalsHold ==
  ASSUME PayFigures
  PROVE Me!Spec => []Me!TotalsAreOfLines
  <1>1. Me!Init => EndBase /\ Me!TotalsAreOfLines
    BY EndInvInit
  <1>2. EndBase /\ Me!TotalsAreOfLines /\ [Me!Next]_Me!vars => (EndBase /\ Me!TotalsAreOfLines)'
    BY EndInvStep
  <1> QED BY <1>1, <1>2, PTL DEF Me!Spec

\* A calculation leaves what HR has added to a line by hand (_upsert_line).
THEOREM AdjustmentsStay ==
  ASSUME PayFigures
  PROVE Me!Spec => [][Me!AdjustmentStays]_Me!vars
  <1>1. Me!Init => EndBase
    BY EndInvInit
  <1>2. EndBase /\ [Me!Next]_Me!vars => EndBase' /\ Me!AdjustmentStays
    BY EndInvStep
  <1> QED BY <1>1, <1>2, PTL DEF Me!Spec
=============================================================================
