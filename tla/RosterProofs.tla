----------------------------- MODULE RosterProofs -----------------------------
(***************************************************************************)
(* Theorems about Schedule and RosterScreen, for any employees, shifts,      *)
(* assignments, requests, swaps and sets HR works on in bulk: what the rows  *)
(* are (RosterTyped), that nobody is booked twice (NobodyBookedTwice), that  *)
(* every instance has its assignment (NoInstanceOrphaned), and that what the *)
(* screens offer can be done (ScreensKeep).                                  *)
(***************************************************************************)
EXTENDS RosterScreen, FiniteSetTheorems, WellFoundedInduction, TLAPS

-----------------------------------------------------------------------------
(* Numbers and finite sets. *)

\* Some naturals have a least one.
LEMMA LeastExists ==
  ASSUME NEW S \in SUBSET Nat, S # {}
  PROVE  \E x \in S : \A y \in S : x <= y
  <1> DEFINE Less == {p \in Nat \X Nat : p[1] < p[2]}
  <1>1. OpToRel(<, Nat) = Less
    BY Zenon DEF OpToRel
  <1>2. IsWellFoundedOn(Less, Nat)
    BY <1>1, NatLessThanWellFounded, Zenon
  <1>3. PICK x \in S : \A y \in S : <<y, x>> \notin Less
    BY <1>2, WFMin
  <1> SUFFICES ASSUME NEW y \in S PROVE x <= y
    OBVIOUS
  <1>4. x \in Nat /\ y \in Nat /\ <<y, x>> \in Nat \X Nat
    OBVIOUS
  <1>5. ~(y < x)
    BY <1>3, <1>4
  <1> QED BY <1>4, <1>5

\* Finitely many naturals have a greatest one: the one that fewest of them reach.
LEMMA GreatestExists ==
  ASSUME NEW S \in SUBSET Nat, S # {}, IsFiniteSet(S)
  PROVE  \E x \in S : \A y \in S : x >= y
  <1> DEFINE From(x) == {y \in S : y >= x}
             Counts == {Cardinality(From(x)) : x \in S}
  <1>1. \A x \in S : IsFiniteSet(From(x)) /\ Cardinality(From(x)) \in Nat
    BY FS_Subset, FS_CardinalityType
  <1>2. Counts \in SUBSET Nat /\ Counts # {}
    BY <1>1
  <1>3. PICK x \in S : \A y \in S : Cardinality(From(x)) <= Cardinality(From(y))
    <2>1. PICK c \in Counts : \A d \in Counts : c <= d
      BY <1>2, LeastExists
    <2> QED BY <2>1
  <1>4. ASSUME NEW y \in S, y > x PROVE FALSE
    <2>0. x \in Nat /\ y \in Nat
      OBVIOUS
    <2>1. From(y) \subseteq From(x) /\ x \in From(x) /\ x \notin From(y)
      <3>1. ASSUME NEW z \in S, z >= y PROVE z >= x
        <4>1. z \in Nat
          OBVIOUS
        <4> QED BY <1>4, <2>0, <3>1, <4>1
      <3>2. x >= x /\ ~(x >= y)
        BY <1>4, <2>0
      <3> QED BY <3>1, <3>2
    <2>2. From(y) # From(x)
      BY <2>1
    <2>3. Cardinality(From(y)) < Cardinality(From(x))
      BY <1>1, <2>1, <2>2, FS_Subset
    <2> QED BY <1>1, <1>3, <2>3
  <1> QED BY <1>4

\* The values of a function on a finite set are finitely many.
LEMMA ImageFinite ==
  ASSUME NEW S, IsFiniteSet(S), NEW f, DOMAIN f = S, f = [x \in S |-> f[x]]
  PROVE  IsFiniteSet({f[x] : x \in S})
  <1> DEFINE T == {f[x] : x \in S}
  <1>1. f \in Surjection(S, T)
    BY DEF Surjection
  <1> HIDE DEF T
  <1>2. IsFiniteSet(T)
    BY <1>1, FS_Surjection
  <1> QED BY <1>2 DEF T

\* Of some finite sets one is smallest.
LEMMA SmallestSet ==
  ASSUME NEW S, IsFiniteSet(S), NEW Z \in SUBSET SUBSET S, Z # {}
  PROVE  \E s \in Z : /\ IsFiniteSet(s)
                      /\ \A x \in s : s \ {x} \in SUBSET S /\ s \ {x} \notin Z
  <1> DEFINE Sizes == {Cardinality(s) : s \in Z}
  <1>1. \A s \in SUBSET S : IsFiniteSet(s) /\ Cardinality(s) \in Nat
    BY FS_Subset, FS_CardinalityType
  <1>2. Sizes \in SUBSET Nat /\ Sizes # {}
    BY <1>1
  <1>3. PICK s \in Z : \A t \in Z : Cardinality(s) <= Cardinality(t)
    <2>1. PICK c \in Sizes : \A d \in Sizes : c <= d
      BY <1>2, LeastExists
    <2> QED BY <2>1
  <1>4. ASSUME NEW x \in s PROVE s \ {x} \in SUBSET S /\ s \ {x} \notin Z
    <2>1. s \ {x} \in SUBSET S
      OBVIOUS
    <2>2. Cardinality(s \ {x}) = Cardinality(s) - 1
      BY <1>1, FS_RemoveElement
    <2> QED BY <1>1, <1>3, <2>1, <2>2
  <1> QED BY <1>1, <1>4

\* What a fold over a finite set needs to be defined.
Recurs(it, S, base, F, pick) ==
  it = [s \in SUBSET S |-> IF s = {} THEN base ELSE F[pick[s], it[s \ {pick[s]}]]]

\* Two functions of the subsets of S that step alike.
StepAlike(S, a, b) ==
  /\ a[{}] = b[{}]
  /\ \A s \in SUBSET S : s # {} => \E x \in s : a[s \ {x}] = b[s \ {x}] => a[s] = b[s]

\* Two such folds that step alike are the same.
LEMMA FoldUnique ==
  ASSUME NEW S, IsFiniteSet(S), NEW a, NEW b, StepAlike(S, a, b)
  PROVE  \A s \in SUBSET S : a[s] = b[s]
  <1>1. PICK W : W = {s \in SUBSET S : a[s] # b[s]}
    OBVIOUS
  <1>2. SUFFICES ASSUME W # {} PROVE FALSE
    BY <1>1
  <1>3. W \in SUBSET SUBSET S
    BY <1>1
  <1>4. PICK s \in W : /\ IsFiniteSet(s)
                       /\ \A x \in s : s \ {x} \in SUBSET S /\ s \ {x} \notin W
    <2>1. W # {}
      BY <1>2
    <2> QED BY <1>3, <2>1, SmallestSet
  <1> QED BY <1>1, <1>4 DEF StepAlike

LEMMA FoldExists ==
  ASSUME NEW S, IsFiniteSet(S), NEW D, NEW base \in D, NEW F \in [S \X D -> D],
         NEW pick, \A s \in SUBSET S : s # {} => pick[s] \in s
  PROVE  \E it \in [SUBSET S -> D] : Recurs(it, S, base, F, pick)
  <1> DEFINE Upto(n) == {s \in SUBSET S : Cardinality(s) <= n}
             Partial(f, n) == /\ f \in [Upto(n) -> D]
                              /\ \A s \in Upto(n) : f[s] = IF s = {} THEN base ELSE F[pick[s], f[s \ {pick[s]}]]
             Z == {n \in Nat : ~\E f : Partial(f, n)}
  <1>1. \A s \in SUBSET S : IsFiniteSet(s) /\ Cardinality(s) \in Nat
    BY FS_Subset, FS_CardinalityType
  <1>a. \A s \in SUBSET S : s # {} => Cardinality(s \ {pick[s]}) = Cardinality(s) - 1
    BY <1>1, FS_RemoveElement
  <1>2. Z = {}
    <2>1. SUFFICES ASSUME Z # {} PROVE FALSE
      OBVIOUS
    <2>2. Z \in SUBSET Nat
      OBVIOUS
    <2>3. PICK n \in Z : \A m \in Z : n <= m
      <3> HIDE DEF Z
      <3> QED BY <2>1, <2>2, LeastExists
    <2>n. n \in Nat
      OBVIOUS
    <2>4. CASE n = 0
      <3>1. \A s \in Upto(0) : s = {}
        <4>1. ASSUME NEW s \in SUBSET S, Cardinality(s) <= 0 PROVE s = {}
          <5>0. Cardinality(s) \in Nat
            BY <1>1
          <5>1. Cardinality(s) = 0
            <6> HIDE DEF Z
            <6> QED BY <4>1, <5>0
          <5> QED BY <1>1, <5>1, FS_EmptySet
        <4> QED BY <4>1
      <3> DEFINE f == [s \in Upto(0) |-> base]
      <3>2. Partial(f, 0)
        BY <3>1
      <3> HIDE DEF f, Partial
      <3> QED BY <2>4, <3>2
    <2>5. CASE n # 0
      <3>1. n - 1 \in Nat /\ ~(n <= n - 1)
        <4> HIDE DEF Z
        <4> QED BY <2>5, <2>n
      <3>2. n - 1 \notin Z
        <4> HIDE DEF Z
        <4> QED BY <2>3, <3>1
      <3>3. PICK g : Partial(g, n - 1)
        BY <3>1, <3>2
      <3> DEFINE f == [s \in Upto(n) |-> IF s = {} THEN base ELSE F[pick[s], g[s \ {pick[s]}]]]
      <3>4. ASSUME NEW s \in Upto(n), s # {}
            PROVE  s \ {pick[s]} \in Upto(n - 1) /\ pick[s] \in S
        <4>1. Cardinality(s \ {pick[s]}) = Cardinality(s) - 1
          BY <1>a, <3>4
        <4>2. pick[s] \in s /\ s \in SUBSET S /\ Cardinality(s) <= n
          BY <3>4
        <4>3. Cardinality(s) - 1 <= n - 1
          <5>1. Cardinality(s) \in Nat
            BY <1>1, <4>2
          <5> HIDE DEF Z
          <5> QED BY <2>n, <4>2, <5>1
        <4> QED BY <4>1, <4>2, <4>3
      <3>5. f \in [Upto(n) -> D]
        <4>1. ASSUME NEW s \in Upto(n), s # {} PROVE F[pick[s], g[s \ {pick[s]}]] \in D
          <5>1. s \ {pick[s]} \in Upto(n - 1) /\ pick[s] \in S
            BY <3>4, <4>1
          <5>2. g[s \ {pick[s]}] \in D
            BY <3>3, <5>1
          <5> QED BY <5>1, <5>2
        <4> QED BY <4>1
      <3>6. ASSUME NEW s \in Upto(n - 1) PROVE f[s] = g[s]
        <4>1. s \in Upto(n)
          <5>1. s \in SUBSET S /\ Cardinality(s) <= n - 1 /\ Cardinality(s) \in Nat
            BY <1>1
          <5>2. Cardinality(s) <= n
            <6> HIDE DEF Z
            <6> QED BY <2>n, <5>1
          <5> QED BY <5>1, <5>2
        <4>2. g[s] = IF s = {} THEN base ELSE F[pick[s], g[s \ {pick[s]}]]
          BY <3>3
        <4> QED BY <4>1, <4>2
      <3>7. ASSUME NEW s \in Upto(n)
            PROVE  f[s] = IF s = {} THEN base ELSE F[pick[s], f[s \ {pick[s]}]]
        <4>1. s # {} => f[s \ {pick[s]}] = g[s \ {pick[s]}]
          BY <3>4, <3>6
        <4> QED BY <4>1
      <3>8. Partial(f, n)
        BY <3>5, <3>7
      <3> HIDE DEF f, Partial
      <3> QED BY <3>8
    <2> QED BY <2>4, <2>5
  <1>3. Cardinality(S) \in Nat
    BY FS_CardinalityType
  <1>4. PICK f : Partial(f, Cardinality(S))
    BY <1>2, <1>3
  <1>5. Upto(Cardinality(S)) = SUBSET S
    BY <1>1, FS_Subset
  <1>6. f \in [SUBSET S -> D] /\ \A s \in SUBSET S : f[s] = IF s = {} THEN base ELSE F[pick[s], f[s \ {pick[s]}]]
    BY <1>4, <1>5
  <1>7. f = [s \in SUBSET S |-> IF s = {} THEN base ELSE F[pick[s], f[s \ {pick[s]}]]]
    BY <1>6
  <1> QED BY <1>6, <1>7 DEF Recurs

\* The picks of the folds.
PickOf(S) == [s \in SUBSET S |-> CHOOSE x \in s : TRUE]
LEMMA Picks ==
  ASSUME NEW S
  PROVE  \A s \in SUBSET S : s # {} => /\ PickOf(S)[s] \in s /\ PickOf(S)[s] \in S
                                       /\ PickOf(S)[s] = CHOOSE x \in s : TRUE
  BY DEF PickOf

-----------------------------------------------------------------------------
(* The roster. *)

\* Overlapping hours overlap both ways; assignments are numbered from 1 and finitely many, as are the employees; the
\* sets HR works on in bulk are of assignments.
RosterPlan ==
  /\ Assignments \subseteq Nat \ {0} /\ IsFiniteSet(Assignments) /\ IsFiniteSet(Employees) /\ LastDay \in Nat \ {0}
  /\ \A s, t \in Shifts : <<s, t>> \in Clash => <<t, s>> \in Clash
  /\ \A N \in Bulks : N \subseteq Assignments

InBulk == UNION Bulks
RosterRows == [state : {"Submitted", "Cancelled"}, active : BOOLEAN, emp : Employees, shift : Shifts,
               from : Days, to : Days]
SaTables   == [Assignments -> RosterRows \cup {NoRow}]
InstNames  == Employees \X Shifts \X Days
InstTables == [InstNames -> [status : {"None", "Scheduled", "Cancelled", "Skipped"}, of : Assignments \cup {0}]]
\* Of two assignments that HR does not switch in bulk, no hours of a day are the same.
RosterApart(t) ==
  \A a, b \in Assignments \ InBulk :
    /\ a # b /\ Applies(t[a]) /\ Applies(t[b]) /\ t[a].emp = t[b].emp /\ <<t[a].shift, t[b].shift>> \in Clash
    => Span(t[a]) \cap Span(t[b]) = {}
\* An instance is of an assignment that stands, of its employee and its shift.
OwnInstances(t, n) ==
  \A i \in InstNames : n[i].status # "None" =>
    /\ n[i].of \in Assignments
    /\ n[i].of \notin InBulk =>
         t[n[i].of].state = "Submitted" /\ t[n[i].of].emp = i[1] /\ t[n[i].of].shift = i[2]
RosterDBs == {x \in [sa : SaTables, inst : InstTables] : RosterApart(x.sa) /\ OwnInstances(x.sa, x.inst)}
\* What a transaction may make of the database s: a row that was there is of the same employee and shift.
Keeps(s, t) == \A a \in Assignments : s[a] # NoRow => t[a] # NoRow /\ t[a].emp = s[a].emp /\ t[a].shift = s[a].shift
MadeOf(s) == {x \in RosterDBs : Keeps(s.sa, x.sa)}
Standing == {row \in RosterRows : row.state = "Submitted"}

LEMMA RosterRowIs ==
  /\ \A row \in RosterRows : row # NoRow
  /\ NoRow.state = "None" /\ ~Applies(NoRow)
  BY DEF RosterRows, NoRow, Applies

\* One row written, so that it does not clash.
LEMMA WrittenIs ==
  ASSUME RosterPlan, NEW s, NEW x \in MadeOf(s), NEW a \in Assignments, NEW row \in RosterRows,
         x.sa[a] # NoRow => row.emp = x.sa[a].emp /\ row.shift = x.sa[a].shift,
         row.state = "Submitted" \/ a \in InBulk \/ \A i \in InstNames : x.inst[i].status # "None" => x.inst[i].of # a,
         Applies(row) => _shift_conflicts(x, a, row) = {} \/ a \in InBulk
  PROVE  [x EXCEPT !.sa[a] = row] \in MadeOf(s) /\ [x EXCEPT !.sa[a] = row] = [sa |-> [x.sa EXCEPT ![a] = row], inst |-> x.inst]
  <1>1. PICK t, n : t = x.sa /\ n = x.inst
    OBVIOUS
  <1>2. t \in SaTables /\ n \in InstTables /\ RosterApart(t) /\ OwnInstances(t, n) /\ x = [sa |-> t, inst |-> n] /\ Keeps(s.sa, t)
    BY <1>1 DEF MadeOf, RosterDBs
  <1>3. PICK u : u = [t EXCEPT ![a] = row]
    OBVIOUS
  <1>4. u \in SaTables /\ \A b \in Assignments : u[b] = IF b = a THEN row ELSE t[b]
    BY <1>2, <1>3 DEF SaTables
  <1>5. [x EXCEPT !.sa[a] = row] = [sa |-> u, inst |-> n]
    BY <1>2, <1>3
  <1>6. RosterApart(u)
    <2>1. SUFFICES ASSUME NEW b \in Assignments \ InBulk, NEW c \in Assignments \ InBulk, b # c,
                          Applies(u[b]), Applies(u[c]), u[b].emp = u[c].emp, <<u[b].shift, u[c].shift>> \in Clash
                   PROVE  Span(u[b]) \cap Span(u[c]) = {}
      BY DEF RosterApart
    <2>2. CASE b # a /\ c # a
      BY <1>2, <1>4, <2>1, <2>2 DEF RosterApart
    <2>3. CASE b = a
      <3>1. u[b] = row /\ u[c] = t[c] /\ c # a
        BY <1>4, <2>1, <2>3
      <3>2. _shift_conflicts(x, a, row) = {}
        BY <2>1, <2>3, <3>1
      <3>3. c \notin _shift_conflicts(x, a, row)
        BY <3>2
      <3> QED BY <1>1, <2>1, <3>1, <3>3 DEF _shift_conflicts
    <2>4. CASE c = a
      <3>1. u[c] = row /\ u[b] = t[b] /\ b # a
        BY <1>4, <2>1, <2>4
      <3>2. _shift_conflicts(x, a, row) = {}
        BY <2>1, <2>4, <3>1
      <3>3. b \notin _shift_conflicts(x, a, row)
        BY <3>2
      <3>4. row.shift \in Shifts /\ t[b].shift \in Shifts
        <4>1. t[b] # NoRow
          BY <2>1, <3>1, RosterRowIs
        <4>2. t[b] \in RosterRows
          BY <1>2, <4>1 DEF SaTables
        <4> QED BY <4>2 DEF RosterRows
      <3>5. <<row.shift, t[b].shift>> \in Clash
        BY <2>1, <3>1, <3>4 DEF RosterPlan
      <3>6. Span(t[b]) \cap Span(row) = {}
        BY <1>1, <2>1, <3>1, <3>3, <3>5 DEF _shift_conflicts
      <3> QED BY <3>1, <3>6
    <2> QED BY <2>2, <2>3, <2>4
  <1>7. OwnInstances(u, n)
    <2>1. SUFFICES ASSUME NEW i \in InstNames, n[i].status # "None"
                   PROVE  /\ n[i].of \in Assignments
                          /\ n[i].of \notin InBulk =>
                               u[n[i].of].state = "Submitted" /\ u[n[i].of].emp = i[1] /\ u[n[i].of].shift = i[2]
      BY DEF OwnInstances
    <2>2. /\ n[i].of \in Assignments
          /\ n[i].of \notin InBulk =>
               t[n[i].of].state = "Submitted" /\ t[n[i].of].emp = i[1] /\ t[n[i].of].shift = i[2]
      BY <1>2, <2>1 DEF OwnInstances
    <2>3. CASE n[i].of = a /\ a \notin InBulk
      <3>1. t[a].state = "Submitted"
        BY <2>2, <2>3
      <3>2. t[a] # NoRow
        BY <3>1, RosterRowIs
      <3>3. row.state = "Submitted"
        BY <1>1, <2>1, <2>3
      <3> QED BY <1>1, <1>4, <2>2, <2>3, <3>2, <3>3
    <2> QED BY <1>4, <2>2, <2>3
  <1>8. Keeps(s.sa, u)
    <2>1. SUFFICES ASSUME NEW b \in Assignments, s.sa[b] # NoRow
                   PROVE  u[b] # NoRow /\ u[b].emp = s.sa[b].emp /\ u[b].shift = s.sa[b].shift
      BY DEF Keeps
    <2>2. t[b] # NoRow /\ t[b].emp = s.sa[b].emp /\ t[b].shift = s.sa[b].shift
      BY <1>2, <2>1 DEF Keeps
    <2> QED BY <1>1, <1>4, <2>2, RosterRowIs
  <1>9. [sa |-> u, inst |-> n] \in RosterDBs
    BY <1>2, <1>4, <1>6, <1>7 DEF RosterDBs
  <1> QED BY <1>1, <1>3, <1>5, <1>8, <1>9 DEF MadeOf

LEMMA RowSaveIs ==
  ASSUME RosterPlan, NEW s, NEW x \in MadeOf(s), NEW a \in Assignments, NEW row \in Standing,
         x.sa[a] # NoRow => row.emp = x.sa[a].emp /\ row.shift = x.sa[a].shift
  PROVE  \A y \in Save(x, a, row) :
           y \in MadeOf(s) /\ y = [sa |-> [x.sa EXCEPT ![a] = row], inst |-> x.inst]
  <1>1. row \in RosterRows /\ row.state = "Submitted"
    BY DEF Standing
  <1>2. ASSUME NEW y \in Save(x, a, row)
        PROVE  y = [x EXCEPT !.sa[a] = row] /\ (Applies(row) => _shift_conflicts(x, a, row) = {})
    BY DEF Save
  <1>3. ASSUME NEW y \in Save(x, a, row)
        PROVE  y \in MadeOf(s) /\ y = [sa |-> [x.sa EXCEPT ![a] = row], inst |-> x.inst]
    <2>1. y = [x EXCEPT !.sa[a] = row] /\ (Applies(row) => _shift_conflicts(x, a, row) = {})
      BY <1>2, <1>3
    <2>2. [x EXCEPT !.sa[a] = row] \in MadeOf(s) /\ [x EXCEPT !.sa[a] = row] = [sa |-> [x.sa EXCEPT ![a] = row], inst |-> x.inst]
      BY <1>1, <2>1, WrittenIs
    <2> QED BY <2>1, <2>2
  <1> QED BY <1>3

\* The first free number is a free one.
LEMMA FirstFree ==
  ASSUME RosterPlan, NEW S \in SUBSET Assignments, S # {}
  PROVE  Min(S) \in S
  <1>1. S \in SUBSET Nat
    BY DEF RosterPlan
  <1>2. \E x \in S : \A y \in S : x <= y
    BY <1>1, LeastExists
  <1> QED BY <1>2 DEF Min

LEMMA InsertIs ==
  ASSUME RosterPlan, NEW s, NEW x \in MadeOf(s), NEW row \in Standing
  PROVE  \A y \in Insert(x, row) : /\ y \in MadeOf(s)
                                      /\ \E a \in Assignments : x.sa[a] = NoRow /\ y.sa = [x.sa EXCEPT ![a] = row]
                                      /\ y.inst = x.inst
  <1> DEFINE free == {a \in Assignments : x.sa[a] = NoRow}
  <1>1. ASSUME NEW y \in Insert(x, row) PROVE free # {} /\ y \in Save(x, Min(free), row)
    BY DEF Insert
  <1>2. free # {} => Min(free) \in free
    BY FirstFree
  <1>3. ASSUME NEW y \in Insert(x, row)
        PROVE  /\ y \in MadeOf(s)
               /\ \E a \in Assignments : x.sa[a] = NoRow /\ y.sa = [x.sa EXCEPT ![a] = row]
               /\ y.inst = x.inst
    <2>1. PICK a \in free : y \in Save(x, a, row)
      BY <1>1, <1>2, <1>3
    <2>2. y \in MadeOf(s) /\ y = [sa |-> [x.sa EXCEPT ![a] = row], inst |-> x.inst]
      BY <2>1, RowSaveIs
    <2> QED BY <2>1, <2>2
  <1> QED BY <1>3

LEMMA CancelIs ==
  ASSUME RosterPlan, NEW s, NEW x \in MadeOf(s), NEW a \in Assignments, x.sa[a] # NoRow
  PROVE  \A y \in Cancel(x, a) : y \in MadeOf(s)
  <1>1. ASSUME NEW y \in Cancel(x, a)
        PROVE  y = [x EXCEPT !.sa[a].state = "Cancelled"] /\ Instances(x, a) = {}
    BY DEF Cancel
  <1>2. x.sa \in SaTables /\ x = [sa |-> x.sa, inst |-> x.inst]
    BY DEF MadeOf, RosterDBs
  <1>3. PICK row : row = [x.sa[a] EXCEPT !.state = "Cancelled"]
    OBVIOUS
  <1>4. x.sa[a] \in RosterRows
    BY <1>2 DEF SaTables
  <1>5. row \in RosterRows /\ row.emp = x.sa[a].emp /\ row.shift = x.sa[a].shift /\ ~Applies(row)
    BY <1>3, <1>4 DEF RosterRows, Applies
  <1>6. [x EXCEPT !.sa[a].state = "Cancelled"] = [x EXCEPT !.sa[a] = row]
    BY <1>2, <1>3
  <1>7. ASSUME NEW y \in Cancel(x, a) PROVE \A i \in InstNames : x.inst[i].status # "None" => x.inst[i].of # a
    BY <1>1, <1>7 DEF Instances, InstNames
  <1>8. ASSUME NEW y \in Cancel(x, a) PROVE y \in MadeOf(s)
    <2>1. \A i \in InstNames : x.inst[i].status # "None" => x.inst[i].of # a
      BY <1>7
    <2>2. [x EXCEPT !.sa[a] = row] \in MadeOf(s)
      BY <1>5, <2>1, WrittenIs
    <2> QED BY <1>1, <1>6, <2>2
  <1> QED BY <1>8

-----------------------------------------------------------------------------
\* What the generator makes of x, when it throws back to s.
Generated(s, x) == {y \in MadeOf(s) : y.sa \in {x.sa, s.sa}}

\* The instances an assignment lacks are made, or the transaction is gone.
MissingOf(s, x, y, a, from, to) ==
  {i \in {x.sa[a].emp} \X {x.sa[a].shift} \X (Span(x.sa[a]) \cap from..to) : y.inst[i].status = "None"}
EnsureOf(s, x, y, a, from, to) ==
  LET new == MissingOf(s, x, y, a, from, to) IN
  IF new # {} /\ (y.sa[a].state # "Submitted" \/ \E i \in new : _check_overlap(y, i)) THEN s
  ELSE [y EXCEPT !.inst = [i \in DOMAIN @ |-> IF i \in new THEN [status |-> "Scheduled", of |-> a] ELSE @[i]]]

LEMMA EnsureIs ==
  ASSUME RosterPlan, NEW s \in RosterDBs, NEW x \in MadeOf(s), NEW y \in Generated(s, x), NEW a \in Assignments,
         Applies(x.sa[a]), NEW from, NEW to
  PROVE  EnsureOf(s, x, y, a, from, to) \in Generated(s, x)
  <1>1. PICK t, n : t = y.sa /\ n = y.inst
    OBVIOUS
  <1>2. /\ t \in SaTables /\ n \in InstTables /\ RosterApart(t) /\ OwnInstances(t, n) /\ y = [sa |-> t, inst |-> n]
        /\ Keeps(s.sa, t) /\ t \in {x.sa, s.sa} /\ x.sa \in SaTables /\ s.sa \in SaTables /\ Keeps(s.sa, x.sa)
    BY <1>1 DEF Generated, MadeOf, RosterDBs
  <1>3. PICK new : new = MissingOf(s, x, y, a, from, to)
    OBVIOUS
  <1>4. PICK m : m = [i \in DOMAIN n |-> IF i \in new THEN [status |-> "Scheduled", of |-> a] ELSE n[i]]
    OBVIOUS
  <1>5. \/ EnsureOf(s, x, y, a, from, to) = s
        \/ (new # {} => t[a].state = "Submitted") /\ EnsureOf(s, x, y, a, from, to) = [sa |-> t, inst |-> m]
    <2> DEFINE bad == y.sa[a].state # "Submitted" \/ \E i \in new : _check_overlap(y, i)
    <2>1. EnsureOf(s, x, y, a, from, to)
            = IF new # {} /\ bad THEN s
              ELSE [y EXCEPT !.inst = [i \in DOMAIN y.inst |-> IF i \in new THEN [status |-> "Scheduled", of |-> a] ELSE y.inst[i]]]
      BY <1>3, Zenon DEF EnsureOf
    <2>0. ~bad => t[a].state = "Submitted"
      BY <1>1
    <2> HIDE DEF bad
    <2>2. [y EXCEPT !.inst = [i \in DOMAIN y.inst |-> IF i \in new THEN [status |-> "Scheduled", of |-> a] ELSE y.inst[i]]]
            = [y EXCEPT !.inst = m]
      BY <1>1, <1>4
    <2>3. [y EXCEPT !.inst = m] = [sa |-> t, inst |-> m]
      BY <1>2
    <2>4. CASE new # {} /\ bad
      BY <2>1, <2>4, Zenon
    <2>5. CASE ~(new # {} /\ bad)
      <3>1. EnsureOf(s, x, y, a, from, to) = [sa |-> t, inst |-> m]
        <4>1. EnsureOf(s, x, y, a, from, to)
                = [y EXCEPT !.inst = [i \in DOMAIN y.inst |-> IF i \in new THEN [status |-> "Scheduled", of |-> a] ELSE y.inst[i]]]
          BY <2>1, <2>5, Zenon
        <4> QED BY <2>2, <2>3, <4>1
      <3>2. new # {} => t[a].state = "Submitted"
        BY <2>0, <2>5, Zenon
      <3> QED BY <3>1, <3>2
    <2> QED BY <2>4, <2>5, Zenon
  <1>6. s \in Generated(s, x)
    BY DEF Generated, MadeOf, RosterDBs, Keeps
  <1>7. ASSUME new # {} => t[a].state = "Submitted" PROVE [sa |-> t, inst |-> m] \in Generated(s, x)
    <2>1. x.sa[a] \in RosterRows
      <3>1. x.sa[a] # NoRow
        BY RosterRowIs
      <3> QED BY <1>2, <3>1 DEF SaTables
    <2>2. \A i \in new : i \in InstNames /\ i[1] = x.sa[a].emp /\ i[2] = x.sa[a].shift
      <3>1. ASSUME NEW i \in new PROVE i \in InstNames /\ i[1] = x.sa[a].emp /\ i[2] = x.sa[a].shift
        <4>1. PICK r : r = x.sa[a]
          OBVIOUS
        <4>2. i \in {r.emp} \X {r.shift} \X (Span(r) \cap from..to)
          BY <1>3, <4>1 DEF MissingOf
        <4>3. r.emp \in Employees /\ r.shift \in Shifts /\ Span(r) \subseteq Days
          <5>1. r.from \in 1..LastDay /\ r.to \in 1..LastDay /\ LastDay \in Nat
            BY <2>1, <4>1 DEF RosterRows, Days, RosterPlan
          <5>2. r.from..r.to \subseteq 1..LastDay
            BY <5>1
          <5> QED BY <2>1, <4>1, <5>2 DEF RosterRows, Days, Span
        <4> QED BY <4>1, <4>2, <4>3 DEF InstNames
      <3> QED BY <3>1
    <2>3. m \in InstTables /\ \A i \in InstNames : m[i] = IF i \in new THEN [status |-> "Scheduled", of |-> a] ELSE n[i]
      <3>1. DOMAIN n = InstNames
        BY <1>2 DEF InstTables
      <3>2. \A i \in InstNames : n[i] \in [status : {"None", "Scheduled", "Cancelled", "Skipped"}, of : Assignments \cup {0}]
        BY <1>2 DEF InstTables
      <3> QED BY <1>4, <3>1, <3>2 DEF InstTables
    <2>4. OwnInstances(t, m)
      <3>1. SUFFICES ASSUME NEW i \in InstNames, m[i].status # "None"
                     PROVE  /\ m[i].of \in Assignments
                            /\ m[i].of \notin InBulk =>
                                 t[m[i].of].state = "Submitted" /\ t[m[i].of].emp = i[1] /\ t[m[i].of].shift = i[2]
        BY DEF OwnInstances
      <3>2. CASE i \in new
        <4>1. m[i].of = a /\ t[a].state = "Submitted"
          BY <1>7, <2>3, <3>2
        <4>2. t[a].emp = x.sa[a].emp /\ t[a].shift = x.sa[a].shift
          <5>1. CASE t = x.sa
            BY <5>1
          <5>2. CASE t = s.sa
            <6>1. s.sa[a] # NoRow
              BY <4>1, <5>2, RosterRowIs
            <6> QED BY <1>2, <5>2, <6>1 DEF Keeps
          <5> QED BY <1>2, <5>1, <5>2
        <4> QED BY <2>2, <3>2, <4>1, <4>2
      <3>3. CASE i \notin new
        BY <1>2, <2>3, <3>1, <3>3 DEF OwnInstances
      <3> QED BY <3>2, <3>3
    <2>5. [sa |-> t, inst |-> m] \in RosterDBs
      BY <1>2, <2>3, <2>4 DEF RosterDBs
    <2> QED BY <1>2, <2>5 DEF Generated, MadeOf
  <1> QED BY <1>5, <1>6, <1>7

\* An order of finitely many things.
LEMMA OrderIs ==
  ASSUME NEW S, IsFiniteSet(S), NEW order \in SetToSeqs(S)
  PROVE  /\ IsFiniteSet(DOMAIN order) /\ DOMAIN order \in SUBSET Nat /\ \A i \in DOMAIN order : order[i] \in S
         /\ \A T \in SUBSET DOMAIN order : T # {} => Max(T) \in T
  <1>1. Cardinality(S) \in Nat
    BY FS_CardinalityType
  <1>2. order \in [1..Cardinality(S) -> S]
    BY DEF SetToSeqs, Cardinality
  <1>3. IsFiniteSet(DOMAIN order) /\ DOMAIN order \in SUBSET Nat
    BY <1>1, <1>2, FS_Interval
  <1>4. ASSUME NEW T \in SUBSET DOMAIN order, T # {} PROVE Max(T) \in T
    <2>1. T \in SUBSET Nat /\ IsFiniteSet(T)
      BY <1>3, FS_Subset
    <2>2. \E x \in T : \A y \in T : x >= y
      BY <1>4, <2>1, GreatestExists
    <2> QED BY <2>2 DEF Max
  <1> QED BY <1>2, <1>3, <1>4

\* The last of each part of an order.
LastOf(order) == [T \in SUBSET DOMAIN order |-> Max(T)]

\* Whatever holds of the table before each assignment and after it holds of what is generated.
LEMMA GenerateStays ==
  ASSUME RosterPlan, NEW s, NEW x, NEW E, NEW from, NEW to, NEW D, x \in D,
         \A a \in Assignments, y \in D : Applies(x.sa[a]) /\ x.sa[a].emp \in E => EnsureOf(s, x, y, a, from, to) \in D
  PROVE  _materialise_shift_instances(s, x, E, from, to) \subseteq D
  <1> DEFINE rows == {a \in Assignments : Applies(x.sa[a]) /\ x.sa[a].emp \in E}
  <1>1. IsFiniteSet(rows)
    BY FS_Subset DEF RosterPlan
  <1>2. x \in D
    OBVIOUS
  <1>3. ASSUME NEW order \in SetToSeqs(rows),
               NEW it, it = CHOOSE f : f = [T \in SUBSET DOMAIN order |-> IF T = {} THEN x
                              ELSE LET i == Max(T) IN EnsureOf(s, x, f[T \ {i}], order[i], from, to)]
        PROVE  it[DOMAIN order] \in D
    <2> DEFINE S == DOMAIN order
               pick == LastOf(order)
               F == [p \in S \X D |-> EnsureOf(s, x, p[2], order[p[1]], from, to)]
    <2>1. /\ IsFiniteSet(S) /\ \A i \in S : order[i] \in rows
          /\ \A T \in SUBSET S : T # {} => Max(T) \in T
      BY <1>1, <1>3, OrderIs
    <2>2. \A i \in S, y \in D : EnsureOf(s, x, y, order[i], from, to) \in D
      BY <2>1
    <2> HIDE DEF rows
    <2>3. F \in [S \X D -> D] /\ \A i \in S, y \in D : F[i, y] = EnsureOf(s, x, y, order[i], from, to)
      BY <2>2
    <2>4. \A T \in SUBSET S : T # {} => pick[T] \in T /\ pick[T] \in S /\ pick[T] = Max(T)
      BY <2>1 DEF LastOf
    <2> HIDE DEF F, pick
    <2>5. PICK f \in [SUBSET S -> D] : Recurs(f, S, x, F, pick)
      BY <1>2, <2>1, <2>3, <2>4, FoldExists
    <2>6. f = [T \in SUBSET S |-> IF T = {} THEN x ELSE LET i == Max(T) IN EnsureOf(s, x, f[T \ {i}], order[i], from, to)]
      <3>1. ASSUME NEW T \in SUBSET S, T # {}
            PROVE  F[pick[T], f[T \ {pick[T]}]] = LET i == Max(T) IN EnsureOf(s, x, f[T \ {i}], order[i], from, to)
        <4>1. pick[T] \in S /\ pick[T] = Max(T) /\ T \ {pick[T]} \in SUBSET S
          BY <2>4, <3>1
        <4>2. f[T \ {pick[T]}] \in D
          BY <2>5, <4>1
        <4> QED BY <2>3, <4>1, <4>2
      <3>2. \A T \in SUBSET S : (IF T = {} THEN x ELSE F[pick[T], f[T \ {pick[T]}]])
              = (IF T = {} THEN x ELSE LET i == Max(T) IN EnsureOf(s, x, f[T \ {i}], order[i], from, to))
        BY <3>1
      <3> QED BY <2>5, <3>2 DEF Recurs
    <2>7. it = [T \in SUBSET S |-> IF T = {} THEN x ELSE LET i == Max(T) IN EnsureOf(s, x, it[T \ {i}], order[i], from, to)]
      BY <1>3, <2>6
    <2>8. StepAlike(S, it, f)
      <3>1. it[{}] = f[{}]
        BY <2>6, <2>7
      <3>2. ASSUME NEW T \in SUBSET S, T # {} PROVE \E i \in T : it[T \ {i}] = f[T \ {i}] => it[T] = f[T]
        <4>1. PICK i \in T : i = Max(T)
          BY <2>1, <3>2
        <4>2. it[T] = EnsureOf(s, x, it[T \ {i}], order[i], from, to)
          BY <2>7, <3>2, <4>1
        <4>3. f[T] = EnsureOf(s, x, f[T \ {i}], order[i], from, to)
          BY <2>6, <3>2, <4>1
        <4> QED BY <4>2, <4>3
      <3> QED BY <3>1, <3>2 DEF StepAlike
    <2>9. it[S] = f[S]
      BY <2>1, <2>8, FoldUnique
    <2> QED BY <2>5, <2>9
  <1>4. ASSUME NEW y \in _materialise_shift_instances(s, x, E, from, to) PROVE y \in D
    <2>1. PICK order \in SetToSeqs(rows) :
            y = (CHOOSE f : f = [T \in SUBSET DOMAIN order |-> IF T = {} THEN x
                   ELSE LET i == Max(T) IN EnsureOf(s, x, f[T \ {i}], order[i], from, to)])[DOMAIN order]
      BY <1>4 DEF _materialise_shift_instances, FoldLeft, MapThenFoldSet, EnsureOf, MissingOf
    <2> QED BY <1>3, <2>1
  <1> QED BY <1>4

LEMMA GenerateIs ==
  ASSUME RosterPlan, NEW s \in RosterDBs, NEW x \in MadeOf(s), NEW E, NEW from, NEW to
  PROVE  _materialise_shift_instances(s, x, E, from, to) \subseteq Generated(s, x)
  <1>1. x \in Generated(s, x)
    BY DEF Generated
  <1>2. \A a \in Assignments, y \in Generated(s, x) : Applies(x.sa[a]) => EnsureOf(s, x, y, a, from, to) \in Generated(s, x)
    BY EnsureIs
  <1> QED BY <1>1, <1>2, GenerateStays

-----------------------------------------------------------------------------
LEMMA CoreIs ==
  ASSUME RosterPlan, NEW s \in RosterDBs, NEW x \in MadeOf(s), NEW row \in Standing
  PROVE  _create_shift_assignment_core(s, x, row) \subseteq MadeOf(s)
  <1>1. Insert(x, row) \subseteq MadeOf(s)
    BY InsertIs
  <1>2. ASSUME NEW y \in MadeOf(s), NEW E, NEW from, NEW to
        PROVE  _materialise_shift_instances(s, y, E, from, to) \subseteq MadeOf(s)
    BY GenerateIs DEF Generated
  <1>3. ASSUME NEW z \in _create_shift_assignment_core(s, x, row) PROVE z \in MadeOf(s)
    <2>1. PICK until : until = Min({row.to, today})
      OBVIOUS
    <2>2. \/ z \in Insert(x, row)
          \/ \E y \in Insert(x, row) : z \in _materialise_shift_instances(s, y, {row.emp}, row.from, until)
      BY <1>3, <2>1 DEF _create_shift_assignment_core
    <2> QED BY <1>1, <1>2, <2>2
  <1> QED BY <1>3

\* A new row.
LEMMA RowStands ==
  ASSUME NEW e \in Employees, NEW p \in Shifts, NEW from \in Days, NEW to \in Days
  PROVE  Row(e, p, from, to) \in Standing
  BY DEF Standing, RosterRows, Row

LEMMA OverrideIs ==
  ASSUME RosterPlan, NEW s \in RosterDBs, NEW x \in MadeOf(s), NEW e \in Employees, NEW d \in Days, NEW p \in Shifts
  PROVE  _override(s, x, e, d, p) \subseteq MadeOf(s)
  <1> DEFINE covering == {a \in Assignments : Applies(x.sa[a]) /\ x.sa[a].emp = e /\ d \in Span(x.sa[a])}
             Cut(a) == LET row == x.sa[a] IN
                       IF row.from = d THEN Cancel(x, a)
                       ELSE LET front == Save(x, a, [row EXCEPT !.to = d - 1]) IN
                            IF d = row.to THEN front
                            ELSE UNION {_create_shift_assignment_core(s, y, Row(e, row.shift, d + 1, row.to)) : y \in front}
             left == IF covering = {} THEN {x} ELSE UNION {Cut(a) : a \in covering}
  <1>1. _override(s, x, e, d, p) = UNION {_create_shift_assignment_core(s, y, Row(e, p, d, d)) : y \in left}
    BY Zenon DEF _override
  <1>2. ASSUME NEW a \in covering PROVE Cut(a) \subseteq MadeOf(s)
    <2>1. PICK row : row = x.sa[a]
      OBVIOUS
    <2>2. a \in Assignments /\ row \in RosterRows /\ row.state = "Submitted" /\ row.from <= d /\ d <= row.to
      <3>1. x.sa \in SaTables /\ x.sa[a] # NoRow
        BY <1>2, RosterRowIs DEF MadeOf, RosterDBs
      <3>2. row \in RosterRows
        BY <1>2, <2>1, <3>1 DEF SaTables
      <3> QED BY <1>2, <2>1, <3>2 DEF Applies, Span, RosterRows, Days
    <2>3. /\ row.from \in Nat /\ row.to \in Nat /\ d \in Nat /\ row.from >= 1 /\ row.to <= LastDay /\ d >= 1 /\ d <= LastDay
          /\ row.from \in Days /\ row.to \in Days /\ row.emp \in Employees /\ row.shift \in Shifts /\ LastDay \in Nat
      BY <2>2 DEF RosterRows, Days, RosterPlan
    <2>4. CASE row.from = d
      BY <2>1, <2>2, <2>4, CancelIs, RosterRowIs
    <2>5. CASE row.from # d
      <3>1. PICK short : short = [row EXCEPT !.to = d - 1]
        OBVIOUS
      <3>2. d - 1 \in Days
        BY <2>2, <2>3, <2>5 DEF Days
      <3>3. short \in Standing /\ short.emp = row.emp /\ short.shift = row.shift
        BY <2>2, <3>1, <3>2 DEF Standing, RosterRows
      <3>4. \A y \in Save(x, a, short) : y \in MadeOf(s)
        BY <2>1, <2>2, <3>3, RowSaveIs
      <3>5. ASSUME d # row.to, NEW y \in Save(x, a, short)
            PROVE  _create_shift_assignment_core(s, y, Row(e, row.shift, d + 1, row.to)) \subseteq MadeOf(s)
        <4>1. d + 1 \in Days
          BY <2>2, <2>3, <3>5 DEF Days
        <4>2. Row(e, row.shift, d + 1, row.to) \in Standing
          BY <2>3, <4>1, RowStands
        <4> QED BY <3>4, <3>5, <4>2, CoreIs
      <3>6. Cut(a) = IF d = row.to THEN Save(x, a, short)
                     ELSE UNION {_create_shift_assignment_core(s, y, Row(e, row.shift, d + 1, row.to)) : y \in Save(x, a, short)}
        BY <2>1, <2>5, <3>1
      <3> QED BY <3>4, <3>5, <3>6
    <2> QED BY <2>4, <2>5
  <1>3. left \subseteq MadeOf(s)
    BY <1>2
  <1>4. Row(e, p, d, d) \in Standing
    BY RowStands
  <1>5. \A y \in left : _create_shift_assignment_core(s, y, Row(e, p, d, d)) \subseteq MadeOf(s)
    BY <1>3, <1>4, CoreIs
  <1> QED BY <1>1, <1>5

LEMMA SwapDaysIs ==
  ASSUME RosterPlan, DB \in RosterDBs, NEW i \in InstNames, NEW j \in InstNames
  PROVE  SwapDays(i, j) \subseteq MadeOf(DB)
  <1>1. DB \in MadeOf(DB)
    BY DEF MadeOf, RosterDBs, Keeps
  <1>2. i[1] \in Employees /\ i[2] \in Shifts /\ i[3] \in Days /\ j[1] \in Employees /\ j[2] \in Shifts /\ j[3] \in Days
    BY DEF InstNames
  <1>3. _override(DB, DB, i[1], i[3], j[2]) \subseteq MadeOf(DB)
    BY <1>1, <1>2, OverrideIs
  <1>4. \A x \in MadeOf(DB) : _override(DB, x, j[1], j[3], i[2]) \subseteq MadeOf(DB)
    BY <1>2, OverrideIs
  <1> QED BY <1>3, <1>4 DEF SwapDays

\* One cell of a batch.
AddOf(A, row) ==
  UNION {LET made == _create_shift_assignment_core(DB, x, row) IN IF made = {} THEN {x} ELSE made : x \in A}

LEMMA BatchIs ==
  ASSUME RosterPlan, DB \in RosterDBs, NEW cells \in SUBSET Standing, IsFiniteSet(cells)
  PROVE  Batch(cells) \subseteq MadeOf(DB)
  <1> DEFINE D == SUBSET MadeOf(DB)
  <1>1. IsFiniteSet(cells)
    OBVIOUS
  <1>2. {DB} \in D
    BY DEF MadeOf, RosterDBs, Keeps
  <1>e. \A A \in D, row \in cells : AddOf(A, row) \in D
    <2>1. ASSUME NEW A \in D, NEW row \in cells PROVE AddOf(A, row) \in D
      <3>1. \A x \in A : _create_shift_assignment_core(DB, x, row) \subseteq MadeOf(DB)
        BY CoreIs
      <3> QED BY <3>1 DEF AddOf
    <2> QED BY <2>1
  <1>3. ASSUME NEW order \in SetToSeqs(cells),
               NEW it, it = CHOOSE f : f = [T \in SUBSET DOMAIN order |-> IF T = {} THEN {DB}
                              ELSE LET i == Max(T) IN AddOf(f[T \ {i}], order[i])]
        PROVE  it[DOMAIN order] \in D
    <2> DEFINE S == DOMAIN order
               pick == LastOf(order)
               F == [p \in S \X D |-> AddOf(p[2], order[p[1]])]
    <2>1. /\ IsFiniteSet(S) /\ \A i \in S : order[i] \in cells
          /\ \A T \in SUBSET S : T # {} => Max(T) \in T
      BY <1>1, <1>3, OrderIs
    <2>2. \A i \in S, y \in D : AddOf(y, order[i]) \in D
      BY <1>e, <2>1
    <2> HIDE DEF D
    <2>3. F \in [S \X D -> D] /\ \A i \in S, y \in D : F[i, y] = AddOf(y, order[i])
      BY <2>2
    <2>4. \A T \in SUBSET S : T # {} => pick[T] \in T /\ pick[T] \in S /\ pick[T] = Max(T)
      BY <2>1 DEF LastOf
    <2> HIDE DEF F, pick
    <2>5. PICK f \in [SUBSET S -> D] : Recurs(f, S, {DB}, F, pick)
      BY <1>2, <2>1, <2>3, <2>4, FoldExists
    <2>6. f = [T \in SUBSET S |-> IF T = {} THEN {DB} ELSE LET i == Max(T) IN AddOf(f[T \ {i}], order[i])]
      <3>1. ASSUME NEW T \in SUBSET S, T # {}
            PROVE  F[pick[T], f[T \ {pick[T]}]] = LET i == Max(T) IN AddOf(f[T \ {i}], order[i])
        <4>1. pick[T] \in S /\ pick[T] = Max(T) /\ T \ {pick[T]} \in SUBSET S
          BY <2>4, <3>1
        <4>2. f[T \ {pick[T]}] \in D
          BY <2>5, <4>1
        <4> QED BY <2>3, <4>1, <4>2
      <3>2. \A T \in SUBSET S : (IF T = {} THEN {DB} ELSE F[pick[T], f[T \ {pick[T]}]])
              = (IF T = {} THEN {DB} ELSE LET i == Max(T) IN AddOf(f[T \ {i}], order[i]))
        BY <3>1
      <3> QED BY <2>5, <3>2 DEF Recurs
    <2>7. it = [T \in SUBSET S |-> IF T = {} THEN {DB} ELSE LET i == Max(T) IN AddOf(it[T \ {i}], order[i])]
      BY <1>3, <2>6
    <2>8. StepAlike(S, it, f)
      <3>1. it[{}] = f[{}]
        BY <2>6, <2>7
      <3>2. ASSUME NEW T \in SUBSET S, T # {} PROVE \E i \in T : it[T \ {i}] = f[T \ {i}] => it[T] = f[T]
        <4>1. PICK i \in T : i = Max(T)
          BY <2>1, <3>2
        <4>2. it[T] = AddOf(it[T \ {i}], order[i])
          BY <2>7, <3>2, <4>1
        <4>3. f[T] = AddOf(f[T \ {i}], order[i])
          BY <2>6, <3>2, <4>1
        <4> QED BY <4>2, <4>3
      <3> QED BY <3>1, <3>2 DEF StepAlike
    <2>9. it[S] = f[S]
      BY <2>1, <2>8, FoldUnique
    <2> QED BY <2>5, <2>9
  <1>4. ASSUME NEW y \in Batch(cells) PROVE y \in MadeOf(DB)
    <2>1. PICK order \in SetToSeqs(cells) :
            y \in (CHOOSE f : f = [T \in SUBSET DOMAIN order |-> IF T = {} THEN {DB}
                     ELSE LET i == Max(T) IN AddOf(f[T \ {i}], order[i])])[DOMAIN order]
      BY <1>4 DEF Batch, FoldLeft, MapThenFoldSet, AddOf
    <2>2. (CHOOSE f : f = [T \in SUBSET DOMAIN order |-> IF T = {} THEN {DB}
             ELSE LET i == Max(T) IN AddOf(f[T \ {i}], order[i])])[DOMAIN order] \in D
      <3> HIDE DEF D
      <3> QED BY <1>3
    <2> QED BY <2>1, <2>2
  <1> QED BY <1>4

\* One assignment of those ended in bulk.
EndOf(x, a, d) ==
  LET row == [x.sa[a] EXCEPT !.to = d] IN
  IF x.sa[a].state # "Submitted" THEN x
  ELSE [x EXCEPT !.sa[a] = IF Save(x, a, row) = {} \/ Punched(row) THEN row ELSE [row EXCEPT !.state = "Cancelled"]]

LEMMA EndIs ==
  ASSUME RosterPlan, NEW s, NEW x \in MadeOf(s), NEW a \in Assignments, a \in InBulk, NEW d \in Days
  PROVE  EndOf(x, a, d) \in MadeOf(s)
  <1>1. PICK row : row = [x.sa[a] EXCEPT !.to = d]
    OBVIOUS
  <1>2. PICK new : new = IF Save(x, a, row) = {} \/ Punched(row) THEN row ELSE [row EXCEPT !.state = "Cancelled"]
    OBVIOUS
  <1>3. EndOf(x, a, d) = IF x.sa[a].state # "Submitted" THEN x ELSE [x EXCEPT !.sa[a] = new]
    BY <1>1, <1>2, Zenon DEF EndOf
  <1>4. CASE x.sa[a].state = "Submitted"
    <2>1. x.sa[a] \in RosterRows
      BY <1>4, RosterRowIs DEF MadeOf, RosterDBs, SaTables
    <2>2. row \in RosterRows /\ row.emp = x.sa[a].emp /\ row.shift = x.sa[a].shift
      BY <1>1, <2>1 DEF RosterRows
    <2>3. [row EXCEPT !.state = "Cancelled"] \in RosterRows /\ [row EXCEPT !.state = "Cancelled"].emp = row.emp
          /\ [row EXCEPT !.state = "Cancelled"].shift = row.shift
      BY <2>2 DEF RosterRows
    <2>4. new = row \/ new = [row EXCEPT !.state = "Cancelled"]
      BY <1>2, Zenon
    <2>5. new \in RosterRows /\ new.emp = x.sa[a].emp /\ new.shift = x.sa[a].shift
      BY <2>2, <2>3, <2>4
    <2>6. [x EXCEPT !.sa[a] = new] \in MadeOf(s)
      BY <2>5, WrittenIs
    <2> QED BY <1>3, <1>4, <2>6
  <1> QED BY <1>3, <1>4

LEMMA BulkEndIs ==
  ASSUME RosterPlan, DB \in RosterDBs, NEW N \in Bulks, NEW d \in Days, NEW z,
         \E order \in SetToSeqs(N) :
           z = (CHOOSE f : f = [T \in SUBSET DOMAIN order |-> IF T = {} THEN DB
                  ELSE LET i == Max(T) IN EndOf(f[T \ {i}], order[i], d)])[DOMAIN order]
  PROVE  z \in MadeOf(DB)
  <1> DEFINE D == MadeOf(DB)
  <1>1. IsFiniteSet(N) /\ N \subseteq Assignments /\ N \subseteq InBulk
    BY FS_Subset DEF RosterPlan, InBulk
  <1>2. DB \in D
    BY DEF MadeOf, RosterDBs, Keeps
  <1>e. \A x \in D, a \in N : EndOf(x, a, d) \in D
    BY <1>1, EndIs
  <1>3. ASSUME NEW order \in SetToSeqs(N),
               NEW it, it = CHOOSE f : f = [T \in SUBSET DOMAIN order |-> IF T = {} THEN DB
                              ELSE LET i == Max(T) IN EndOf(f[T \ {i}], order[i], d)]
        PROVE  it[DOMAIN order] \in D
    <2> DEFINE S == DOMAIN order
               pick == LastOf(order)
               F == [p \in S \X D |-> EndOf(p[2], order[p[1]], d)]
    <2>1. /\ IsFiniteSet(S) /\ \A i \in S : order[i] \in N
          /\ \A T \in SUBSET S : T # {} => Max(T) \in T
      BY <1>1, <1>3, OrderIs
    <2>2. \A i \in S, y \in D : EndOf(y, order[i], d) \in D
      BY <1>e, <2>1
    <2> HIDE DEF D
    <2>3. F \in [S \X D -> D] /\ \A i \in S, y \in D : F[i, y] = EndOf(y, order[i], d)
      BY <2>2
    <2>4. \A T \in SUBSET S : T # {} => pick[T] \in T /\ pick[T] \in S /\ pick[T] = Max(T)
      BY <2>1 DEF LastOf
    <2> HIDE DEF F, pick
    <2>5. PICK f \in [SUBSET S -> D] : Recurs(f, S, DB, F, pick)
      BY <1>2, <2>1, <2>3, <2>4, FoldExists
    <2>6. f = [T \in SUBSET S |-> IF T = {} THEN DB ELSE LET i == Max(T) IN EndOf(f[T \ {i}], order[i], d)]
      <3>1. ASSUME NEW T \in SUBSET S, T # {}
            PROVE  F[pick[T], f[T \ {pick[T]}]] = LET i == Max(T) IN EndOf(f[T \ {i}], order[i], d)
        <4>1. pick[T] \in S /\ pick[T] = Max(T) /\ T \ {pick[T]} \in SUBSET S
          BY <2>4, <3>1
        <4>2. f[T \ {pick[T]}] \in D
          BY <2>5, <4>1
        <4> QED BY <2>3, <4>1, <4>2
      <3>2. \A T \in SUBSET S : (IF T = {} THEN DB ELSE F[pick[T], f[T \ {pick[T]}]])
              = (IF T = {} THEN DB ELSE LET i == Max(T) IN EndOf(f[T \ {i}], order[i], d))
        BY <3>1
      <3> QED BY <2>5, <3>2 DEF Recurs
    <2>7. it = [T \in SUBSET S |-> IF T = {} THEN DB ELSE LET i == Max(T) IN EndOf(it[T \ {i}], order[i], d)]
      BY <1>3, <2>6
    <2>8. StepAlike(S, it, f)
      <3>1. it[{}] = f[{}]
        BY <2>6, <2>7
      <3>2. ASSUME NEW T \in SUBSET S, T # {} PROVE \E i \in T : it[T \ {i}] = f[T \ {i}] => it[T] = f[T]
        <4>1. PICK i \in T : i = Max(T)
          BY <2>1, <3>2
        <4>2. it[T] = EndOf(it[T \ {i}], order[i], d)
          BY <2>7, <3>2, <4>1
        <4>3. f[T] = EndOf(f[T \ {i}], order[i], d)
          BY <2>6, <3>2, <4>1
        <4> QED BY <4>2, <4>3
      <3> QED BY <3>1, <3>2 DEF StepAlike
    <2>9. it[S] = f[S]
      BY <2>1, <2>8, FoldUnique
    <2> QED BY <2>5, <2>9
  <1> HIDE DEF D
  <1>4. z \in D
    BY <1>3
  <1> QED BY <1>4 DEF D

-----------------------------------------------------------------------------
RosterAsks  == [state : {"Draft", "Approved", "Rejected"}, emp : Employees, shift : Shifts, from : Days, to : Days]
RosterSwaps == [state : {"Open", "Approved", "Rejected"}, a : InstNames, b : InstNames]
\* The rows of the database, and the requests and swaps that employees made.
RosterInv ==
  /\ DB \in RosterDBs
  /\ sr \in [ShiftRequests -> RosterAsks \cup {NoRow}] /\ \A q \in ShiftRequests : sr[q] # NoRow => sr[q].from <= sr[q].to
  /\ swap \in [Swaps -> RosterSwaps \cup {NoRow}] /\ today \in Days

LEMMA DBIs ==
  ASSUME DB \in RosterDBs
  PROVE  /\ sa \in SaTables /\ inst \in InstTables /\ RosterApart(sa) /\ OwnInstances(sa, inst)
         /\ DB = [sa |-> sa, inst |-> inst] /\ DB \in MadeOf(DB) /\ DOMAIN inst = InstNames
         /\ \A a \in Assignments : sa[a] # NoRow => sa[a] \in RosterRows
         /\ \A a \in Assignments : sa[a].state = "Submitted" => sa[a] \in RosterRows
  <1>1. sa \in SaTables /\ inst \in InstTables /\ RosterApart(sa) /\ OwnInstances(sa, inst)
    BY DEF RosterDBs, DB
  <1>2. \A a \in Assignments : sa[a] # NoRow => sa[a] \in RosterRows
    BY <1>1 DEF SaTables
  <1>3. \A a \in Assignments : sa[a].state = "Submitted" => sa[a] \in RosterRows
    BY <1>2, RosterRowIs
  <1>4. DOMAIN inst = InstNames
    BY <1>1 DEF InstTables
  <1> QED BY <1>1, <1>2, <1>3, <1>4 DEF MadeOf, Keeps, DB

\* What is committed.
LEMMA CommitIs ==
  ASSUME NEW outcomes \in SUBSET MadeOf(DB), Commit(outcomes)
  PROVE  DB' \in RosterDBs
  <1>1. PICK x \in outcomes : sa' = x.sa /\ inst' = x.inst
    BY Zenon DEF Commit
  <1>2. x \in RosterDBs /\ x = [sa |-> x.sa, inst |-> x.inst]
    BY DEF MadeOf, RosterDBs
  <1> QED BY <1>1, <1>2 DEF DB

LEMMA BatchAll ==
  ASSUME RosterPlan, DB \in RosterDBs, NEW E \in SUBSET Employees, NEW p \in Shifts, NEW from \in Days,
         NEW to \in Days
  PROVE  Batch({Row(e, p, from, to) : e \in E}) \subseteq MadeOf(DB)
  <1>f. IsFiniteSet(E) /\ IsFiniteSet(Days)
    BY FS_Subset, FS_Interval DEF RosterPlan, Days
  <1> DEFINE f == [e \in E |-> Row(e, p, from, to)]
             cells == {Row(e, p, from, to) : e \in E}
  <1>1. IsFiniteSet({f[e] : e \in E})
    <2>1. DOMAIN f = E /\ f = [e \in E |-> f[e]]
      OBVIOUS
    <2> HIDE DEF f
    <2> QED BY <1>f, <2>1, ImageFinite
  <1>2. {f[e] : e \in E} = cells /\ cells \in SUBSET Standing
    BY RowStands
  <1> HIDE DEF f, cells
  <1>3. Batch(cells) \subseteq MadeOf(DB)
    BY <1>1, <1>2, BatchIs
  <1> QED BY <1>3 DEF cells

\* The rows of the shift p for the employees E, one of each run of days.
RunRows(E, p, runs) == {Row(e, p, w[1], w[2]) : e \in E, w \in runs}

LEMMA BatchRuns ==
  ASSUME RosterPlan, DB \in RosterDBs, NEW E \in SUBSET Employees, NEW p \in Shifts,
         NEW runs \in SUBSET (Days \X Days)
  PROVE  Batch(RunRows(E, p, runs)) \subseteq MadeOf(DB)
  <1> DEFINE cells == RunRows(E, p, runs)
  <1>0. \A c : c \in cells <=> \E e \in E, w \in runs : c = Row(e, p, w[1], w[2])
    BY DEF RunRows
  <1> HIDE DEF cells
  <1>f. IsFiniteSet(E) /\ IsFiniteSet(Days)
    BY FS_Subset, FS_Interval DEF RosterPlan, Days
  <1> DEFINE f == [q \in E \X runs |-> Row(q[1], p, q[2][1], q[2][2])]
  <1>1. IsFiniteSet(E \X runs)
    <2>1. IsFiniteSet(Days \X Days)
      BY <1>f, FS_Product
    <2>2. IsFiniteSet(runs)
      BY <2>1, FS_Subset
    <2> QED BY <1>f, <2>2, FS_Product
  <1>2. IsFiniteSet({f[q] : q \in E \X runs})
    <2>1. DOMAIN f = E \X runs /\ f = [q \in E \X runs |-> f[q]]
      OBVIOUS
    <2> HIDE DEF f
    <2> QED BY <1>1, <2>1, ImageFinite
  <1>3. cells \in SUBSET Standing
    <2>1. \A e \in E, w \in runs : Row(e, p, w[1], w[2]) \in Standing
      <3>1. \A w \in runs : w[1] \in Days /\ w[2] \in Days
        OBVIOUS
      <3> QED BY <3>1, RowStands
    <2> QED BY <1>0, <2>1
  <1>4. {f[q] : q \in E \X runs} = cells
    <2>1. \A e \in E, w \in runs : <<e, w>> \in E \X runs /\ f[<<e, w>>] = Row(e, p, w[1], w[2])
      OBVIOUS
    <2>2. \A q \in E \X runs : q[1] \in E /\ q[2] \in runs /\ f[q] = Row(q[1], p, q[2][1], q[2][2])
      OBVIOUS
    <2> HIDE DEF f
    <2>3. ASSUME NEW c \in {f[q] : q \in E \X runs} PROVE c \in cells
      <3>1. PICK q \in E \X runs : c = f[q]
        BY <2>3
      <3>2. PICK e : e = q[1]
        OBVIOUS
      <3>w. PICK w : w = q[2]
        OBVIOUS
      <3>3. e \in E /\ w \in runs /\ c = Row(e, p, w[1], w[2])
        BY <2>2, <3>1, <3>2, <3>w
      <3> QED BY <1>0, <3>3
    <2>4. ASSUME NEW c \in cells PROVE c \in {f[q] : q \in E \X runs}
      <3>1. PICK e \in E, w \in runs : c = Row(e, p, w[1], w[2])
        BY <1>0, <2>4
      <3> DEFINE q == <<e, w>>
      <3>3. q \in E \X runs /\ f[q] = c
        BY <2>1, <3>1
      <3> HIDE DEF q
      <3> QED BY <3>3
    <2> QED BY <2>3, <2>4
  <1> HIDE DEF f
  <1>5. Batch(cells) \subseteq MadeOf(DB)
    BY <1>2, <1>3, <1>4, BatchIs
  <1> QED BY <1>5 DEF cells

LEMMA BatchCopies ==
  ASSUME RosterPlan, DB \in RosterDBs, NEW E \in SUBSET Employees, NEW src, NEW dst \in Days
  PROVE  Batch({Row(sa[a].emp, sa[a].shift, dst, dst) :
           a \in {b \in Assignments : Applies(sa[b]) /\ sa[b].emp \in E /\ src \in Span(sa[b])}}) \subseteq MadeOf(DB)
  <1> DEFINE A == {b \in Assignments : Applies(sa[b]) /\ sa[b].emp \in E /\ src \in Span(sa[b])}
             f == [a \in A |-> Row(sa[a].emp, sa[a].shift, dst, dst)]
             cells == {Row(sa[a].emp, sa[a].shift, dst, dst) : a \in A}
  <1>1. IsFiniteSet(A)
    BY FS_Subset DEF RosterPlan
  <1>2. IsFiniteSet({f[a] : a \in A})
    <2>1. DOMAIN f = A /\ f = [a \in A |-> f[a]]
      OBVIOUS
    <2> HIDE DEF f, A
    <2> QED BY <1>1, <2>1, ImageFinite
  <1>3. cells \in SUBSET Standing
    <2>1. ASSUME NEW a \in A PROVE Row(sa[a].emp, sa[a].shift, dst, dst) \in Standing
      <3>1. sa[a] \in RosterRows
        BY DBIs DEF Applies
      <3>2. sa[a].emp \in Employees /\ sa[a].shift \in Shifts
        BY <3>1 DEF RosterRows
      <3> QED BY <3>2, RowStands
    <2> HIDE DEF A
    <2> QED BY <2>1
  <1>4. {f[a] : a \in A} = cells
    <2> HIDE DEF A
    <2> QED OBVIOUS
  <1> HIDE DEF f, cells
  <1>5. Batch(cells) \subseteq MadeOf(DB)
    BY <1>2, <1>3, <1>4, BatchIs
  <1> QED BY <1>5 DEF cells

\* A write of the schedule changes nothing else.
OthersStay == sr' = sr /\ swap' = swap /\ today' = today

LEMMA InsideIs ==
  ASSUME RosterInv, DB' \in RosterDBs, OthersStay
  PROVE  RosterInv'
  BY DEF RosterInv, OthersStay, Days, RosterAsks, RosterSwaps, InstNames, NoRow

LEMMA CreateKeeps ==
  ASSUME RosterPlan, RosterInv, NEW who \in Employees, NEW p \in Shifts, NEW from \in Days, NEW to \in Days,
         create_shift_assignment(who, p, from, to)
  PROVE  RosterInv'
  <1>0. DB \in RosterDBs /\ DB \in MadeOf(DB)
    BY DBIs DEF RosterInv
  <1>1. Row(who, p, from, to) \in Standing
    BY RowStands
  <1>2. _create_shift_assignment_core(DB, DB, Row(who, p, from, to)) \subseteq MadeOf(DB)
    BY <1>0, <1>1, CoreIs
  <1>3. DB' \in RosterDBs
    BY <1>2, CommitIs DEF create_shift_assignment
  <1> QED BY <1>3, InsideIs DEF create_shift_assignment, OthersStay

LEMMA BulkCreateKeeps ==
  ASSUME RosterPlan, RosterInv, NEW E \in SUBSET Employees, NEW p \in Shifts, NEW from \in Days, NEW to \in Days,
         bulk_create_shift_assignments(E, p, from, to)
  PROVE  RosterInv'
  <1>0. DB \in RosterDBs /\ DB \in MadeOf(DB)
    BY DBIs DEF RosterInv
  <1>1. Batch({Row(e, p, from, to) : e \in E}) \subseteq MadeOf(DB)
    BY <1>0, BatchAll
  <1>2. DB' \in RosterDBs
    BY <1>1, CommitIs DEF bulk_create_shift_assignments
  <1> QED BY <1>2, InsideIs DEF bulk_create_shift_assignments, OthersStay

LEMMA RecurKeeps ==
  ASSUME RosterPlan, RosterInv, NEW E \in SUBSET Employees, NEW p \in Shifts, NEW D \in SUBSET Days,
         generate_recurring_shift_assignments(E, p, D)
  PROVE  RosterInv'
  <1>0. DB \in RosterDBs /\ DB \in MadeOf(DB)
    BY DBIs DEF RosterInv
  <1> DEFINE runs == {w \in D \X D : /\ w[1] <= w[2] /\ w[1]..w[2] \subseteq D
                                     /\ w[1] - 1 \notin D /\ w[2] + 1 \notin D}
  <1>1. runs \in SUBSET (Days \X Days)
    OBVIOUS
  <1> DEFINE cells == {Row(e, p, w[1], w[2]) : e \in E, w \in runs}
  <1>2. Commit(Batch(cells)) /\ OthersStay
    BY DEF generate_recurring_shift_assignments, OthersStay
  <1> HIDE DEF runs
  <1>3. cells = RunRows(E, p, runs)
    BY DEF RunRows
  <1> HIDE DEF cells
  <1>4. Batch(cells) \subseteq MadeOf(DB)
    <2>1. Batch(RunRows(E, p, runs)) \subseteq MadeOf(DB)
      BY <1>0, <1>1, BatchRuns
    <2> QED BY <1>3, <2>1
  <1>5. DB' \in RosterDBs
    BY <1>2, <1>4, CommitIs
  <1> QED BY <1>2, <1>5, InsideIs

LEMMA CopyKeeps ==
  ASSUME RosterPlan, RosterInv, NEW E \in SUBSET Employees, NEW from \in Days, NEW to \in Days,
         copy_week_schedule(E, from, to)
  PROVE  RosterInv'
  <1>0. DB \in RosterDBs /\ DB \in MadeOf(DB)
    BY DBIs DEF RosterInv
  <1> DEFINE cells == {Row(sa[a].emp, sa[a].shift, to, to) :
                         a \in {b \in Assignments : Applies(sa[b]) /\ sa[b].emp \in E /\ from \in Span(sa[b])}}
  <1>1. Batch(cells) \subseteq MadeOf(DB)
    BY <1>0, BatchCopies
  <1>2. Commit(Batch(cells)) /\ OthersStay
    BY DEF copy_week_schedule, OthersStay
  <1> HIDE DEF cells
  <1>3. DB' \in RosterDBs
    BY <1>1, <1>2, CommitIs
  <1> QED BY <1>2, <1>3, InsideIs

LEMMA OverrideKeeps ==
  ASSUME RosterPlan, RosterInv, NEW who \in Employees, NEW from \in Days, NEW p \in Shifts,
         override_day_shift_assignment(who, from, p)
  PROVE  RosterInv'
  <1>0. DB \in RosterDBs /\ DB \in MadeOf(DB)
    BY DBIs DEF RosterInv
  <1>1. _override(DB, DB, who, from, p) \subseteq MadeOf(DB)
    BY <1>0, OverrideIs
  <1>2. DB' \in RosterDBs
    BY <1>1, CommitIs DEF override_day_shift_assignment
  <1> QED BY <1>2, InsideIs DEF override_day_shift_assignment, OthersStay

\* One row rewritten.
LEMMA RewrittenIs ==
  ASSUME RosterPlan, RosterInv, NEW a \in Assignments, sa[a].state = "Submitted", NEW d \in Days,
         NEW active \in BOOLEAN, NEW new,
         \/ new = [sa[a] EXCEPT !.to = d]
         \/ new = [sa[a] EXCEPT !.to = d, !.active = active]
         \/ new = [sa[a] EXCEPT !.active = active]
  PROVE  \A y \in Save(DB, a, new) : y \in MadeOf(DB) /\ y.sa[a] # NoRow
  <1>0. DB \in RosterDBs /\ DB \in MadeOf(DB) /\ DB.sa = sa
    BY DBIs DEF RosterInv
  <1>1. sa[a] \in RosterRows
    BY <1>0, DBIs
  <1>2. new \in Standing /\ new.emp = sa[a].emp /\ new.shift = sa[a].shift
    BY <1>1 DEF RosterRows, Standing
  <1>3. \A y \in Save(DB, a, new) : y \in MadeOf(DB) /\ y = [sa |-> [DB.sa EXCEPT ![a] = new], inst |-> DB.inst]
    BY <1>0, <1>2, RowSaveIs
  <1>4. new # NoRow
    BY <1>2, RosterRowIs DEF Standing
  <1>5. a \in DOMAIN sa
    BY <1>0, DBIs DEF SaTables
  <1> QED BY <1>0, <1>3, <1>4, <1>5

LEMMA EndKeeps ==
  ASSUME RosterPlan, RosterInv, NEW a \in Assignments, NEW to \in Days,
         end_shift_assignment(a, to)
  PROVE  RosterInv'
  <1>0. DB \in RosterDBs /\ DB \in MadeOf(DB) /\ DB.sa = sa
    BY DBIs DEF RosterInv
  <1>1. /\ sa[a].state = "Submitted" /\ OthersStay
        /\ Commit(UNION {Cancel(x, a) : x \in Save(DB, a, [sa[a] EXCEPT !.to = to])})
    BY DEF end_shift_assignment, OthersStay
  <1>2. \A x \in Save(DB, a, [sa[a] EXCEPT !.to = to]) : x \in MadeOf(DB) /\ x.sa[a] # NoRow
    BY <1>1, RewrittenIs
  <1>3. UNION {Cancel(x, a) : x \in Save(DB, a, [sa[a] EXCEPT !.to = to])} \subseteq MadeOf(DB)
    BY <1>2, CancelIs
  <1>4. DB' \in RosterDBs
    BY <1>1, <1>3, CommitIs
  <1> QED BY <1>1, <1>4, InsideIs

LEMMA UpdateKeeps ==
  ASSUME RosterPlan, RosterInv, NEW a \in Assignments, NEW to \in Days, NEW active \in BOOLEAN,
         update_shift_assignment(a, to, active)
  PROVE  RosterInv'
  <1>0. DB \in RosterDBs /\ DB \in MadeOf(DB) /\ DB.sa = sa
    BY DBIs DEF RosterInv
  <1>1. sa[a].state = "Submitted" /\ OthersStay /\ Commit(Save(DB, a, [sa[a] EXCEPT !.to = to, !.active = active]))
    BY DEF update_shift_assignment, OthersStay
  <1>2. Save(DB, a, [sa[a] EXCEPT !.to = to, !.active = active]) \subseteq MadeOf(DB)
    BY <1>1, RewrittenIs
  <1>3. DB' \in RosterDBs
    BY <1>1, <1>2, CommitIs
  <1> QED BY <1>1, <1>3, InsideIs

LEMMA StatusKeeps ==
  ASSUME RosterPlan, RosterInv, NEW a \in Assignments, NEW active \in BOOLEAN,
         set_shift_assignment_status(a, active)
  PROVE  RosterInv'
  <1>0. DB \in RosterDBs /\ DB \in MadeOf(DB) /\ DB.sa = sa
    BY DBIs DEF RosterInv
  <1>1. sa[a].state = "Submitted" /\ OthersStay /\ Commit(Save(DB, a, [sa[a] EXCEPT !.active = active]))
    BY DEF set_shift_assignment_status, OthersStay
  <1>2. Save(DB, a, [sa[a] EXCEPT !.active = active]) \subseteq MadeOf(DB)
    <2>1. 1 \in Days
      BY DEF Days, RosterPlan
    <2> QED BY <1>1, <2>1, RewrittenIs
  <1>3. DB' \in RosterDBs
    BY <1>1, <1>2, CommitIs
  <1> QED BY <1>1, <1>3, InsideIs

LEMMA AmendKeeps ==
  ASSUME RosterPlan, RosterInv, NEW a \in Assignments, NEW p \in Shifts, NEW from \in Days, NEW to \in Days,
         amend_shift_assignment(a, p, from, to)
  PROVE  RosterInv'
  <1>0. DB \in RosterDBs /\ DB \in MadeOf(DB) /\ DB.sa = sa
    BY DBIs DEF RosterInv
  <1> DEFINE Cuts == IF sa[a].state = "Cancelled" THEN {DB}
                     ELSE UNION {Cancel(x, a) : x \in IF from > sa[a].from
                            THEN Save(DB, a, [sa[a] EXCEPT !.to = from - 1]) ELSE {DB}}
  <1>1. /\ sa[a] # NoRow /\ OthersStay
        /\ Commit(UNION {Insert(x, Row(sa[a].emp, p, from, to)) : x \in Cuts})
    BY DEF amend_shift_assignment, OthersStay
  <1>2. sa[a] \in RosterRows
    BY <1>0, <1>1, DBIs
  <1>3. Cuts \subseteq MadeOf(DB)
    <2>1. CASE sa[a].state = "Cancelled"
      BY <1>0, <2>1
    <2>2. CASE sa[a].state # "Cancelled"
      <3>1. sa[a].state = "Submitted"
        BY <1>2, <2>2 DEF RosterRows
      <3>2. Cancel(DB, a) \subseteq MadeOf(DB)
        BY <1>0, <1>1, CancelIs
      <3>3. ASSUME from > sa[a].from
            PROVE  \A x \in Save(DB, a, [sa[a] EXCEPT !.to = from - 1]) : Cancel(x, a) \subseteq MadeOf(DB)
        <4>1. from - 1 \in Days
          BY <1>2, <3>3 DEF RosterRows, Days, RosterPlan
        <4>2. \A x \in Save(DB, a, [sa[a] EXCEPT !.to = from - 1]) : x \in MadeOf(DB) /\ x.sa[a] # NoRow
          BY <3>1, <4>1, RewrittenIs
        <4> QED BY <4>2, CancelIs
      <3> QED BY <2>2, <3>2, <3>3
    <2> QED BY <2>1, <2>2
  <1> HIDE DEF Cuts
  <1>4. Row(sa[a].emp, p, from, to) \in Standing
    <2>1. sa[a].emp \in Employees
      BY <1>2 DEF RosterRows
    <2> QED BY <2>1, RowStands
  <1>5. UNION {Insert(x, Row(sa[a].emp, p, from, to)) : x \in Cuts} \subseteq MadeOf(DB)
    BY <1>3, <1>4, InsertIs
  <1>6. DB' \in RosterDBs
    BY <1>1, <1>5, CommitIs
  <1> QED BY <1>1, <1>6, InsideIs

\* Rows that only lost their effect.
LEMMA SofterIs ==
  ASSUME RosterPlan, RosterInv, NEW t \in SaTables, NEW n \in InstTables,
         \A a \in Assignments \ InBulk : t[a] = sa[a] \/ ~Applies(t[a]),
         \A i \in InstNames : n[i].status # "None" =>
           /\ inst[i].status # "None" /\ n[i].of = inst[i].of
           /\ n[i].of \in Assignments \ InBulk =>
                /\ t[n[i].of].state = sa[n[i].of].state /\ t[n[i].of].emp = sa[n[i].of].emp
                /\ t[n[i].of].shift = sa[n[i].of].shift,
         sa' = t, inst' = n, OthersStay
  PROVE  RosterInv'
  <1>1. sa \in SaTables /\ inst \in InstTables /\ RosterApart(sa) /\ OwnInstances(sa, inst)
    BY DBIs DEF RosterInv
  <1>2. RosterApart(t)
    BY <1>1 DEF RosterApart
  <1>3. OwnInstances(t, n)
    BY <1>1 DEF OwnInstances
  <1>4. [sa |-> t, inst |-> n] \in RosterDBs
    BY <1>2, <1>3 DEF RosterDBs
  <1>5. DB' \in RosterDBs
    BY <1>4 DEF DB
  <1> QED BY <1>5, InsideIs

LEMMA BulkStatusKeeps ==
  ASSUME RosterPlan, RosterInv, NEW N \in Bulks, NEW active \in BOOLEAN,
         bulk_set_shift_assignment_status(N, active)
  PROVE  RosterInv'
  <1>0. /\ sa \in SaTables /\ inst \in InstTables /\ DOMAIN inst = InstNames
        /\ \A b \in Assignments : sa[b].state = "Submitted" => sa[b] \in RosterRows
        /\ OwnInstances(sa, inst)
    BY DBIs DEF RosterInv
  <1>n. NoInst \in [status : {"None", "Scheduled", "Cancelled", "Skipped"}, of : Assignments \cup {0}] /\ NoInst.status = "None"
    BY DEF NoInst
  <1>1. PICK t : t = [b \in Assignments |-> IF b \in N /\ sa[b].state = "Submitted" THEN [sa[b] EXCEPT !.active = active] ELSE sa[b]]
    OBVIOUS
  <1>2. sa' = t /\ inst' = inst /\ OthersStay
    BY <1>1 DEF bulk_set_shift_assignment_status, OthersStay
  <1>3. ASSUME NEW b \in Assignments
        PROVE  /\ t[b] \in RosterRows \cup {NoRow}
               /\ b \notin InBulk => t[b] = sa[b]
    <2>1. CASE b \in N /\ sa[b].state = "Submitted"
      <3>1. sa[b] \in RosterRows /\ b \in InBulk
        BY <1>0, <2>1 DEF InBulk
      <3>2. [sa[b] EXCEPT !.active = active] \in RosterRows
        BY <3>1 DEF RosterRows
      <3> QED BY <1>1, <2>1, <3>1, <3>2
    <2>2. CASE ~(b \in N /\ sa[b].state = "Submitted")
      BY <1>0, <1>1, <2>2 DEF SaTables
    <2> QED BY <2>1, <2>2
  <1>4. t \in SaTables
    <2>1. t = [b \in Assignments |-> t[b]]
      BY <1>1
    <2>2. \A b \in Assignments : t[b] \in RosterRows \cup {NoRow}
      BY <1>3
    <2> QED BY <2>1, <2>2 DEF SaTables
  <1> QED BY <1>0, <1>2, <1>3, <1>4, SofterIs

LEMMA DeleteKeeps ==
  ASSUME RosterPlan, RosterInv, NEW a \in Assignments,
         delete_shift_assignment(a)
  PROVE  RosterInv'
  <1>0. /\ sa \in SaTables /\ inst \in InstTables /\ DOMAIN inst = InstNames
        /\ \A b \in Assignments : sa[b].state = "Submitted" => sa[b] \in RosterRows
        /\ OwnInstances(sa, inst)
    BY DBIs DEF RosterInv
  <1>n. NoInst \in [status : {"None", "Scheduled", "Cancelled", "Skipped"}, of : Assignments \cup {0}] /\ NoInst.status = "None"
    BY DEF NoInst
  <1>1. PICK t : t = [sa EXCEPT ![a] = NoRow]
    OBVIOUS
  <1>2. PICK n : n = [i \in DOMAIN inst |-> IF i \in Instances(DB, a) THEN NoInst ELSE inst[i]]
    OBVIOUS
  <1>3. sa' = t /\ inst' = n /\ OthersStay
    BY <1>1, <1>2 DEF delete_shift_assignment, OthersStay
  <1>4. t \in SaTables /\ \A b \in Assignments : t[b] = IF b = a THEN NoRow ELSE sa[b]
    BY <1>0, <1>1 DEF SaTables
  <1>5. n \in InstTables /\ \A i \in InstNames : n[i] = IF i \in Instances(DB, a) THEN NoInst ELSE inst[i]
    BY <1>0, <1>n, <1>2 DEF InstTables
  <1>6. \A i \in InstNames : i \in Instances(DB, a) <=> inst[i].status # "None" /\ inst[i].of = a
    BY DEF Instances, DB, InstNames
  <1>7. \A b \in Assignments \ InBulk : t[b] = sa[b] \/ ~Applies(t[b])
    BY <1>4, RosterRowIs
  <1>8. ASSUME NEW i \in InstNames, n[i].status # "None"
        PROVE  inst[i].status # "None" /\ n[i].of = inst[i].of /\ (n[i].of \in Assignments => t[n[i].of] = sa[n[i].of])
    <2>1. i \notin Instances(DB, a) /\ n[i] = inst[i]
      BY <1>n, <1>5, <1>8
    <2> QED BY <1>4, <1>6, <1>8, <2>1
  <1> QED BY <1>3, <1>4, <1>5, <1>7, <1>8, SofterIs

LEMMA LeaverKeeps ==
  ASSUME RosterPlan, RosterInv, NEW e \in Employees, NEW d \in Days,
         handle_employee_status_change(e, d)
  PROVE  RosterInv'
  <1>0. /\ sa \in SaTables /\ inst \in InstTables /\ DOMAIN inst = InstNames
        /\ \A b \in Assignments : sa[b].state = "Submitted" => sa[b] \in RosterRows
        /\ OwnInstances(sa, inst)
    BY DBIs DEF RosterInv
  <1>n. NoInst \in [status : {"None", "Scheduled", "Cancelled", "Skipped"}, of : Assignments \cup {0}] /\ NoInst.status = "None"
    BY DEF NoInst
  <1>1. PICK t : t = [b \in Assignments |-> IF Applies(sa[b]) /\ sa[b].emp = e THEN [sa[b] EXCEPT !.to = d, !.active = FALSE] ELSE sa[b]]
    OBVIOUS
  <1>2. PICK n : n = [i \in DOMAIN inst |-> IF i[1] = e /\ i[3] > d /\ i[2] \notin punch[e][i[3]] THEN NoInst ELSE inst[i]]
    OBVIOUS
  <1>3. sa' = t /\ inst' = n /\ OthersStay
    BY <1>1, <1>2 DEF handle_employee_status_change, OthersStay
  <1>4. ASSUME NEW b \in Assignments
        PROVE  /\ t[b] \in RosterRows \cup {NoRow}
               /\ t[b] = sa[b] \/ ~Applies(t[b])
               /\ t[b].state = sa[b].state /\ t[b].emp = sa[b].emp /\ t[b].shift = sa[b].shift
    <2>1. CASE Applies(sa[b]) /\ sa[b].emp = e
      <3>1. sa[b] \in RosterRows
        BY <1>0, <2>1 DEF Applies
      <3>2. PICK row : row = [sa[b] EXCEPT !.to = d, !.active = FALSE]
        OBVIOUS
      <3>3. row \in RosterRows /\ ~Applies(row) /\ row.state = sa[b].state /\ row.emp = sa[b].emp /\ row.shift = sa[b].shift
        BY <3>1, <3>2 DEF RosterRows, Applies
      <3>4. t[b] = row
        BY <1>1, <2>1, <3>2
      <3> QED BY <3>3, <3>4
    <2>2. CASE ~(Applies(sa[b]) /\ sa[b].emp = e)
      BY <1>0, <1>1, <2>2 DEF SaTables
    <2> QED BY <2>1, <2>2
  <1>5. t \in SaTables
    <2>1. t = [b \in Assignments |-> t[b]]
      BY <1>1
    <2>2. \A b \in Assignments : t[b] \in RosterRows \cup {NoRow}
      BY <1>4
    <2> QED BY <2>1, <2>2 DEF SaTables
  <1>6. n \in InstTables /\ \A i \in InstNames : n[i] = NoInst \/ n[i] = inst[i]
    BY <1>0, <1>n, <1>2 DEF InstTables
  <1>7. \A i \in InstNames : n[i].status # "None" => n[i] = inst[i]
    BY <1>n, <1>6
  <1>8. ASSUME NEW i \in InstNames, n[i].status # "None"
        PROVE  /\ inst[i].status # "None" /\ n[i].of = inst[i].of
               /\ n[i].of \in Assignments =>
                    /\ t[n[i].of].state = sa[n[i].of].state /\ t[n[i].of].emp = sa[n[i].of].emp
                    /\ t[n[i].of].shift = sa[n[i].of].shift
    BY <1>4, <1>7, <1>8
  <1> QED BY <1>3, <1>4, <1>5, <1>6, <1>8, SofterIs

LEMMA BulkEndKeeps ==
  ASSUME RosterPlan, RosterInv, NEW N \in Bulks, NEW d \in Days, bulk_end_shift_assignments(N, d)
  PROVE  RosterInv'
  <1>0. DB \in RosterDBs
    BY DEF RosterInv
  <1>1. PICK y : /\ sa' = y.sa /\ inst' = y.inst
                 /\ \E order \in SetToSeqs(N) :
                      y = (CHOOSE f : f = [T \in SUBSET DOMAIN order |-> IF T = {} THEN DB
                             ELSE LET i == Max(T) IN EndOf(f[T \ {i}], order[i], d)])[DOMAIN order]
    BY Zenon DEF bulk_end_shift_assignments, Commit, FoldLeft, MapThenFoldSet, EndOf
  <1>2. y \in MadeOf(DB)
    BY <1>0, <1>1, BulkEndIs
  <1>3. y \in RosterDBs /\ y = [sa |-> y.sa, inst |-> y.inst]
    BY <1>2 DEF MadeOf, RosterDBs
  <1>4. DB' \in RosterDBs
    BY <1>1, <1>3 DEF DB
  <1>5. OthersStay
    BY DEF bulk_end_shift_assignments, OthersStay
  <1> QED BY <1>4, <1>5, InsideIs

LEMMA AskedIs ==
  ASSUME RosterInv
  PROVE  /\ \A q \in ShiftRequests : sr[q] # NoRow => sr[q] \in RosterAsks
         /\ \A q \in ShiftRequests : sr[q].state # "None" => sr[q] # NoRow
         /\ \A w \in Swaps : swap[w] # NoRow => swap[w] \in RosterSwaps
         /\ \A w \in Swaps : swap[w].state = "Open" => swap[w] # NoRow
  BY DEF RosterInv, NoRow

LEMMA AskKeeps ==
  ASSUME RosterInv, NEW q \in ShiftRequests, NEW row \in RosterAsks \cup {NoRow}, row # NoRow => row.from <= row.to,
         sr' = [sr EXCEPT ![q] = row], DB' \in RosterDBs, UNCHANGED <<swap, today>>
  PROVE  RosterInv'
  <1>1. sr' \in [ShiftRequests -> RosterAsks \cup {NoRow}] /\ \A p \in ShiftRequests : sr'[p] = IF p = q THEN row ELSE sr[p]
    BY DEF RosterInv
  <1>2. \A p \in ShiftRequests : sr'[p] # NoRow => sr'[p].from <= sr'[p].to
    BY <1>1 DEF RosterInv
  <1> QED BY <1>1, <1>2 DEF RosterInv, RosterAsks, RosterSwaps, InstNames, Days, NoRow

LEMMA RequestKeeps ==
  ASSUME RosterInv, NEW q \in ShiftRequests, NEW e \in Employees, NEW p \in Shifts, NEW from \in Days,
         NEW to \in Days,
         create_shift_request(q, e, p, from, to) \/ create_my_shift_request(q, e, p, from, to)
  PROVE  RosterInv'
  <1>1. PICK row : row = [state |-> "Draft", emp |-> e, shift |-> p, from |-> from, to |-> to]
    OBVIOUS
  <1>2. row \in RosterAsks
    BY <1>1 DEF RosterAsks
  <1>3. from <= to /\ sr' = [sr EXCEPT ![q] = row] /\ UNCHANGED <<sa, inst, swap, today>>
    BY <1>1 DEF create_shift_request, create_my_shift_request, NewRequest
  <1>4. DB' \in RosterDBs
    BY <1>3 DEF RosterInv, DB
  <1> QED BY <1>1, <1>2, <1>3, <1>4, AskKeeps

LEMMA WithdrawKeeps ==
  ASSUME RosterInv, NEW q \in ShiftRequests, cancel_my_shift_request(q)
  PROVE  RosterInv'
  <1>1. sr' = [sr EXCEPT ![q] = NoRow] /\ UNCHANGED <<sa, inst, swap, today>>
    BY DEF cancel_my_shift_request
  <1>2. DB' \in RosterDBs
    BY <1>1 DEF RosterInv, DB
  <1> QED BY <1>1, <1>2, AskKeeps

LEMMA ApproveKeeps ==
  ASSUME RosterPlan, RosterInv, NEW q \in ShiftRequests, approve_shift_request(q)
  PROVE  RosterInv'
  <1>0. DB \in RosterDBs /\ DB \in MadeOf(DB)
    BY DBIs DEF RosterInv
  <1>1. /\ sr[q].state \in {"Draft", "Rejected"}
        /\ Commit(_create_shift_assignment_core(DB, DB, Row(sr[q].emp, sr[q].shift, sr[q].from, sr[q].to)))
        /\ sr' = [sr EXCEPT ![q].state = "Approved"] /\ UNCHANGED <<swap, today>>
    BY DEF approve_shift_request
  <1>2. sr[q] \in RosterAsks /\ sr[q] # NoRow
    BY <1>1, AskedIs
  <1>3. Row(sr[q].emp, sr[q].shift, sr[q].from, sr[q].to) \in Standing
    <2>1. sr[q].emp \in Employees /\ sr[q].shift \in Shifts /\ sr[q].from \in Days /\ sr[q].to \in Days
      BY <1>2 DEF RosterAsks
    <2> QED BY <2>1, RowStands
  <1>4. _create_shift_assignment_core(DB, DB, Row(sr[q].emp, sr[q].shift, sr[q].from, sr[q].to)) \subseteq MadeOf(DB)
    BY <1>0, <1>3, CoreIs
  <1>5. DB' \in RosterDBs
    BY <1>1, <1>4, CommitIs
  <1>6. PICK row : row = [sr[q] EXCEPT !.state = "Approved"]
    OBVIOUS
  <1>7. row \in RosterAsks /\ row.from = sr[q].from /\ row.to = sr[q].to
    BY <1>2, <1>6 DEF RosterAsks
  <1>8. sr' = [sr EXCEPT ![q] = row] /\ row.from <= row.to
    BY <1>1, <1>2, <1>6, <1>7 DEF RosterInv
  <1> QED BY <1>1, <1>5, <1>7, <1>8, AskKeeps

LEMMA RejectKeeps ==
  ASSUME RosterInv, NEW q \in ShiftRequests, reject_shift_request(q)
  PROVE  RosterInv'
  <1>1. sr[q] # NoRow /\ sr' = [sr EXCEPT ![q].state = "Rejected"] /\ UNCHANGED <<sa, inst, swap, today>>
    BY DEF reject_shift_request
  <1>2. sr[q] \in RosterAsks
    BY <1>1, AskedIs
  <1>3. PICK row : row = [sr[q] EXCEPT !.state = "Rejected"]
    OBVIOUS
  <1>4. row \in RosterAsks /\ row.from = sr[q].from /\ row.to = sr[q].to
    BY <1>2, <1>3 DEF RosterAsks
  <1>5. sr' = [sr EXCEPT ![q] = row] /\ row.from <= row.to
    BY <1>1, <1>3, <1>4 DEF RosterInv
  <1>6. DB' \in RosterDBs
    BY <1>1 DEF RosterInv, DB
  <1> QED BY <1>1, <1>4, <1>5, <1>6, AskKeeps

LEMMA SwapRowKeeps ==
  ASSUME RosterInv, NEW w \in Swaps, NEW row \in RosterSwaps, swap' = [swap EXCEPT ![w] = row], DB' \in RosterDBs, UNCHANGED <<sr, today>>
  PROVE  RosterInv'
  <1>1. swap' \in [Swaps -> RosterSwaps \cup {NoRow}]
    BY DEF RosterInv
  <1> QED BY <1>1 DEF RosterInv, RosterAsks, RosterSwaps, InstNames, Days, NoRow

LEMMA SwapAskedKeeps ==
  ASSUME RosterInv, NEW w \in Swaps, NEW i \in InstNames, NEW j \in InstNames, create_swap_request(w, i, j)
  PROVE  RosterInv'
  <1>1. PICK row : row = [state |-> "Open", a |-> i, b |-> j]
    OBVIOUS
  <1>2. row \in RosterSwaps
    BY <1>1 DEF RosterSwaps
  <1>3. swap' = [swap EXCEPT ![w] = row] /\ UNCHANGED <<sa, inst, sr, today>>
    BY <1>1 DEF create_swap_request
  <1>4. DB' \in RosterDBs
    BY <1>3 DEF RosterInv, DB
  <1> QED BY <1>2, <1>3, <1>4, SwapRowKeeps

LEMMA SwapDecidedKeeps ==
  ASSUME RosterPlan, RosterInv, NEW w \in Swaps, NEW decision \in {"Approved", "Rejected"}, decide_swap_request(w, decision)
  PROVE  RosterInv'
  <1>0. DB \in RosterDBs
    BY DEF RosterInv
  <1>1. /\ swap[w].state = "Open"
        /\ \/ UNCHANGED <<sa, inst>>
           \/ Commit(SwapDays(swap[w].a, swap[w].b))
        /\ swap' = [swap EXCEPT ![w].state = decision] /\ UNCHANGED <<sr, today>>
    BY DEF decide_swap_request
  <1>2. swap[w] \in RosterSwaps
    BY <1>1, AskedIs
  <1>3. swap[w].a \in InstNames /\ swap[w].b \in InstNames
    BY <1>2 DEF RosterSwaps
  <1>4. SwapDays(swap[w].a, swap[w].b) \subseteq MadeOf(DB)
    BY <1>0, <1>3, SwapDaysIs
  <1>5. DB' \in RosterDBs
    <2>1. UNCHANGED <<sa, inst>> => DB' \in RosterDBs
      BY <1>0 DEF DB
    <2> QED BY <1>1, <1>4, <2>1, CommitIs
  <1>6. PICK row : row = [swap[w] EXCEPT !.state = decision]
    OBVIOUS
  <1>7. row \in RosterSwaps
    BY <1>2, <1>6 DEF RosterSwaps
  <1>8. swap' = [swap EXCEPT ![w] = row]
    BY <1>1, <1>6 DEF RosterInv
  <1> QED BY <1>1, <1>5, <1>7, <1>8, SwapRowKeeps

LEMMA NightKeeps ==
  ASSUME RosterPlan, RosterInv, generate_daily_shift_instances
  PROVE  RosterInv'
  <1>0. DB \in RosterDBs /\ DB \in MadeOf(DB)
    BY DBIs DEF RosterInv
  <1>g. ASSUME NEW A, NEW f, NEW t PROVE _materialise_shift_instances(DB, DB, A, f, t) \subseteq MadeOf(DB)
    BY <1>0, GenerateIs DEF Generated
  <1>1. Commit(_materialise_shift_instances(DB, DB, Employees, today, today + Horizon)) /\ OthersStay
    BY DEF generate_daily_shift_instances, OthersStay
  <1>2. DB' \in RosterDBs
    BY <1>g, <1>1, CommitIs
  <1> QED BY <1>1, <1>2, InsideIs

LEMMA BackfillKeeps ==
  ASSUME RosterPlan, RosterInv, NEW E, NEW from, NEW to,
         backfill_shift_instances(E, from, to)
  PROVE  RosterInv'
  <1>0. DB \in RosterDBs /\ DB \in MadeOf(DB)
    BY DBIs DEF RosterInv
  <1>g. ASSUME NEW A, NEW f, NEW t PROVE _materialise_shift_instances(DB, DB, A, f, t) \subseteq MadeOf(DB)
    BY <1>0, GenerateIs DEF Generated
  <1>1. Commit(_materialise_shift_instances(DB, DB, E, from, to)) /\ OthersStay
    BY DEF backfill_shift_instances, OthersStay
  <1>2. DB' \in RosterDBs
    BY <1>g, <1>1, CommitIs
  <1> QED BY <1>1, <1>2, InsideIs

LEMMA SwapDaysKeeps ==
  ASSUME RosterPlan, RosterInv, NEW i \in InstNames, NEW j \in InstNames,
         swap_shift_days(i, j)
  PROVE  RosterInv'
  <1>0. DB \in RosterDBs /\ DB \in MadeOf(DB)
    BY DBIs DEF RosterInv
  <1>1. Commit(SwapDays(i, j)) /\ OthersStay
    BY DEF swap_shift_days, OthersStay
  <1>2. DB' \in RosterDBs
    BY <1>0, <1>1, SwapDaysIs, CommitIs
  <1> QED BY <1>1, <1>2, InsideIs

LEMMA InstanceKeeps ==
  ASSUME RosterPlan, RosterInv, NEW i \in InstNames, NEW status \in {"Scheduled", "Cancelled", "Skipped"},
         set_shift_instance_status(i, status)
  PROVE  RosterInv'
  <1>0. DB \in RosterDBs /\ DB \in MadeOf(DB)
    BY DBIs DEF RosterInv
  <1>1. inst \in InstTables /\ sa \in SaTables
    BY DBIs DEF RosterInv
  <1>2. PICK n : n = [inst EXCEPT ![i].status = status]
    OBVIOUS
  <1>3. /\ n \in InstTables
        /\ \A k \in InstNames : n[k].of = inst[k].of /\ (k # i => n[k] = inst[k])
    BY <1>1, <1>2 DEF InstTables
  <1>4. inst[i].status # "None" /\ inst' = n /\ sa' = sa /\ OthersStay
    BY <1>2 DEF set_shift_instance_status, Exists, OthersStay
  <1>5. ASSUME NEW k \in InstNames, n[k].status # "None" PROVE inst[k].status # "None" /\ n[k].of = inst[k].of
    BY <1>3, <1>4, <1>5
  <1> QED BY <1>1, <1>3, <1>4, <1>5, SofterIs

LEMMA CheckInKeeps ==
  ASSUME RosterPlan, RosterInv, NEW i,
         CheckIn(i)
  PROVE  RosterInv'
  <1>0. DB \in RosterDBs /\ DB \in MadeOf(DB)
    BY DBIs DEF RosterInv
  <1>1. UNCHANGED <<sa, inst>> /\ OthersStay
    BY DEF CheckIn, OthersStay
  <1> QED BY <1>0, <1>1, InsideIs DEF DB

LEMMA NextDayKeeps ==
  ASSUME RosterPlan, RosterInv, NextDay
  PROVE  RosterInv'
  <1>0. DB \in RosterDBs /\ DB \in MadeOf(DB)
    BY DBIs DEF RosterInv
  <1>1. today < LastDay /\ today' = today + 1 /\ UNCHANGED <<sa, inst, sr, swap>>
    BY DEF NextDay
  <1>2. today' \in Days
    BY <1>1 DEF RosterInv, Days, RosterPlan
  <1>3. DB' \in RosterDBs
    BY <1>0, <1>1 DEF DB
  <1> QED BY <1>1, <1>2, <1>3 DEF RosterInv, RosterAsks, RosterSwaps, InstNames, Days, NoRow

\* Every step keeps the rows.
LEMMA RosterStep ==
  ASSUME RosterPlan, RosterInv, [Next]_vars
  PROVE  RosterInv'
  <1>0. DOMAIN inst = InstNames
    BY DBIs DEF RosterInv
  <1>1. CASE Assign
    <2>1. ASSUME NEW e \in Employees, NEW p \in Shifts, NEW from \in Days,
                 NEW to \in Days, create_shift_assignment(e, p, from, to)
          PROVE  RosterInv'
      BY <2>1, CreateKeeps
    <2>2. ASSUME NEW E \in SUBSET Employees, NEW p \in Shifts, NEW from \in Days,
                 NEW to \in Days, bulk_create_shift_assignments(E, p, from, to)
          PROVE  RosterInv'
      BY <2>2, BulkCreateKeeps
    <2>3. ASSUME NEW E \in SUBSET Employees, NEW p \in Shifts,
                 NEW D \in SUBSET Days, generate_recurring_shift_assignments(E, p, D)
          PROVE  RosterInv'
      BY <2>3, RecurKeeps
    <2>4. ASSUME NEW E \in SUBSET Employees, NEW from \in Days, NEW to \in Days, copy_week_schedule(E, from, to)
          PROVE  RosterInv'
      BY <2>4, CopyKeeps
    <2>5. ASSUME NEW N \in Bulks
          PROVE  /\ \A d \in Days : bulk_end_shift_assignments(N, d) => RosterInv'
                 /\ \A active \in BOOLEAN : bulk_set_shift_assignment_status(N, active) => RosterInv'
      BY BulkEndKeeps, BulkStatusKeeps
    <2>6. ASSUME NEW a \in Assignments
          PROVE  /\ \A d \in Days : end_shift_assignment(a, d) => RosterInv'
                 /\ \A active \in BOOLEAN : /\ set_shift_assignment_status(a, active) => RosterInv'
                                          /\ \A to \in Days : update_shift_assignment(a, to, active) => RosterInv'
                 /\ \A p \in Shifts, from, to \in Days : amend_shift_assignment(a, p, from, to) => RosterInv'
                 /\ delete_shift_assignment(a) => RosterInv'
      BY EndKeeps, StatusKeeps, UpdateKeeps, AmendKeeps, DeleteKeeps
    <2>7. ASSUME NEW e \in Employees, NEW d \in Days
          PROVE  /\ \A p \in Shifts : override_day_shift_assignment(e, d, p) => RosterInv'
                 /\ handle_employee_status_change(e, d) => RosterInv'
      BY OverrideKeeps, LeaverKeeps
    <2> QED BY <1>1, <2>1, <2>2, <2>3, <2>4, <2>5, <2>6, <2>7 DEF Assign
  <1>2. CASE Ask
    <2>1. ASSUME NEW q \in ShiftRequests
          PROVE  /\ \A e \in Employees, p \in Shifts, from, to \in Days :
                      create_shift_request(q, e, p, from, to) \/ create_my_shift_request(q, e, p, from, to) => RosterInv'
                 /\ cancel_my_shift_request(q) \/ approve_shift_request(q) \/ reject_shift_request(q) => RosterInv'
      BY RequestKeeps, WithdrawKeeps, ApproveKeeps, RejectKeeps
    <2>2. ASSUME NEW w \in Swaps
          PROVE  /\ \A i, j \in InstNames : create_swap_request(w, i, j) => RosterInv'
                 /\ \A decision \in {"Approved", "Rejected"} : decide_swap_request(w, decision) => RosterInv'
      BY SwapAskedKeeps, SwapDecidedKeeps
    <2> QED BY <1>0, <1>2, <2>1, <2>2 DEF Ask
  <1>3. CASE \E i, j \in InstNames : swap_shift_days(i, j)
    BY <1>3, SwapDaysKeeps
  <1>4. CASE \E i \in InstNames : \/ CheckIn(i)
                                 \/ \E status \in {"Scheduled", "Cancelled", "Skipped"} : set_shift_instance_status(i, status)
    BY <1>4, CheckInKeeps, InstanceKeeps
  <1>5. CASE generate_daily_shift_instances \/ NextDay
    BY <1>5, NightKeeps, NextDayKeeps
  <1>6. CASE \E E \in SUBSET Employees, from, to \in Days : backfill_shift_instances(E, from, to)
    BY <1>6, BackfillKeeps
  <1>7. CASE UNCHANGED vars
    BY <1>7 DEF RosterInv, vars, DB, RosterAsks, RosterSwaps, InstNames, Days, NoRow
  <1> QED BY <1>0, <1>1, <1>2, <1>3, <1>4, <1>5, <1>6, <1>7 DEF Next

LEMMA RosterInit ==
  ASSUME RosterPlan, Init
  PROVE  RosterInv
  <1>1. PICK t, n : t = sa /\ n = inst
    OBVIOUS
  <1>2. t \in SaTables /\ \A a \in Assignments : t[a] = NoRow
    BY <1>1 DEF Init, SaTables
  <1>3. n \in InstTables /\ \A i \in InstNames : n[i].status = "None"
    BY <1>1 DEF Init, InstTables, InstNames, NoInst
  <1>4. RosterApart(t) /\ OwnInstances(t, n)
    BY <1>2, <1>3, RosterRowIs DEF RosterApart, OwnInstances
  <1>5. DB \in RosterDBs
    BY <1>1, <1>2, <1>3, <1>4 DEF RosterDBs, DB
  <1>6. today \in Days
    BY DEF Init, Days, RosterPlan
  <1> QED BY <1>5, <1>6 DEF RosterInv, Init

LEMMA RosterHolds ==
  ASSUME RosterPlan
  PROVE  Spec => []RosterInv
  BY RosterInit, RosterStep, PTL DEF Spec

\* The types of the rows of the schedule, of its instances, requests and swaps (shift.py, admin.py).
THEOREM RosterTyped ==
  ASSUME RosterPlan
  PROVE  Spec => []TypeOK
  <1>1. RosterInv => TypeOK
    <2> SUFFICES ASSUME RosterInv PROVE TypeOK
      OBVIOUS
    <2>1. \A a \in Assignments : sa[a] # NoRow => sa[a] \in RosterRows
      BY DBIs DEF RosterInv
    <2>2. inst \in InstTables /\ DOMAIN inst = InstNames
      BY DBIs DEF RosterInv
    <2>3. /\ \A q \in ShiftRequests : sr[q].state \in {"None", "Draft", "Approved", "Rejected"}
          /\ \A w \in Swaps : swap[w].state \in {"None", "Open", "Approved", "Rejected"}
      BY DEF RosterInv, RosterAsks, RosterSwaps, NoRow
    <2> QED BY <2>1, <2>2, <2>3 DEF TypeOK, RosterInv, RosterRows, InstTables
  <1> QED BY <1>1, RosterHolds, PTL

\* Nobody is booked twice, whatever was cut, ended, amended, switched, overridden or swapped (shift.py, admin.py).
THEOREM NobodyBookedTwice ==
  ASSUME RosterPlan
  PROVE  Spec => []NoDoubleBooking
  <1>1. RosterInv => NoDoubleBooking
    BY DBIs DEF RosterInv, NoDoubleBooking, RosterApart, InBulk
  <1> QED BY <1>1, RosterHolds, PTL

\* No instance outlives its assignment, nor is one made for an assignment that was rolled back (admin.py, shift.py).
THEOREM NoInstanceOrphaned ==
  ASSUME RosterPlan
  PROVE  Spec => []NoOrphanInstance
  <1>1. RosterInv => NoOrphanInstance
    BY DBIs DEF RosterInv, NoOrphanInstance, OwnInstances, InBulk, Exists
  <1> QED BY <1>1, RosterHolds, PTL

-----------------------------------------------------------------------------
(* The screens. *)

\* Nobody is not a shift, and those who have not left are employees.
RosterScreens == Nobody \notin Shifts /\ Active \subseteq Employees

\* The cells of a day: one of its instances, one of its assignments.
DayInstances(e, d) == {i \in {e} \X Shifts \X {d} : Exists(i)}
Covering(e, d) == {a \in Assignments : Applies(sa[a]) /\ sa[a].emp = e /\ d \in Span(sa[a])}
OrElse(S, none) == IF S = {} THEN {none} ELSE S
CellOf(v, e, d, i, a) ==
  [shift |-> IF i # NoDay THEN i[2] ELSE IF a # 0 THEN sa[a].shift ELSE Nobody,
   assignment |-> a, instance |-> i, leave |-> <<e, d>> \in OnLeave,
   can |-> _grid_cell_can(is_hr(v) \/ v.emp # Nobody, d \in LockedDays, d, a, i, Drafts({e}, {d}) # {}),
   unassigned |-> a = 0 /\ i = NoDay /\ <<e, d>> \notin OnLeave /\ d >= today]

LEMMA CellsAre ==
  ASSUME NEW v, NEW e, NEW d
  PROVE  /\ \A i \in OrElse(DayInstances(e, d), NoDay), a \in OrElse(Covering(e, d), 0) : CellOf(v, e, d, i, a) \in Cells(v, e, d)
         /\ \A c \in Cells(v, e, d) :
              \E i \in OrElse(DayInstances(e, d), NoDay), a \in OrElse(Covering(e, d), 0) : c = CellOf(v, e, d, i, a)
  <1>1. Cells(v, e, d) = {CellOf(v, e, d, i, a) : i \in OrElse(DayInstances(e, d), NoDay), a \in OrElse(Covering(e, d), 0)}
    BY DEF Cells, CellOf, OrElse, DayInstances, Covering
  <1> QED BY <1>1

LEMMA AllowedIs ==
  ASSUME TRUE
  PROVE  OfferedIsAllowed
  <1> SUFFICES ASSUME NEW v \in Viewers, _is_schedule_manager(v), NEW e \in _team_scope_members(v)
               PROVE  /\ _assert_can_view_employee(v, e)
                      /\ \A action \in team_schedule_context(v, Days).can : Passes(v, e, action)
                      /\ \A d \in Days : \A c \in Cells(v, e, d) :
                           \A action \in c.can : Passes(v, e, action) \/ (action = "skip" /\ is_hr(v))
    BY DEF OfferedIsAllowed
  <1>1. is_hr(v) \/ LineManagerOf(v, e)
    BY DEF _is_schedule_manager, is_hr, LineManagerOf, _team_scope_members, Holds, SCHEDULE_MANAGER_ROLES
  <1>2. _require_schedule_editor_for(v, e) /\ \A u : _require_schedule_approver_for(v, e, u)
    BY <1>1 DEF is_hr, _require_schedule_editor_for, _require_schedule_approver_for
  <1>3. \A action \in {"assign", "override", "end", "amend"} : Passes(v, e, action)
    BY <1>2 DEF Passes
  <1>4. Passes(v, e, "approve")
    BY <1>2 DEF Passes
  <1>5. Holds(v, HR_ADMIN_ROLES) => Passes(v, e, "bulk")
    BY DEF Passes
  <1>6. Passes(v, e, "skip") \/ is_hr(v)
    BY <1>1 DEF Passes, LineManagerOf, Holds
  <1>7. \A action \in team_schedule_context(v, Days).can : Passes(v, e, action)
    BY <1>3, <1>4, <1>5 DEF team_schedule_context
  <1>8. ASSUME NEW d \in Days, NEW c \in Cells(v, e, d), NEW action \in c.can
        PROVE  Passes(v, e, action) \/ (action = "skip" /\ is_hr(v))
    <2>1. c.can \subseteq {"assign", "override", "amend", "end", "skip", "approve"}
      <3>1. \A m, l, x, a, i, p : _grid_cell_can(m, l, x, a, i, p) \subseteq {"assign", "override", "amend", "end", "skip", "approve"}
        BY DEF _grid_cell_can
      <3> QED BY <3>1 DEF Cells
    <2> QED BY <1>3, <1>4, <1>6, <2>1, <1>8
  <1>9. _assert_can_view_employee(v, e)
    BY DEF _assert_can_view_employee
  <1> QED BY <1>7, <1>8, <1>9

LEMMA HiddenIs ==
  ASSUME RosterPlan, RosterInv
  PROVE  NothingHidden
  <1>1. ASSUME NEW a \in Assignments, sa[a] # NoRow
        PROVE  /\ "cancel" \notin get_shift_assignment_can(a) => Cancel(DB, a) = {} \/ sa[a].state = "Cancelled"
               /\ MayDelete(a) => /\ "delete" \in get_shift_assignment_can(a)
                                     /\ a \in list_shift_assignments("All").can_delete
    <2>1. sa[a] \in RosterRows
      BY <1>1, DBIs DEF RosterInv
    <2>2. sa[a].state = "Submitted" \/ sa[a].state = "Cancelled"
      BY <2>1 DEF RosterRows
    <2>3. "cancel" \notin get_shift_assignment_can(a) => Cancel(DB, a) = {} \/ sa[a].state = "Cancelled"
      BY <2>2 DEF get_shift_assignment_can, Cancel, DB
    <2>4. ASSUME MayDelete(a) PROVE "delete" \in get_shift_assignment_can(a) /\ a \in list_shift_assignments("All").can_delete
      <3>1. sa[a].state = "Cancelled" /\ ~Punched(sa[a])
        BY <2>4 DEF MayDelete
      <3>2. a \in Listed("All")
        BY <1>1 DEF Listed
      <3> QED BY <3>1, <3>2 DEF get_shift_assignment_can, list_shift_assignments
    <2> QED BY <2>3, <2>4
  <1>2. ASSUME NEW e \in Employees \ assigned_employees, NEW p \in Shifts
        PROVE  check_schedule_conflicts(e, p, 1, LastDay).assignments = {}
    <2>1. \A b \in Assignments : Applies(sa[b]) => sa[b].emp # e
      BY DEF assigned_employees
    <2>2. _shift_conflicts(DB, 0, Row(e, p, 1, LastDay)) = {}
      BY <2>1 DEF _shift_conflicts, DB, Row
    <2> QED BY <2>2 DEF check_schedule_conflicts
  <1> QED BY <1>1, <1>2 DEF NothingHidden

LEMMA ListsAgreeIs ==
  ASSUME RosterPlan, RosterScreens, RosterInv
  PROVE  ListsAgree
  <1>0. /\ \A a \in Assignments : sa[a] # NoRow => sa[a] \in RosterRows
        /\ \A a \in Assignments : sa[a].state = "Submitted" => sa[a] \in RosterRows
    BY DBIs DEF RosterInv
  <1>a. /\ Listed("Active") = {a \in Assignments : sa[a] # NoRow /\ sa[a].state = "Submitted" /\ sa[a].active}
        /\ Listed("Expired") = {a \in Assignments : sa[a] # NoRow /\ sa[a].state = "Submitted" /\ ~sa[a].active}
        /\ Listed("Cancelled") = {a \in Assignments : sa[a] # NoRow /\ sa[a].state = "Cancelled"}
        /\ Listed("All") = {a \in Assignments : sa[a] # NoRow}
    BY DEF Listed
  <1>b. ASSUME NEW a \in Assignments, sa[a] # NoRow
        PROVE  /\ _shift_display_status(sa[a]) = "Active" <=> sa[a].state = "Submitted" /\ sa[a].active
               /\ _shift_display_status(sa[a]) = "Expired" <=> sa[a].state = "Submitted" /\ ~sa[a].active
               /\ _shift_display_status(sa[a]) = "Cancelled" <=> sa[a].state = "Cancelled"
               /\ _shift_display_status(sa[a]) \in {"Active", "Expired", "Cancelled"}
    <2>1. sa[a] \in RosterRows
      BY <1>0, <1>b
    <2>2. sa[a].state = "Submitted" \/ sa[a].state = "Cancelled"
      BY <2>1 DEF RosterRows
    <2> QED BY <2>2 DEF _shift_display_status
  <1>1. \A display \in {"Active", "Expired", "Cancelled"} :
          list_shift_assignments(display).rows = {a \in Listed("All") : _shift_display_status(sa[a]) = display}
    <2>1. \A display : list_shift_assignments(display).rows = Listed(display)
      BY DEF list_shift_assignments
    <2> QED BY <1>a, <1>b, <2>1
  <1>2. LET n == list_shift_assignments("All").summary IN n.total = n.active + n.expired + n.cancelled
    <2> DEFINE All == Listed("All")
               On == {a \in All : _shift_display_status(sa[a]) = "Active"}
               Off == {a \in All : _shift_display_status(sa[a]) = "Expired"}
               Gone == {a \in All : _shift_display_status(sa[a]) = "Cancelled"}
    <2>1. /\ list_shift_assignments("All").summary.total = Cardinality(All)
          /\ list_shift_assignments("All").summary.active = Cardinality(On)
          /\ list_shift_assignments("All").summary.expired = Cardinality(Off)
          /\ list_shift_assignments("All").summary.cancelled = Cardinality(Gone)
      BY DEF list_shift_assignments, _shift_assignment_summary, Bucket, Cardinality
    <2>2. IsFiniteSet(All)
      BY <1>a, FS_Subset DEF RosterPlan
    <2>3. IsFiniteSet(On) /\ IsFiniteSet(Off) /\ IsFiniteSet(Gone)
      BY <2>2, FS_Subset
    <2>4. All = (On \cup Off) \cup Gone /\ On \cap Off = {} /\ (On \cup Off) \cap Gone = {}
      BY <1>a, <1>b
    <2> HIDE DEF All, On, Off, Gone
    <2>0. \A S, T : IsFiniteSet(S) /\ IsFiniteSet(T) /\ S \cap T = {} =>
            IsFiniteSet(S \cup T) /\ Cardinality(S \cup T) = Cardinality(S) + Cardinality(T)
      <3>1. ASSUME NEW S, NEW T, IsFiniteSet(S), IsFiniteSet(T), S \cap T = {}
            PROVE  IsFiniteSet(S \cup T) /\ Cardinality(S \cup T) = Cardinality(S) + Cardinality(T)
        <4>1. /\ IsFiniteSet(S \cup T)
              /\ Cardinality(S \cup T) = Cardinality(S) + Cardinality(T) - Cardinality(S \cap T)
          BY <3>1, FS_Union
        <4>2. Cardinality(S \cap T) = 0 /\ Cardinality(S) \in Nat /\ Cardinality(T) \in Nat
          BY <3>1, FS_EmptySet, FS_CardinalityType
        <4> QED BY <4>1, <4>2
      <3> QED BY <3>1
    <2>5. IsFiniteSet(On \cup Off) /\ Cardinality(On \cup Off) = Cardinality(On) + Cardinality(Off)
      BY <2>0, <2>3, <2>4
    <2>6. Cardinality(All) = Cardinality(On \cup Off) + Cardinality(Gone)
      BY <2>0, <2>3, <2>4, <2>5
    <2> QED BY <2>1, <2>5, <2>6
  <1>3. ASSUME NEW v \in Viewers
        PROVE  LET lines == team_schedule_export(v, Days)  team == team_schedule(v, Days) IN
               \A e \in DOMAIN team : \A entry \in team[e] \cup team_schedule_ics(e) :
                 \E line \in lines : line[1] = e /\ line[2] = entry[1] /\ line[3] # Nobody
    <2> DEFINE lines == team_schedule_export(v, Days)
               scope == _team_scope_members(v)
    <2>1. DOMAIN team_schedule(v, Days) = scope /\ \A e \in scope : team_schedule(v, Days)[e] = my_schedule(e, Days)
      BY DEF team_schedule
    <2>2. \A e : team_schedule_ics(e) \subseteq my_schedule(e, Days)
      <3>1. today..LastDay \subseteq Days
        BY DEF Days, RosterInv, RosterPlan
      <3>2. \A e, D, F : D \subseteq F => my_schedule(e, D) \subseteq my_schedule(e, F)
        BY DEF my_schedule
      <3> QED BY <3>1, <3>2 DEF team_schedule_ics
    <2>3. ASSUME NEW e \in scope, NEW entry \in my_schedule(e, Days)
          PROVE  \E line \in lines : line[1] = e /\ line[2] = entry[1] /\ line[3] # Nobody
      <3>1. PICK c \in Days \X Assignments : /\ Applies(sa[c[2]]) /\ sa[c[2]].emp = e /\ c[1] \in Span(sa[c[2]])
                                                /\ entry = <<c[1], sa[c[2]].shift, c[2]>>
        BY <2>3 DEF my_schedule
      <3>2. PICK d : d = c[1]
        OBVIOUS
      <3>3. PICK a : a = c[2]
        OBVIOUS
      <3>4. d \in Days /\ a \in Assignments /\ Applies(sa[a]) /\ sa[a].emp = e /\ d \in Span(sa[a]) /\ entry[1] = d
        BY <3>1, <3>2, <3>3
      <3>5. \E cell \in Cells(v, e, d) : cell.shift # Nobody
        <4>1. a \in OrElse(Covering(e, d), 0) /\ a # 0
          BY <3>4 DEF RosterPlan, Covering, OrElse
        <4>2. sa[a].shift \in Shifts
          BY <1>0, <3>4 DEF Applies, RosterRows
        <4>3. PICK i : i \in OrElse(DayInstances(e, d), NoDay)
          BY DEF OrElse
        <4>4. i # NoDay => i[2] \in Shifts
          BY <4>3 DEF OrElse, DayInstances
        <4>5. CellOf(v, e, d, i, a).shift # Nobody
          BY <4>1, <4>2, <4>4 DEF RosterScreens, CellOf
        <4>6. CellOf(v, e, d, i, a) \in Cells(v, e, d)
          BY <4>1, <4>3, CellsAre
        <4> QED BY <4>5, <4>6
      <3>6. PICK cell \in Cells(v, e, d) : cell.shift # Nobody
        BY <3>5
      <3>7. <<e, d>> \in Rows(v, Days, "all") \X Days
        BY <3>4 DEF Rows
      <3>8. PICK line : line = <<e, d, cell.shift>>
        OBVIOUS
      <3>9. line \in {<<<<e, d>>[1], <<e, d>>[2], c1.shift>> : c1 \in Cells(v, <<e, d>>[1], <<e, d>>[2])}
        BY <3>8
      <3>10. line \in lines
        BY <3>7, <3>9 DEF team_schedule_export
      <3> QED BY <3>4, <3>6, <3>8, <3>10
    <2> QED BY <2>1, <2>2, <2>3
  <1>4. ASSUME NEW v \in Viewers
        PROVE  team_schedule_context(v, Days).pending = {q \in list_shift_requests(v, "Draft") : sr[q].emp \in Active}
    <2>1. team_schedule_context(v, Days).pending = Drafts(_team_scope_members(v), Days)
      BY DEF team_schedule_context
    <2>2. \A q \in ShiftRequests : sr[q].state = "Draft" => Span(sr[q]) \cap Days # {}
      BY AskedIs DEF RosterInv, RosterAsks, Days, Span, RosterPlan
    <2>3. is_hr(v) <=> Holds(v, SCHEDULE_EDITOR_ROLES)
      BY DEF is_hr
    <2> QED BY <2>1, <2>2, <2>3 DEF Drafts, list_shift_requests, _team_scope_members
  <1>5. ASSUME NEW v \in Viewers, _is_schedule_manager(v), is_hr(v)
        PROVE  schedule_context(v, Days).team = list_shift_requests(v, "Draft")
    <2>1. schedule_context(v, Days).team = Drafts(Employees, Days)
      BY <1>5 DEF schedule_context
    <2>2. \A q \in ShiftRequests : sr[q].state = "Draft" => Span(sr[q]) \cap Days # {} /\ sr[q].emp \in Employees
      BY AskedIs DEF RosterInv, RosterAsks, Days, Span, RosterPlan
    <2> QED BY <1>5, <2>1, <2>2 DEF Drafts, list_shift_requests, is_hr
  <1>6. ASSUME NEW v \in Viewers, v.emp # Nobody
        PROVE  schedule_context(v, Days).mine = {q \in my_shift_requests(v.emp, Days) : sr[q].state = "Draft"}
    <2>1. schedule_context(v, Days).mine = Drafts({v.emp}, Days)
      BY <1>6 DEF schedule_context
    <2> QED BY <2>1, AskedIs DEF Drafts, my_shift_requests
  <1> QED BY <1>1, <1>2, <1>3, <1>4, <1>5, <1>6 DEF ListsAgree

\* Finitely many things have an order.
LEMMA OrderExists ==
  ASSUME NEW S, IsFiniteSet(S)
  PROVE  SetToSeqs(S) # {}
  <1>1. PICK n : n = Cardinality(S)
    OBVIOUS
  <1>2. n \in Nat /\ ExistsBijection(1..n, S)
    BY <1>1, FS_CardinalityType
  <1>3. PICK f \in Bijection(1..n, S) : TRUE
    BY <1>2 DEF ExistsBijection
  <1>4. f \in [1..n -> S] /\ \A i, j \in 1..n : f[i] = f[j] => i = j
    <2>1. f \in Injection(1..n, S)
      BY <1>3 DEF Bijection
    <2> QED BY <2>1 DEF Injection, IsInjective
  <1>5. f \in SetToSeqs(S)
    BY <1>1, <1>4 DEF SetToSeqs, Cardinality
  <1> QED BY <1>5

\* A day without assignment and without instance: what the grid offers to assign.
LEMMA OfferedDayIsFree ==
  ASSUME RosterPlan, RosterInv, NEW v, NEW e, NEW d, NEW c \in Cells(v, e, d), "assign" \in c.can
  PROVE  Covering(e, d) = {} /\ DayInstances(e, d) = {} /\ d >= today
  <1>1. PICK i \in OrElse(DayInstances(e, d), NoDay), a \in OrElse(Covering(e, d), 0) : c = CellOf(v, e, d, i, a)
    BY CellsAre
  <1>2. PICK manager, locked, pending : c.can = _grid_cell_can(manager, locked, d, a, i, pending)
    BY <1>1 DEF CellOf
  <1>3. a = 0 /\ i = NoDay /\ d >= today
    BY <1>2 DEF _grid_cell_can
  <1>4. Covering(e, d) = {}
    BY <1>1, <1>3 DEF OrElse, Covering, RosterPlan
  <1>5. DayInstances(e, d) = {}
    <2>1. \A j \in DayInstances(e, d) : j # NoDay
      <3>1. SUFFICES ASSUME NEW j \in DayInstances(e, d), j = <<>> PROVE FALSE
        BY DEF NoDay
      <3>2. j = <<j[1], j[2], j[3]>>
        BY DEF DayInstances
      <3>3. Len(j) = 3 /\ Len(j) = 0
        BY <3>1, <3>2
      <3> QED BY <3>3
    <2> QED BY <1>1, <1>3, <2>1 DEF OrElse
  <1> QED BY <1>3, <1>4, <1>5

LEMMA InsertOfFreeDay ==
  ASSUME RosterPlan, RosterInv, NEW e \in Employees, NEW p \in Shifts, NEW d \in Days, Covering(e, d) = {},
         NEW some \in Assignments, sa[some] = NoRow
  PROVE  \E y \in MadeOf(DB), m \in Assignments :
           /\ Insert(DB, Row(e, p, d, d)) = {y} /\ y.inst = inst
           /\ y.sa = [sa EXCEPT ![m] = Row(e, p, d, d)]
  <1>0. DB \in RosterDBs /\ DB \in MadeOf(DB) /\ DB.sa = sa /\ DB.inst = inst /\ sa \in SaTables
    BY DBIs DEF RosterInv, DB
  <1>1. PICK row : row = Row(e, p, d, d)
    OBVIOUS
  <1>2. row \in Standing /\ row.from = d /\ row.to = d /\ row.emp = e /\ row.shift = p /\ row.active /\ d \in Nat
    BY <1>1, RowStands DEF Row, Days
  <1> DEFINE free == {a \in Assignments : sa[a] = NoRow}
  <1>3. PICK m \in free : m = Min(free)
    <2>1. Min(free) \in free
      BY FirstFree
    <2> QED BY <2>1
  <1>4. Insert(DB, row) = Save(DB, m, row)
    BY <1>0, <1>2, <1>3 DEF Insert
  <1>5. _shift_conflicts(DB, m, row) = {}
    <2>1. SUFFICES ASSUME NEW b \in _shift_conflicts(DB, m, row) PROVE FALSE
      OBVIOUS
    <2>2. b \in Assignments /\ Applies(sa[b]) /\ sa[b].emp = e /\ Span(sa[b]) \cap Span(row) # {}
      BY <1>0, <1>2, <2>1 DEF _shift_conflicts
    <2>3. Span(row) = {d}
      BY <1>2 DEF Span
    <2>4. b \in Covering(e, d)
      BY <2>2, <2>3 DEF Covering
    <2> QED BY <2>4
  <1>6. Save(DB, m, row) = {[DB EXCEPT !.sa[m] = row]}
    BY <1>5 DEF Save
  <1>7. PICK y : y = [DB EXCEPT !.sa[m] = row]
    OBVIOUS
  <1>8. y \in MadeOf(DB) /\ y = [sa |-> [sa EXCEPT ![m] = row], inst |-> inst]
    <2>1. y \in Save(DB, m, row)
      BY <1>6, <1>7
    <2>2. m \in Assignments /\ DB.sa[m] = NoRow
      BY <1>0, <1>3
    <2>3. y \in MadeOf(DB) /\ y = [sa |-> [DB.sa EXCEPT ![m] = row], inst |-> DB.inst]
      BY <1>0, <1>2, <2>1, <2>2, RowSaveIs
    <2> QED BY <1>0, <2>3
  <1>9. Insert(DB, row) = {y} /\ y.inst = inst /\ y.sa = [sa EXCEPT ![m] = row] /\ m \in Assignments
    <2>1. Insert(DB, row) = {y}
      BY <1>4, <1>6, <1>7, Zenon
    <2>2. y.inst = inst /\ y.sa = [sa EXCEPT ![m] = row]
      BY <1>8
    <2>3. m \in Assignments
      BY <1>3
    <2> QED BY <2>1, <2>2, <2>3
  <1> HIDE DEF free
  <1> QED BY <1>1, <1>8, <1>9

\* Nothing of a free day takes the assignment back.
LEMMA GenerateOfFreeDay ==
  ASSUME RosterPlan, RosterInv, NEW e \in Employees, NEW p \in Shifts,
         NEW d \in Days, Covering(e, d) = {}, DayInstances(e, d) = {},
         NEW y \in MadeOf(DB), NEW m \in Assignments, y.inst = inst, y.sa = [sa EXCEPT ![m] = Row(e, p, d, d)]
  PROVE  \A z \in _materialise_shift_instances(DB, y, {e}, d, d) : z.sa = y.sa
  <1>0. sa \in SaTables /\ inst \in InstTables /\ d \in Int
    BY DBIs DEF RosterInv, Days
  <1>1. PICK row : row = Row(e, p, d, d)
    OBVIOUS
  <1>2. row.state = "Submitted" /\ row.from = d /\ row.to = d /\ row.emp = e /\ row.shift = p
    BY <1>1 DEF Row
  <1>3. \A a \in Assignments : y.sa[a] = IF a = m THEN row ELSE sa[a]
    BY <1>0, <1>1 DEF SaTables
  <1> DEFINE D == {z \in [sa : {y.sa}, inst : InstTables] : \A t \in Shifts : t # p => z.inst[<<e, t, d>>].status = "None"}
  <1>4. y \in D
    <2>1. y = [sa |-> y.sa, inst |-> y.inst]
      BY DEF MadeOf, RosterDBs
    <2>2. y \in [sa : {y.sa}, inst : InstTables]
      BY <1>0, <2>1
    <2>3. ASSUME NEW t \in Shifts PROVE inst[<<e, t, d>>].status = "None"
      <3>1. <<e, t, d>> \notin DayInstances(e, d)
        OBVIOUS
      <3> QED BY <3>1 DEF DayInstances, Exists
    <2> QED BY <2>2, <2>3
  <1>5. ASSUME NEW a \in Assignments, NEW z \in D, Applies(y.sa[a]), y.sa[a].emp \in {e}
        PROVE  EnsureOf(DB, y, z, a, d, d) \in D
    <2>1. PICK t, n : t = z.sa /\ n = z.inst
      OBVIOUS
    <2>2. t = y.sa /\ n \in InstTables /\ z = [sa |-> t, inst |-> n] /\ DOMAIN n = InstNames
          /\ \A q \in Shifts : q # p => n[<<e, q, d>>].status = "None"
      BY <2>1 DEF InstTables
    <2>3. PICK new : new = MissingOf(DB, y, z, a, d, d)
      OBVIOUS
    <2>4. new \subseteq {<<e, p, d>>} /\ (new # {} => a = m /\ n[<<e, p, d>>].status = "None")
      <3>1. ASSUME NEW i \in new PROVE i = <<e, p, d>> /\ a = m /\ n[<<e, p, d>>].status = "None"
        <4>1. PICK r : r = y.sa[a]
          OBVIOUS
        <4>2. i \in {r.emp} \X {r.shift} \X (Span(r) \cap d..d) /\ n[i].status = "None"
          BY <2>1, <2>3, <4>1 DEF MissingOf
        <4>3. d..d = {d}
          BY <1>0
        <4>4. i[1] = r.emp /\ i[2] = r.shift /\ i[3] = d /\ i = <<i[1], i[2], i[3]>> /\ d \in Span(r) /\ r.emp = e
          BY <1>5, <4>1, <4>2, <4>3
        <4>5. a = m
          <5>1. SUFFICES ASSUME a # m PROVE FALSE
            OBVIOUS
          <5>2. r = sa[a]
            BY <1>3, <4>1, <5>1
          <5>3. a \in Covering(e, d)
            BY <1>5, <4>1, <4>4, <5>2 DEF Covering
          <5> QED BY <5>3
        <4>6. r = row
          BY <1>3, <4>1, <4>5
        <4>7. i = <<e, p, d>>
          BY <1>2, <4>4, <4>6
        <4> QED BY <4>2, <4>5, <4>7
      <3> QED BY <3>1
    <2>5. new # {} => z.sa[a].state = "Submitted" /\ \A i \in new : ~_check_overlap(z, i)
      <3>1. SUFFICES ASSUME new # {} PROVE z.sa[a].state = "Submitted" /\ \A i \in new : ~_check_overlap(z, i)
        OBVIOUS
      <3>2. z.sa[a].state = "Submitted"
        BY <1>2, <1>3, <2>1, <2>2, <2>4, <3>1
      <3>3. ASSUME NEW i \in new PROVE ~_check_overlap(z, i)
        <4>1. i = <<e, p, d>>
          BY <2>4, <3>3
        <4>2. i[1] = e /\ i[2] = p /\ i[3] = d
          BY <4>1
        <4>3. \A q \in Shifts : n[<<e, q, d>>].status # "Scheduled"
          BY <2>2, <2>4, <3>1
        <4> QED BY <2>1, <4>2, <4>3 DEF _check_overlap
      <3> QED BY <3>2, <3>3
    <2>6. PICK k : k = [i \in DOMAIN n |-> IF i \in new THEN [status |-> "Scheduled", of |-> a] ELSE n[i]]
      OBVIOUS
    <2>7. EnsureOf(DB, y, z, a, d, d) = [sa |-> t, inst |-> k]
      <3>1. EnsureOf(DB, y, z, a, d, d)
              = [z EXCEPT !.inst = [i \in DOMAIN z.inst |-> IF i \in new THEN [status |-> "Scheduled", of |-> a] ELSE z.inst[i]]]
        <4>1. ~(new # {} /\ (z.sa[a].state # "Submitted" \/ \E i \in new : _check_overlap(z, i)))
          BY <2>5, Zenon
        <4> QED BY <2>3, <4>1, Zenon DEF EnsureOf
      <3>2. [z EXCEPT !.inst = k] = [sa |-> t, inst |-> k]
        BY <2>2
      <3> QED BY <2>1, <2>6, <3>1, <3>2
    <2>8. k \in InstTables /\ \A i \in InstNames : i # <<e, p, d>> => k[i] = n[i]
      <3>1. \A i \in InstNames : n[i] \in [status : {"None", "Scheduled", "Cancelled", "Skipped"}, of : Assignments \cup {0}]
        BY <2>2 DEF InstTables
      <3>2. \A i \in InstNames : k[i] = IF i \in new THEN [status |-> "Scheduled", of |-> a] ELSE n[i]
        BY <2>2, <2>6
      <3>3. k = [i \in InstNames |-> k[i]]
        BY <2>2, <2>6
      <3> QED BY <2>4, <3>1, <3>2, <3>3 DEF InstTables
    <2>9. ASSUME NEW q \in Shifts, q # p PROVE k[<<e, q, d>>].status = "None"
      <3>1. <<e, q, d>> \in InstNames /\ <<e, q, d>> # <<e, p, d>>
        BY <2>9 DEF InstNames
      <3> QED BY <2>2, <2>8, <2>9, <3>1
    <2>10. PICK w : w = [sa |-> t, inst |-> k]
      OBVIOUS
    <2>11. w \in [sa : {y.sa}, inst : InstTables] /\ w.inst = k
      BY <2>2, <2>8, <2>10
    <2>12. w \in D
      BY <2>9, <2>11
    <2> QED BY <2>7, <2>10, <2>12
  <1>6. \A z \in D : z.sa = y.sa
    OBVIOUS
  <1> HIDE DEF D
  <1>7. _materialise_shift_instances(DB, y, {e}, d, d) \subseteq D
    BY <1>4, <1>5, GenerateStays
  <1> QED BY <1>6, <1>7

LEMMA GeneratedSomething ==
  ASSUME RosterPlan, NEW s, NEW x, NEW E, NEW from, NEW to
  PROVE  _materialise_shift_instances(s, x, E, from, to) # {}
  <1> DEFINE rows == {a \in Assignments : Applies(x.sa[a]) /\ x.sa[a].emp \in E}
  <1>1. IsFiniteSet(rows)
    BY FS_Subset DEF RosterPlan
  <1>2. PICK order : order \in SetToSeqs(rows)
    <2> HIDE DEF rows
    <2> QED BY <1>1, OrderExists
  <1> QED BY <1>2 DEF _materialise_shift_instances

LEMMA OfferedIs ==
  ASSUME RosterPlan, RosterScreens, RosterInv
  PROVE  OfferedAssignmentStays
  <1> SUFFICES ASSUME NEW some \in Assignments, sa[some] = NoRow, NEW e \in Active, NEW d \in Days, NEW v \in Viewers,
                      NEW c \in Cells(v, e, d), "assign" \in c.can, NEW p \in Shifts
               PROVE  /\ Outcomes(e, p, d) # {}
                      /\ \A x \in Outcomes(e, p, d) : Has(x.sa, e, p, d)
    BY DEF OfferedAssignmentStays
  <1>1. Covering(e, d) = {} /\ DayInstances(e, d) = {} /\ d >= today
    BY OfferedDayIsFree
  <1>2. e \in Employees /\ today \in Days /\ today \in Int /\ d \in Int
    BY DEF RosterScreens, RosterInv, Days
  <1>3. PICK y \in MadeOf(DB), m \in Assignments :
          /\ Insert(DB, Row(e, p, d, d)) = {y} /\ y.inst = inst
          /\ y.sa = [sa EXCEPT ![m] = Row(e, p, d, d)]
    BY <1>1, <1>2, InsertOfFreeDay
  <1>4. Has(y.sa, e, p, d)
    <2>1. y.sa[m] = Row(e, p, d, d)
      BY <1>3, DBIs DEF RosterInv, SaTables
    <2> QED BY <1>2, <2>1 DEF Has, Row, Applies, Span
  <1>5. Min({d, today}) = today
    BY <1>1, <1>2 DEF Min
  <1>6. Row(e, p, d, d).from = d /\ Row(e, p, d, d).to = d /\ Row(e, p, d, d).emp = e
    BY DEF Row
  <1>7. Outcomes(e, p, d) = IF d > today THEN {y} ELSE _materialise_shift_instances(DB, y, {e}, d, today)
    BY <1>3, <1>5, <1>6 DEF Outcomes, _create_shift_assignment_core
  <1>8. CASE d > today
    BY <1>4, <1>7, <1>8
  <1>9. CASE d = today
    <2>1. Outcomes(e, p, d) = _materialise_shift_instances(DB, y, {e}, d, d)
      BY <1>2, <1>7, <1>9
    <2>2. \A z \in _materialise_shift_instances(DB, y, {e}, d, d) : z.sa = y.sa
      BY <1>1, <1>2, <1>3, GenerateOfFreeDay
    <2> QED BY <1>4, <2>1, <2>2, GeneratedSomething
  <1> QED BY <1>1, <1>2, <1>8, <1>9

\* What the grid offers can be assigned and stays, whoever is offered an action may do it, nothing possible is hidden
\* and the lists agree (admin.py, shift.py).
THEOREM ScreensKeep ==
  ASSUME RosterPlan, RosterScreens
  PROVE  Spec => []ScreenKept
  <1>1. RosterInv => ScreenKept
    BY OfferedIs, AllowedIs, HiddenIs, ListsAgreeIs DEF ScreenKept
  <1> QED BY <1>1, RosterHolds, PTL
=============================================================================
