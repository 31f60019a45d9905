---------------------------- MODULE TransferProofs ----------------------------
(***************************************************************************)
(* From the binds to the load, for every list of columns, query, plan and   *)
(* number of alterations: a value that is loaded is in the column of its    *)
(* own name, each column of the target has one source, and each unit is     *)
(* read with the statement that was meant for it.                           *)
(***************************************************************************)
EXTENDS Transfer, FiniteSetTheorems, NaturalsInduction, TLAPS

-----------------------------------------------------------------------------
(* Least elements, from the well-founded order of the naturals. *)
LEMMA LeastOfNaturals ==
  ASSUME NEW S \in SUBSET Nat, S # {}
  PROVE  \E n \in S : \A x \in S : n <= x
<1> DEFINE R == OpToRel(<, Nat)
<1>0. IsWellFoundedOn(R, Nat)
  BY NatLessThanWellFounded
<1>1. \A x, y \in Nat : y < x => <<y, x>> \in R
  BY DEF OpToRel
<1> HIDE DEF R
<1>2. PICK n \in S : \A y \in S : ~(<<y, n>> \in R)
  BY <1>0, WFMin
<1>3. ASSUME NEW x \in S PROVE n <= x
  <2>1. x \in Nat /\ n \in Nat
    OBVIOUS
  <2>2. ~(x < n)
    BY <1>1, <1>2, <2>1, Zenon
  <2> QED BY <2>1, <2>2
<1> QED BY <1>3

(* A sequence has finitely many values. *)
LEMMA FiniteRange ==
  ASSUME NEW V, NEW s \in Seq(V)
  PROVE  IsFiniteSet({s[i] : i \in DOMAIN s})
<1> DEFINE T == {s[i] : i \in DOMAIN s}
<1>1. DOMAIN s = 1 .. Len(s) /\ Len(s) \in Nat
  OBVIOUS
<1>2. IsFiniteSet(DOMAIN s)
  BY <1>1, FS_Interval, 1 \in Int, Len(s) \in Int
<1>3. [i \in DOMAIN s |-> s[i]] \in Surjection(DOMAIN s, T)
  BY DEF Surjection
<1> QED BY <1>2, <1>3, FS_Surjection

-----------------------------------------------------------------------------
(* Names *)

(* A generated name is none of those it avoids: among one more numbers than   *)
(* names to avoid, one is free.                                               *)
LEMMA GeneratedIsFree ==
  ASSUME NEW name, name[3] \in Seq(Nat), NEW avoid, IsFiniteSet(avoid)
  PROVE  /\ Lower(Generated(name, avoid)) \notin avoid
         /\ \E k \in Nat : Generated(name, avoid) = <<name[1], name[2], Append(name[3], k)>>
<1> DEFINE With(k) == <<name[1], name[2], Append(name[3], k)>>
           Free(k) == Lower(With(k)) \notin avoid
           K == 1 .. Cardinality(avoid) + 1
           f == [k \in K |-> Lower(With(k))]
<1>1. Cardinality(avoid) \in Nat
  BY FS_CardinalityType
<1>2. IsFiniteSet(K) /\ Cardinality(K) = Cardinality(avoid) + 1 /\ K \in SUBSET Nat
  <2>1. Cardinality(avoid) + 1 \in Int /\ 1 \in Int /\ 1 <= Cardinality(avoid) + 1
    BY <1>1
  <2> DEFINE top == Cardinality(avoid) + 1
  <2>2. IsFiniteSet(1 .. top) /\ Cardinality(1 .. top) = IF 1 > top THEN 0 ELSE top - 1 + 1
    <3> HIDE DEF top
    <3> QED BY <2>1, FS_Interval DEF top
  <2> QED BY <1>1, <2>1, <2>2
<1>3. \A k, l \in Nat : Lower(With(k)) = Lower(With(l)) => k = l
  <2> SUFFICES ASSUME NEW k \in Nat, NEW l \in Nat, Lower(With(k)) = Lower(With(l)) PROVE k = l
    OBVIOUS
  <2>1. Append(name[3], k) = Append(name[3], l)
    BY DEF Lower
  <2>2. Append(name[3], k)[Len(name[3]) + 1] = k /\ Append(name[3], l)[Len(name[3]) + 1] = l
    OBVIOUS
  <2> QED BY <2>1, <2>2
<1>4. \E k \in K : Free(k)
  <2> SUFFICES ASSUME \A k \in K : ~Free(k) PROVE FALSE
    OBVIOUS
  <2>1. f \in Injection(K, avoid)
    <3>1. \A k \in K : Lower(With(k)) \in avoid
      OBVIOUS
    <3>2. \A k, l \in K : Lower(With(k)) = Lower(With(l)) => k = l
      BY <1>2, <1>3
    <3> HIDE DEF With, K
    <3> QED BY <3>1, <3>2 DEF Injection, IsInjective
  <2> HIDE DEF f, K
  <2>2. Cardinality(K) <= Cardinality(avoid)
    BY <2>1, FS_Injection
  <2> QED BY <1>1, <1>2, <2>2
<1> DEFINE F == {k \in K : Free(k)}
<1>5. PICK n \in F : \A x \in F : n <= x
  <2>1. F \in SUBSET Nat /\ F # {}
    BY <1>2, <1>4
  <2> HIDE DEF F
  <2> QED BY <2>1, LeastOfNaturals
<1>6. n \in K /\ Free(n) /\ \A j \in 1 .. n - 1 : ~Free(j)
  BY <1>1, <1>5
<1> DEFINE c == CHOOSE k \in K : Free(k) /\ \A j \in 1 .. k - 1 : ~Free(j)
<1>7. c \in K /\ Free(c)
  <2> HIDE DEF K, Free
  <2> QED BY <1>6
<1>8. Generated(name, avoid) = With(c)
  BY DEF Generated
<1> HIDE DEF c, K
<1> QED BY <1>2, <1>7, <1>8

(* NameOf gives the Oracle name, or one that no column has; and never one     *)
(* that was given before.                                                     *)
LEMMA NameIsNew ==
  ASSUME NEW V, NEW columns \in Seq(V), NEW S, NEW before \in Seq(S), NEW name, name[3] \in Seq(Nat)
  PROVE  LET new == NameOf(name, columns, before)
         IN /\ new = name \/ Lower(new) \notin LowerNames(columns)
            /\ \A j \in DOMAIN before : Lower(new) # Lower(before[j])
<1> DEFINE given == {Lower(before[j]) : j \in DOMAIN before}
           avoid == Avoided(columns, given)
           new == NameOf(name, columns, before)
<1>1. IsFiniteSet(given)
  <2> DEFINE g == [j \in DOMAIN before |-> before[j]]
             h == [j \in DOMAIN before |-> Lower(before[j])]
  <2>1. h \in Surjection(DOMAIN before, given)
    BY DEF Surjection
  <2>2. IsFiniteSet(DOMAIN before)
    <3>1. DOMAIN before = 1 .. Len(before) /\ Len(before) \in Nat
      OBVIOUS
    <3> QED BY <3>1, FS_Interval, 1 \in Int, Len(before) \in Int
  <2> HIDE DEF h, given
  <2> QED BY <2>1, <2>2, FS_Surjection
<1>2. IsFiniteSet(LowerNames(columns))
  <2> DEFINE h == [j \in DOMAIN columns |-> Lower(columns[j].name)]
  <2>1. h \in Surjection(DOMAIN columns, LowerNames(columns))
    BY DEF Surjection, LowerNames, Names
  <2>2. IsFiniteSet(DOMAIN columns)
    <3>1. DOMAIN columns = 1 .. Len(columns) /\ Len(columns) \in Nat
      OBVIOUS
    <3> QED BY <3>1, FS_Interval, 1 \in Int, Len(columns) \in Int
  <2> HIDE DEF h
  <2> QED BY <2>1, <2>2, FS_Surjection
<1>3. IsFiniteSet(avoid)
  BY <1>1, <1>2, FS_Union DEF Avoided
<1>4. new = IF Lower(name) \notin given THEN name ELSE Generated(name, avoid)
  BY DEF NameOf
<1>5. Lower(Generated(name, avoid)) \notin avoid
  <2> HIDE DEF avoid
  <2> QED BY <1>3, GeneratedIsFree
<1>6. new = name \/ Lower(new) \notin LowerNames(columns)
  BY <1>4, <1>5 DEF Avoided
<1>7. Lower(new) \notin given
  BY <1>4, <1>5 DEF Avoided
<1> QED BY <1>6, <1>7

(* Duck's names: one for each column, no two alike up to case, each the       *)
(* column's own or one that no column has.                                    *)
LEMMA DuckNames ==
  ASSUME NEW V, NEW columns \in Seq(V), \A i \in DOMAIN columns : columns[i].name[3] \in Seq(Nat)
  PROVE  LET new == DuckColumnNames(columns)
         IN /\ DOMAIN new = DOMAIN columns
            /\ \A i \in DOMAIN columns :
                 new[i] = columns[i].name \/ Lower(new[i]) \notin LowerNames(columns)
            /\ \A i, j \in DOMAIN columns : Lower(new[i]) = Lower(new[j]) => i = j
<1> DEFINE n == Len(columns)
           Step(f, i) == Append(f[i - 1], NameOf(columns[i].name, columns, f[i - 1]))
           IsNames(f, m) == f = [i \in 0 .. m |-> IF i = 0 THEN <<>> ELSE Step(f, i)]
<1>0. n \in Nat /\ DOMAIN columns = 1 .. n
  OBVIOUS
<1>1. \A m \in Nat : \E f : IsNames(f, m)
  <2> DEFINE Bad == {m \in Nat : ~\E f : IsNames(f, m)}
  <2> SUFFICES ASSUME Bad # {} PROVE FALSE
    OBVIOUS
  <2>1. PICK m \in Bad : \A x \in Bad : m <= x
    <3> HIDE DEF IsNames
    <3> QED BY LeastOfNaturals
  <2>2. ASSUME m = 0 PROVE FALSE
    <3> DEFINE g == [i \in 0 .. 0 |-> <<>>]
    <3>1. IsNames(g, 0)
      OBVIOUS
    <3> QED BY <2>1, <2>2, <3>1
  <2>3. m - 1 \in Nat /\ m - 1 \notin Bad /\ m \in Nat
    <3>1. m \in Nat
      OBVIOUS
    <3> HIDE DEF Bad
    <3> QED BY <2>1, <2>2, <3>1
  <2>4. PICK f : IsNames(f, m - 1)
    BY <2>3
  <2> DEFINE g == [i \in 0 .. m |-> IF i = m THEN Step(f, m) ELSE f[i]]
  <2>5. \A i \in 0 .. m - 1 : g[i] = f[i]
    BY <2>3
  <2>6. \A i \in 0 .. m : g[i] = IF i = 0 THEN <<>> ELSE Step(g, i)
    <3> SUFFICES ASSUME NEW i \in 0 .. m PROVE g[i] = IF i = 0 THEN <<>> ELSE Step(g, i)
      OBVIOUS
    <3>1. CASE i = 0
      BY <2>2, <2>3, <2>4, <2>5, <3>1
    <3>2. CASE i # 0
      <4>1. g[i - 1] = f[i - 1] /\ i \in Nat
        BY <2>3, <2>5, <3>2
      <4>2. Step(g, i) = Step(f, i)
        BY <4>1
      <4>3. g[i] = Step(f, i)
        <5>1. CASE i = m
          BY <5>1
        <5>2. CASE i # m
          <6>1. i \in 0 .. m - 1
            BY <2>3, <5>2
          <6>2. g[i] = f[i]
            BY <2>5, <6>1
          <6>3. f[i] = Step(f, i)
            <7> HIDE DEF Step
            <7> QED BY <2>4, <3>2, <6>1
          <6> QED BY <6>2, <6>3
        <5> QED BY <5>1, <5>2
      <4> QED BY <3>2, <4>2, <4>3
    <3> QED BY <3>1, <3>2
  <2>7. IsNames(g, m)
    <3> DEFINE h == [i \in 0 .. m |-> IF i = 0 THEN <<>> ELSE Step(g, i)]
    <3>1. \A i \in 0 .. m : g[i] = h[i]
      <4> HIDE DEF g, Step
      <4> QED BY <2>6
    <3>2. DOMAIN g = 0 .. m /\ DOMAIN h = 0 .. m
      OBVIOUS
    <3>3. g = [i \in 0 .. m |-> g[i]] /\ h = [i \in 0 .. m |-> h[i]]
      OBVIOUS
    <3>4. [i \in 0 .. m |-> g[i]] = [i \in 0 .. m |-> h[i]]
      BY <3>1, Zenon
    <3> QED BY <3>3, <3>4
  <2> QED BY <2>1, <2>7
<1> DEFINE f == CHOOSE f : IsNames(f, n)
<1>2. IsNames(f, n)
  <2> HIDE DEF IsNames
  <2> QED BY <1>0, <1>1
<1>3. DuckColumnNames(columns) = f[n]
  BY DEF DuckColumnNames
<1> HIDE DEF f
<1>4. f[0] = <<>> /\ \A i \in 1 .. n : f[i] = Step(f, i)
  <2>1. \A i \in 0 .. n : f[i] = IF i = 0 THEN <<>> ELSE Step(f, i)
    <3> HIDE DEF Step
    <3> QED BY <1>2
  <2> HIDE DEF Step
  <2> QED BY <1>0, <2>1
<1> DEFINE N(i) == NameOf(columns[i].name, columns, f[i - 1])
           S == {N(i) : i \in 1 .. n}
<1>5. \A i \in 0 .. n : f[i] \in Seq(S) /\ Len(f[i]) = i /\ \A j \in 1 .. i : f[i][j] = N(j)
  <2> DEFINE Good(i) == f[i] \in Seq(S) /\ Len(f[i]) = i /\ \A j \in 1 .. i : f[i][j] = N(j)
             Bad == {i \in 0 .. n : ~Good(i)}
  <2> SUFFICES ASSUME Bad # {} PROVE FALSE
    OBVIOUS
  <2>1. PICK m \in Bad : \A x \in Bad : m <= x
    <3>1. Bad \in SUBSET Nat
      BY <1>0
    <3> HIDE DEF Bad
    <3> QED BY <3>1, LeastOfNaturals
  <2>2. Good(0)
    <3> HIDE DEF N
    <3> QED BY <1>4
  <2>3. m # 0 /\ m \in 1 .. n /\ m - 1 \in 0 .. n /\ m - 1 \notin Bad
    <3> HIDE DEF Good
    <3> QED BY <1>0, <2>1, <2>2
  <2>4. Good(m - 1)
    <3> HIDE DEF Good
    <3> QED BY <2>3
  <2>5. f[m] = Append(f[m - 1], N(m)) /\ N(m) \in S
    BY <1>4, <2>3
  <2> HIDE DEF N, S
  <2>6. f[m] \in Seq(S) /\ Len(f[m]) = m
    BY <2>3, <2>4, <2>5
  <2>7. ASSUME NEW j \in 1 .. m PROVE f[m][j] = N(j)
    <3>1. CASE j = m
      BY <2>3, <2>4, <2>5, <3>1
    <3>2. CASE j # m
      <4>1. j \in 1 .. m - 1
        BY <2>3, <3>2
      <4> QED BY <2>3, <2>4, <2>5, <4>1
    <3> QED BY <3>1, <3>2
  <2>8. Good(m)
    BY <2>6, <2>7
  <2> HIDE DEF Good
  <2> QED BY <2>1, <2>8
<1>6. \A i \in 1 .. n :
        /\ N(i) = columns[i].name \/ Lower(N(i)) \notin LowerNames(columns)
        /\ \A j \in 1 .. i - 1 : Lower(N(i)) # Lower(N(j))
  <2> SUFFICES ASSUME NEW i \in 1 .. n
               PROVE  /\ N(i) = columns[i].name \/ Lower(N(i)) \notin LowerNames(columns)
                      /\ \A j \in 1 .. i - 1 : Lower(N(i)) # Lower(N(j))
    OBVIOUS
  <2>1. i - 1 \in 0 .. n /\ columns[i].name[3] \in Seq(Nat)
    BY <1>0
  <2> DEFINE before == f[i - 1]
  <2>2. before \in Seq(S) /\ DOMAIN before = 1 .. i - 1 /\ \A j \in 1 .. i - 1 : before[j] = N(j)
    <3> HIDE DEF N, S
    <3> QED BY <1>5, <2>1
  <2>3. /\ N(i) = columns[i].name \/ Lower(N(i)) \notin LowerNames(columns)
        /\ \A j \in DOMAIN before : Lower(N(i)) # Lower(before[j])
    <3> DEFINE name == columns[i].name
    <3> HIDE DEF S, before, name
    <3>1. name[3] \in Seq(Nat)
      BY <2>1 DEF name
    <3>2. LET new == NameOf(name, columns, before)
         IN /\ new = name \/ Lower(new) \notin LowerNames(columns)
            /\ \A j \in DOMAIN before : Lower(new) # Lower(before[j])
      BY <2>2, <3>1, NameIsNew
    <3> QED BY <3>2 DEF before, name
  <2> HIDE DEF N
  <2> QED BY <2>2, <2>3
<1> DEFINE new == DuckColumnNames(columns)
<1>7. DOMAIN new = 1 .. n /\ \A i \in 1 .. n : new[i] = N(i)
  <2> HIDE DEF N, S
  <2>1. n \in 0 .. n
    BY <1>0
  <2> QED BY <1>3, <1>5, <2>1
<1> HIDE DEF new, N
<1>8. \A i, j \in 1 .. n : Lower(new[i]) = Lower(new[j]) => i = j
  <2> SUFFICES ASSUME NEW i \in 1 .. n, NEW j \in 1 .. n, i # j PROVE Lower(new[i]) # Lower(new[j])
    OBVIOUS
  <2>1. j \in 1 .. i - 1 \/ i \in 1 .. j - 1
    BY <1>0
  <2> QED BY <1>6, <1>7, <2>1
<1>9. \A i \in 1 .. n : new[i] = columns[i].name \/ Lower(new[i]) \notin LowerNames(columns)
  BY <1>6, <1>7
<1> QED BY <1>0, <1>7, <1>8, <1>9 DEF new

(* What an accepted plan is: each column of the query has a column of the     *)
(* target with its name, the exact one if there is one, no two have the same, *)
(* and none that must not be NULL is left out.                                *)
LEMMA AcceptedPlan ==
  ASSUME NEW new, NEW types, NEW columns, BuildColumnPlan(new, types, columns) # NoPlan
  PROVE  LET built == BuildColumnPlan(new, types, columns)
         IN /\ DOMAIN built = DOMAIN new
            /\ \A i \in DOMAIN new :
                 /\ built[i] \in DOMAIN columns
                 /\ Lower(columns[built[i]].name) = Lower(new[i])
                 /\ new[i] \in Names(columns) => columns[built[i]].name = new[i]
            /\ \A i, j \in DOMAIN new : built[i] = built[j] => i = j
            /\ \A c \in DOMAIN columns : ~columns[c].nullable => \E i \in DOMAIN new : built[i] = c
<1> DEFINE built == [i \in DOMAIN new |-> MatchColumn(new[i], columns)]
<1>1. /\ BuildColumnPlan(new, types, columns) = built
      /\ \A i \in DOMAIN built : built[i] # NoColumn
      /\ IsInjective(built)
      /\ Missing(built, columns) = {}
  BY DEF BuildColumnPlan
<1>2. ASSUME NEW name, MatchColumn(name, columns) # NoColumn
      PROVE  /\ MatchColumn(name, columns) \in DOMAIN columns
             /\ Lower(columns[MatchColumn(name, columns)].name) = Lower(name)
             /\ name \in Names(columns) => columns[MatchColumn(name, columns)].name = name
  <2> DEFINE exact       == {i \in DOMAIN columns : columns[i].name = name}
             insensitive == {i \in DOMAIN columns : Lower(columns[i].name) = Lower(name)}
  <2>1. MatchColumn(name, columns) =
          CASE exact # {} -> CHOOSE i \in exact : TRUE
            [] exact = {} /\ Cardinality(insensitive) = 1 -> CHOOSE i \in insensitive : TRUE
            [] OTHER -> NoColumn
    BY DEF MatchColumn
  <2>2. CASE exact # {}
    <3>1. MatchColumn(name, columns) = CHOOSE i \in exact : TRUE
      <4> HIDE DEF exact, insensitive
      <4> QED BY <2>1, <2>2
    <3>2. MatchColumn(name, columns) \in exact
      <4> HIDE DEF exact
      <4> QED BY <2>2, <3>1
    <3> QED BY <3>2
  <2>3. CASE exact = {}
    <3>1. Cardinality(insensitive) = 1 /\ MatchColumn(name, columns) = CHOOSE i \in insensitive : TRUE
      <4> HIDE DEF exact, insensitive
      <4> QED BY <1>2, <2>1, <2>3
    <3>2. insensitive # {}
      <4> HIDE DEF insensitive
      <4> QED BY <3>1, FS_EmptySet
    <3>3. MatchColumn(name, columns) \in insensitive
      <4> HIDE DEF insensitive
      <4> QED BY <3>1, <3>2
    <3>4. name \notin Names(columns)
      BY <2>3 DEF Names
    <3> QED BY <3>3, <3>4
  <2> QED BY <2>2, <2>3
<1>3. DOMAIN built = DOMAIN new /\ \A i \in DOMAIN new : built[i] = MatchColumn(new[i], columns)
  OBVIOUS
<1> HIDE DEF built
<1>4. \A i, j \in DOMAIN new : built[i] = built[j] => i = j
  BY <1>1, <1>3 DEF IsInjective
<1>5. \A c \in DOMAIN columns : ~columns[c].nullable => \E i \in DOMAIN new : built[i] = c
  BY <1>1, <1>3 DEF Missing
<1> QED BY <1>1, <1>2, <1>3, <1>4, <1>5

-----------------------------------------------------------------------------
(* The projection *)

(* The ids asked for are a sequence; a copy of some columns asks for those.   *)
LEMMA IdFacts ==
  ASSUME TypeOK
  PROVE  /\ Ids \in Seq(Nat) /\ query.select \in Seq(Nat \ {0})
         /\ query.select # <<>> => Ids = query.select
<1>1. query.select \in Seq(Nat \ {0}) /\ Len(described) \in Nat
  BY TransferAssumption DEF TypeOK
<1>2. <<Len(described) + 1>> \in Seq(Nat) /\ query.select \in Seq(Nat)
  BY <1>1
<1> QED BY <1>1, <1>2 DEF Ids

(* The first asked, in their order, are numbered from 1. *)
LEMMA FirstAskedFacts ==
  ASSUME TypeOK
  PROVE  /\ IsFiniteSet(FirstAsked) /\ FirstAsked \in SUBSET (1 .. Len(Ids)) /\ Cardinality(FirstAsked) \in Nat
         /\ \A x \in FirstAsked : Cardinality(AskedUpTo(x)) \in 1 .. Cardinality(FirstAsked)
         /\ \A x, y \in FirstAsked : x < y => Cardinality(AskedUpTo(x)) # Cardinality(AskedUpTo(y))
<1>1. DOMAIN Ids = 1 .. Len(Ids) /\ Len(Ids) \in Nat
  BY IdFacts
<1>2. IsFiniteSet(FirstAsked) /\ FirstAsked \in SUBSET (1 .. Len(Ids)) /\ Cardinality(FirstAsked) \in Nat
  <2>1. FirstAsked \in SUBSET (1 .. Len(Ids))
    BY <1>1 DEF FirstAsked
  <2>2. IsFiniteSet(1 .. Len(Ids))
    BY <1>1, FS_Interval, 1 \in Int, Len(Ids) \in Int
  <2> QED BY <2>1, <2>2, FS_Subset, FS_CardinalityType
<1>3. ASSUME NEW x \in FirstAsked
      PROVE  AskedUpTo(x) \in SUBSET FirstAsked /\ IsFiniteSet(AskedUpTo(x)) /\ x \in AskedUpTo(x)
             /\ Cardinality(AskedUpTo(x)) \in 1 .. Cardinality(FirstAsked)
  <2>1. AskedUpTo(x) \in SUBSET FirstAsked /\ x \in AskedUpTo(x)
    BY <1>2 DEF AskedUpTo
  <2>2. IsFiniteSet(AskedUpTo(x)) /\ Cardinality(AskedUpTo(x)) <= Cardinality(FirstAsked)
    BY <1>2, <2>1, FS_Subset
  <2>3. Cardinality(AskedUpTo(x)) \in Nat /\ Cardinality(AskedUpTo(x)) # 0
    BY <2>1, <2>2, FS_CardinalityType, FS_EmptySet
  <2> QED BY <1>2, <2>1, <2>2, <2>3
<1>4. ASSUME NEW x \in FirstAsked, NEW y \in FirstAsked, x < y
      PROVE  Cardinality(AskedUpTo(x)) # Cardinality(AskedUpTo(y))
  <2>0. \A z \in FirstAsked : z \in Nat
    BY <1>2
  <2>1. AskedUpTo(x) \in SUBSET AskedUpTo(y) /\ y \notin AskedUpTo(x)
    BY <1>4, <2>0 DEF AskedUpTo
  <2>2. y \in AskedUpTo(y) /\ IsFiniteSet(AskedUpTo(y))
    BY <1>3
  <2>3. AskedUpTo(x) # AskedUpTo(y)
    BY <2>1, <2>2
  <2> QED BY <2>1, <2>2, <2>3, FS_Subset
<1> QED BY <1>2, <1>3, <1>4

(* Each output of an Oracle column finds that column among those fetched.     *)
LEMMA OutputFindsItsColumn ==
  ASSUME TypeOK, NEW i \in DOMAIN Ids, IsOracleColumn(Ids[i])
  PROVE  /\ Outputs[i] \in DOMAIN Projected /\ Outputs[i] # 0
         /\ Projected[Outputs[i]] = Ids[i]
<1>1. DOMAIN Ids = 1 .. Len(Ids) /\ Len(Ids) \in Nat
  BY IdFacts
<1> DEFINE S == {j \in DOMAIN Ids : Ids[j] = Ids[i]}
<1>2. PICK j \in S : \A x \in S : j <= x
  <2>1. S \in SUBSET Nat /\ S # {}
    BY <1>1
  <2> HIDE DEF S
  <2> QED BY <2>1, LeastOfNaturals
<1>3. j \in DOMAIN Ids /\ Ids[j] = Ids[i] /\ \A x \in 1 .. j - 1 : Ids[x] # Ids[j]
  BY <1>1, <1>2
<1>4. j \in FirstAsked
  BY <1>3 DEF FirstAsked
<1>5. Cardinality(FirstAsked) \in Nat /\ FirstAsked \in SUBSET (1 .. Len(Ids))
  BY FirstAskedFacts
<1>6. \A x \in FirstAsked : Cardinality(AskedUpTo(x)) \in 1 .. Cardinality(FirstAsked)
  BY FirstAskedFacts
<1>7. \A x, y \in FirstAsked : x < y => Cardinality(AskedUpTo(x)) # Cardinality(AskedUpTo(y))
  BY FirstAskedFacts
<1> DEFINE k == Cardinality(AskedUpTo(j))
           c == CHOOSE x \in FirstAsked : Cardinality(AskedUpTo(x)) = k
<1>8. c \in FirstAsked /\ Cardinality(AskedUpTo(c)) = k
  BY <1>4
<1>9. c = j
  <2>1. c \in Nat /\ j \in Nat
    BY <1>4, <1>5, <1>8
  <2> HIDE DEF c
  <2>2. ~(c < j) /\ ~(j < c)
    BY <1>4, <1>7, <1>8
  <2> QED BY <2>1, <2>2
<1>10. k \in DOMAIN Projected /\ Projected[k] = Ids[i]
  <2>1. k \in 1 .. Cardinality(FirstAsked)
    BY <1>4, <1>6
  <2>2. Projected[k] = Ids[c]
    BY <2>1 DEF Projected
  <2>3. DOMAIN Projected = 1 .. Cardinality(FirstAsked)
    BY DEF Projected
  <2> QED BY <1>3, <1>9, <2>1, <2>2, <2>3
<1>11. Outputs[i] = CHOOSE n \in DOMAIN Projected : Projected[n] = Ids[i]
  BY DEF Outputs
<1>12. Outputs[i] \in DOMAIN Projected /\ Projected[Outputs[i]] = Ids[i]
  <2> HIDE DEF k
  <2> QED BY <1>10, <1>11
<1>13. \A n \in DOMAIN Projected : n # 0
  BY <1>5 DEF Projected
<1> QED BY <1>12, <1>13

-----------------------------------------------------------------------------
(* Texts *)

(* A text: a sequence of tokens, whatever they are. *)
IsText(s) == Len(s) \in Nat /\ s = [i \in 1 .. Len(s) |-> s[i]]

(* A text is a sequence over its own tokens ... *)
LEMMA TextIsSeq ==
  ASSUME NEW s, IsText(s)
  PROVE  s \in Seq({s[i] : i \in DOMAIN s})
BY DEF IsText

(* ... and every sequence is a text. *)
LEMMA SeqIsText ==
  ASSUME NEW S, NEW s \in Seq(S)
  PROVE  IsText(s)
BY DEF IsText

(* One text after another. *)
LEMMA ConcatIsText ==
  ASSUME NEW s, NEW t, IsText(s), IsText(t)
  PROVE  /\ IsText(s \o t) /\ Len(s \o t) = Len(s) + Len(t)
         /\ \A i \in 1 .. Len(s) : (s \o t)[i] = s[i]
         /\ \A i \in 1 .. Len(t) : (s \o t)[Len(s) + i] = t[i]
<1> DEFINE S == {s[i] : i \in DOMAIN s} \cup {t[i] : i \in DOMAIN t}
<1>1. s \in Seq(S) /\ t \in Seq(S)
  BY DEF IsText
<1>2. s \o t \in Seq(S) /\ Len(s \o t) = Len(s) + Len(t)
  BY <1>1
<1>3. IsText(s \o t)
  BY <1>2, SeqIsText
<1>4. /\ \A i \in 1 .. Len(s) : (s \o t)[i] = s[i]
  BY <1>1
<1>5. /\ \A i \in 1 .. Len(t) : (s \o t)[Len(s) + i] = t[i]
  BY <1>1
<1> QED BY <1>2, <1>3, <1>4, <1>5

(* Texts of the same tokens are the same. *)
LEMMA SameText ==
  ASSUME NEW s, NEW t, IsText(s), IsText(t), Len(s) = Len(t), \A i \in 1 .. Len(s) : s[i] = t[i]
  PROVE  s = t
BY DEF IsText

(* A pair of tokens is one after the other. *)
LEMMA TwoTokens ==
  ASSUME NEW a, NEW b
  PROVE  <<a, b>> = <<a>> \o <<b>>
<1>1. IsText(<<a>>) /\ IsText(<<b>>) /\ IsText(<<a, b>>)
  BY DEF IsText
<1>2. IsText(<<a>> \o <<b>>)
  BY <1>1, ConcatIsText
<1>3. Len(<<a>> \o <<b>>) = 2 /\ (<<a>> \o <<b>>)[1] = a /\ (<<a>> \o <<b>>)[2] = b
  OBVIOUS
<1>4. Len(<<a, b>>) = 2 /\ <<a, b>>[1] = a /\ <<a, b>>[2] = b
  OBVIOUS
<1> HIDE DEF IsText
<1>5. PICK s, t : s = <<a, b>> /\ t = <<a>> \o <<b>>
  OBVIOUS
<1>6. Len(s) = 2 /\ Len(t) = 2 /\ IsText(s) /\ IsText(t) /\ s[1] = t[1] /\ s[2] = t[2]
  BY <1>1, <1>2, <1>3, <1>4, <1>5
<1>7. \A i \in 1 .. Len(s) : s[i] = t[i]
  BY <1>6
<1>8. s = t
  BY <1>6, <1>7, SameText
<1> QED BY <1>5, <1>8

(* A function defined by recursion: f[lo] = a, f[i] = G[i][f[i - 1]]. *)
Recursive(f, lo, n, a, G) ==
  DOMAIN f = lo .. lo + n /\ \A i \in lo .. lo + n : f[i] = IF i = lo THEN a ELSE G[i][f[i - 1]]

(* Each step of the recursion stays in X. *)
Steps(G, X) == \A i \in Nat, x \in X : G[i][x] \in X

(* Such a function exists: the least n that has none would be one above an    *)
(* n that has one.                                                            *)
LEMMA Recursion ==
  ASSUME NEW lo \in Nat, NEW n \in Nat, NEW X, NEW a \in X, NEW G, Steps(G, X)
  PROVE  \E f : Recursive(f, lo, n, a, G) /\ \A i \in lo .. lo + n : f[i] \in X
<1> DEFINE In(f, m) == \A i \in lo .. lo + m : f[i] \in X
           Bad == {m \in Nat : ~ \E f : Recursive(f, lo, m, a, G) /\ In(f, m)}
<1> SUFFICES ASSUME Bad # {} PROVE FALSE
  OBVIOUS
<1>1. PICK m \in Bad : \A x \in Bad : m <= x
  <2> HIDE DEF In
  <2>1. Bad \in SUBSET Nat
    OBVIOUS
  <2> QED BY <2>1, LeastOfNaturals
<1>2. m # 0
  <2> SUFFICES ASSUME m = 0 PROVE FALSE
    OBVIOUS
  <2> DEFINE f == [i \in lo .. lo + m |-> a]
  <2>1. Recursive(f, lo, m, a, G) /\ In(f, m)
    BY DEF Recursive
  <2> HIDE DEF f, In
  <2> QED BY <1>1, <2>1
<1>3. m \in Nat /\ m - 1 \in Nat /\ m - 1 \notin Bad
  <2> HIDE DEF In
  <2>1. m \in Nat /\ m - 1 \in Nat /\ ~(m <= m - 1)
    BY <1>1, <1>2
  <2> QED BY <1>1, <2>1
<1>4. PICK g : Recursive(g, lo, m - 1, a, G) /\ In(g, m - 1)
  <2> HIDE DEF In
  <2> QED BY <1>3
<1> DEFINE f == [i \in lo .. lo + m |-> IF i = lo + m THEN G[i][g[i - 1]] ELSE g[i]]
<1>5. In(f, m)
  BY <1>3, <1>4 DEF Steps
<1>6. \A i \in lo .. lo + (m - 1) : g[i] = IF i = lo THEN a ELSE G[i][g[i - 1]]
  BY <1>4 DEF Recursive
<1>7. Recursive(f, lo, m, a, G)
  BY <1>2, <1>3, <1>6 DEF Recursive
<1> HIDE DEF f, In
<1> QED BY <1>1, <1>5, <1>7

-----------------------------------------------------------------------------
(* Quotes *)

(* The open quote before each token is what the tokens before it leave        *)
(* open.                                                                      *)
LEMMA QuoteEquations ==
  ASSUME NEW s, IsText(s)
  PROVE  /\ QuoteBefore(s)[1] = <<>>
         /\ \A i \in 1 .. Len(s) : QuoteBefore(s)[i + 1] = QuoteAfter(QuoteBefore(s)[i], s[i])
<1> DEFINE X == {<<>>} \cup {s[i] : i \in 1 .. Len(s)}
           G == [i \in Nat |-> [x \in X |-> IF i \in 2 .. Len(s) + 1 THEN QuoteAfter(x, s[i - 1]) ELSE x]]
           Is(f) == f = [i \in 1 .. Len(s) + 1 |-> IF i = 1 THEN <<>> ELSE QuoteAfter(f[i - 1], s[i - 1])]
<1>0. Len(s) \in Nat
  BY DEF IsText
<1>1. Steps(G, X)
  <2> SUFFICES ASSUME NEW i \in Nat, NEW x \in X PROVE G[i][x] \in X
    BY DEF Steps
  <2>1. G[i][x] = IF i \in 2 .. Len(s) + 1 THEN QuoteAfter(x, s[i - 1]) ELSE x
    OBVIOUS
  <2>2. i \in 2 .. Len(s) + 1 => s[i - 1] \in X
    BY <1>0
  <2> QED BY <2>1, <2>2 DEF QuoteAfter
<1>2. PICK f : Recursive(f, 1, Len(s), <<>>, G) /\ \A i \in 1 .. 1 + Len(s) : f[i] \in X
  <2> HIDE DEF G, X
  <2>1. <<>> \in X
    BY DEF X
  <2> QED BY <1>0, <1>1, <2>1, Recursion
<1>3. \A i \in 2 .. Len(s) + 1 : G[i][f[i - 1]] = QuoteAfter(f[i - 1], s[i - 1])
  <2> TAKE i \in 2 .. Len(s) + 1
  <2>1. i \in Nat /\ i - 1 \in 1 .. 1 + Len(s)
    BY <1>0
  <2>2. PICK x \in X : x = f[i - 1]
    BY <1>2, <2>1
  <2>3. G[i][x] = QuoteAfter(x, s[i - 1])
    BY <2>1
  <2> QED BY <2>2, <2>3
<1> HIDE DEF G, X
<1>4. \A i \in 1 .. 1 + Len(s) : f[i] = IF i = 1 THEN <<>> ELSE QuoteAfter(f[i - 1], s[i - 1])
  BY <1>0, <1>2, <1>3 DEF Recursive
<1> DEFINE h == [i \in 1 .. Len(s) + 1 |-> f[i]]
<1>5. Is(h)
  BY <1>0, <1>4
<1>6. QuoteBefore(s) = CHOOSE g : Is(g)
  BY DEF QuoteBefore
<1>7. \E g : Is(g)
  BY <1>5
<1> HIDE DEF Is
<1>8. Is(QuoteBefore(s))
  BY <1>6, <1>7
<1> QED BY <1>0, <1>8 DEF Is

(* What is open is a quote. *)
IsQuote(x) == x = <<>> \/ x[1] = "quote"

(* What is open is a quote, or nothing. *)
LEMMA OpenIsQuote ==
  ASSUME NEW s, IsText(s)
  PROVE  \A i \in 1 .. Len(s) + 1 : IsQuote(QuoteBefore(s)[i])
<1> DEFINE p == QuoteBefore(s)
           Bad == {i \in 1 .. Len(s) + 1 : ~IsQuote(p[i])}
<1> SUFFICES ASSUME Bad # {} PROVE FALSE
  OBVIOUS
<1>0. Len(s) \in Nat
  BY DEF IsText
<1>1. PICK n \in Bad : \A x \in Bad : n <= x
  <2> HIDE DEF p
  <2>1. Bad \in SUBSET Nat
    OBVIOUS
  <2> QED BY <2>1, LeastOfNaturals
<1>2. p[1] = <<>>
  BY QuoteEquations
<1>3. n \in 1 .. Len(s) + 1 /\ n # 1
  BY <1>1, <1>2 DEF IsQuote
<1>4. PICK i : i = n - 1
  OBVIOUS
<1>5. i \in 1 .. Len(s) /\ n = i + 1 /\ ~(n <= i) /\ i \in 1 .. Len(s) + 1
  BY <1>0, <1>3, <1>4
<1>6. p[n] = QuoteAfter(p[i], s[i]) /\ IsQuote(p[i])
  BY <1>1, <1>5, QuoteEquations
<1> QED BY <1>1, <1>6 DEF QuoteAfter, IsQuote

(* The same token, or two that are no quotes. *)
SameQuote(x, y) == x = y \/ (x[1] # "quote" /\ y[1] # "quote")

(* k tokens of s after a, and of t after b, alike in their quotes ... *)
AlikeFrom(s, a, t, b, k) == \A i \in 1 .. k : SameQuote(s[a + i], t[b + i])

(* ... and in what is open before each of them, and after the last. *)
OpenAlike(s, a, t, b, k) == \A i \in 1 .. k + 1 : QuoteBefore(s)[a + i] = QuoteBefore(t)[b + i]

(* Alike quotes, from the same open quote on, keep the same quote open. *)
LEMMA SameQuotes ==
  ASSUME NEW s, NEW t, IsText(s), IsText(t), NEW a \in Nat, NEW b \in Nat, NEW k \in Nat,
         a + k <= Len(s), b + k <= Len(t), QuoteBefore(s)[a + 1] = QuoteBefore(t)[b + 1],
         AlikeFrom(s, a, t, b, k)
  PROVE  OpenAlike(s, a, t, b, k)
<1> DEFINE p == QuoteBefore(s)
           q == QuoteBefore(t)
           Bad == {i \in 1 .. k + 1 : p[a + i] # q[b + i]}
<1> SUFFICES ASSUME Bad # {} PROVE FALSE
  BY DEF OpenAlike
<1>0. Len(s) \in Nat /\ Len(t) \in Nat
  BY DEF IsText
<1>1. PICK n \in Bad : \A x \in Bad : n <= x
  <2> HIDE DEF p, q
  <2>1. Bad \in SUBSET Nat
    OBVIOUS
  <2> QED BY <2>1, LeastOfNaturals
<1>2. n # 1 /\ n \in 1 .. k + 1 /\ n - 1 \in 1 .. k /\ n - 1 \in 1 .. k + 1 /\ ~(n <= n - 1)
  BY <1>1
<1> HIDE DEF p, q
<1>3. p[a + (n - 1)] = q[b + (n - 1)]
  BY <1>1, <1>2
<1>4. PICK i, j : i = a + (n - 1) /\ j = b + (n - 1)
  OBVIOUS
<1>5. i \in 1 .. Len(s) /\ j \in 1 .. Len(t) /\ i + 1 = a + n /\ j + 1 = b + n /\ SameQuote(s[i], t[j])
  <2>1. SameQuote(s[a + (n - 1)], t[b + (n - 1)])
    BY <1>2 DEF AlikeFrom
  <2> HIDE DEF Bad
  <2>2. i \in 1 .. Len(s) /\ i + 1 = a + n
    BY <1>0, <1>2, <1>4
  <2>3. j \in 1 .. Len(t) /\ j + 1 = b + n
    BY <1>0, <1>2, <1>4
  <2> QED BY <1>4, <2>1, <2>2, <2>3
<1>6. p[i + 1] = QuoteAfter(p[i], s[i]) /\ q[j + 1] = QuoteAfter(q[j], t[j])
  BY <1>5, QuoteEquations DEF p, q
<1>7. p[i] = q[j] /\ IsQuote(p[i])
  <2>1. i \in 1 .. Len(s) + 1
    BY <1>0, <1>5
  <2> QED BY <1>3, <1>4, <2>1, OpenIsQuote DEF p
<1>8. QuoteAfter(p[i], s[i]) = QuoteAfter(q[j], t[j])
  BY <1>5, <1>7 DEF SameQuote, QuoteAfter, IsQuote
<1>9. p[a + n] = q[b + n]
  BY <1>5, <1>6, <1>8
<1> QED BY <1>1, <1>9

(* After a balanced text no quote is open.                                    *)
Balanced(s) ==
  IsText(s) /\ (\A i \in 1 .. Len(s) : s[i] # <<>>) /\ QuoteBefore(s)[Len(s) + 1] = <<>>

(* What follows a balanced text has the quotes it has on its own. *)
LEMMA ConcatQuotes ==
  ASSUME NEW s, NEW t, Balanced(s), IsText(t)
  PROVE  /\ \A i \in 1 .. Len(s) + 1 : QuoteBefore(s \o t)[i] = QuoteBefore(s)[i]
         /\ \A i \in 1 .. Len(t) + 1 : QuoteBefore(s \o t)[Len(s) + i] = QuoteBefore(t)[i]
<1>1. PICK u : u = s \o t
  OBVIOUS
<1>2. /\ IsText(s) /\ IsText(u) /\ Len(s) \in Nat /\ Len(t) \in Nat /\ Len(u) = Len(s) + Len(t)
      /\ \A i \in 1 .. Len(s) : u[i] = s[i]
      /\ \A i \in 1 .. Len(t) : u[Len(s) + i] = t[i]
  <2>1. IsText(s)
    BY DEF Balanced
  <2>2. Len(s) \in Nat /\ Len(t) \in Nat
    BY <2>1 DEF IsText
  <2> QED BY <1>1, <2>1, <2>2, ConcatIsText
<1>3. QuoteBefore(s)[1] = <<>> /\ QuoteBefore(t)[1] = <<>> /\ QuoteBefore(u)[1] = <<>>
  <2>1. IsText(s) /\ IsText(t) /\ IsText(u)
    BY <1>2
  <2> QED BY <2>1, QuoteEquations
<1>4. PICK z, m, n : z = 0 /\ m = Len(s) /\ n = Len(t)
  OBVIOUS
<1>5. OpenAlike(u, z, s, z, m)
  <2>1. z \in Nat /\ m \in Nat /\ z + m <= Len(u) /\ z + m <= Len(s) /\ QuoteBefore(u)[z + 1] = QuoteBefore(s)[z + 1]
    BY <1>2, <1>3, <1>4
  <2>2. AlikeFrom(u, z, s, z, m)
    BY <1>2, <1>4 DEF SameQuote, AlikeFrom
  <2>3. IsText(s) /\ IsText(u)
    BY <1>2
  <2> QED BY <2>1, <2>2, <2>3, SameQuotes
<1>6. QuoteBefore(u)[m + 1] = <<>>
  BY <1>2, <1>4, <1>5 DEF Balanced, OpenAlike
<1>7. OpenAlike(u, m, t, z, n)
  <2>1. /\ z \in Nat /\ m \in Nat /\ n \in Nat /\ m + n <= Len(u) /\ z + n <= Len(t)
        /\ QuoteBefore(u)[m + 1] = QuoteBefore(t)[z + 1]
    BY <1>2, <1>3, <1>4, <1>6
  <2>2. AlikeFrom(u, m, t, z, n)
    BY <1>2, <1>4 DEF SameQuote, AlikeFrom
  <2>3. IsText(t) /\ IsText(u)
    BY <1>2
  <2> QED BY <2>1, <2>2, <2>3, SameQuotes
<1> QED BY <1>1, <1>2, <1>4, <1>5, <1>7 DEF OpenAlike

(* A placeholder outside quotes. *)
Slot(s, i) == QuoteBefore(s)[i] = <<>> /\ s[i][1] = "bind"

(* n counts the placeholders of the text s outside quotes, up to each token:  *)
(* they are numbered from m + 1 on, and r has the values v in their places.   *)
FilledBy(s, m, v, r, n, i) ==
  /\ n[i - 1] \in 0 .. Len(v) /\ n[i] \in 0 .. Len(v)
  /\ Slot(s, i) => n[i] = n[i - 1] + 1 /\ s[i] = Placeholder(m + n[i]) /\ r[i] = Literal(v[n[i]])
  /\ ~Slot(s, i) => n[i] = n[i - 1] /\ r[i] = s[i]

(* The count starts at none and ends with all the values. *)
Counts(s, m, v, r, n) ==
  n[0] = 0 /\ n[Len(s)] = Len(v) /\ \A i \in 1 .. Len(s) : FilledBy(s, m, v, r, n, i)

(* The text s, numbered from m + 1, has the values v in its places and then   *)
(* reads r.                                                                   *)
Fills(s, m, v, r) ==
  /\ Balanced(s) /\ IsText(v) /\ IsText(r) /\ Len(r) = Len(s)
  /\ \E n : Counts(s, m, v, r, n)

(* The length of a text is a number. *)
LEMMA TextLength ==
  ASSUME NEW s, IsText(s)
  PROVE  Len(s) \in Nat
BY DEF IsText

(* Balanced texts one after the other are balanced. *)
LEMMA BalancedConcat ==
  ASSUME NEW s, NEW t, Balanced(s), Balanced(t)
  PROVE  Balanced(s \o t)
<1>1. IsText(s) /\ IsText(t)
  BY DEF Balanced
<1>2. Len(s) \in Nat /\ Len(t) \in Nat /\ IsText(s \o t) /\ Len(s \o t) = Len(s) + Len(t)
  BY <1>1, TextLength, ConcatIsText
<1>3. QuoteBefore(s \o t)[Len(s) + (Len(t) + 1)] = QuoteBefore(t)[Len(t) + 1]
  BY <1>1, <1>2, ConcatQuotes
<1>4. Len(s) + (Len(t) + 1) = Len(s \o t) + 1
  BY <1>2
<1>5. \A i \in 1 .. Len(s \o t) : (s \o t)[i] # <<>>
  <2> TAKE i \in 1 .. Len(s \o t)
  <2>1. CASE i <= Len(s)
    <3>1. i \in 1 .. Len(s)
      BY <1>2, <2>1
    <3>2. (s \o t)[i] = s[i]
      BY <1>1, <3>1, ConcatIsText
    <3> QED BY <3>1, <3>2 DEF Balanced
  <2>2. CASE ~(i <= Len(s))
    <3>1. PICK j : j = i - Len(s)
      OBVIOUS
    <3>2. j \in 1 .. Len(t) /\ i = Len(s) + j
      BY <1>2, <2>2, <3>1
    <3>3. (s \o t)[i] = t[j]
      BY <1>1, <3>2, ConcatIsText
    <3> QED BY <3>2, <3>3 DEF Balanced
  <2> QED BY <2>1, <2>2
<1>6. QuoteBefore(t)[Len(t) + 1] = <<>>
  BY DEF Balanced
<1> QED BY <1>2, <1>3, <1>4, <1>5, <1>6 DEF Balanced

(* What follows a text goes on with the numbers after its values.             *)
LEMMA FillsConcat ==
  ASSUME NEW m \in Nat, NEW s, NEW v, NEW r, NEW t, NEW w, NEW q, Fills(s, m, v, r), Fills(t, m + Len(v), w, q)
  PROVE  Fills(s \o t, m, v \o w, r \o q)
<1>1. /\ Balanced(s) /\ Balanced(t) /\ IsText(s) /\ IsText(t) /\ IsText(v) /\ IsText(w) /\ IsText(r) /\ IsText(q)
      /\ Len(r) = Len(s) /\ Len(q) = Len(t)
  BY DEF Fills, Balanced
<1>2. PICK n : Counts(s, m, v, r, n)
  BY DEF Fills
<1>3. PICK k : Counts(t, m + Len(v), w, q, k)
  BY DEF Fills
<1>4. PICK u, x, p, a, b : u = s \o t /\ x = v \o w /\ p = r \o q /\ a = Len(s) /\ b = Len(v)
  OBVIOUS
<1>5. /\ a \in Nat /\ b \in Nat /\ Len(t) \in Nat /\ Len(w) \in Nat
      /\ IsText(u) /\ IsText(x) /\ IsText(p) /\ Len(u) = a + Len(t) /\ Len(x) = b + Len(w) /\ Len(p) = a + Len(t)
  BY <1>1, <1>4, TextLength, ConcatIsText
<1>6. Balanced(u)
  BY <1>1, <1>4, BalancedConcat
<1> DEFINE c == [i \in 0 .. a + Len(t) |-> IF i <= a THEN n[i] ELSE b + k[i - a]]
<1>7. c[0] = 0 /\ c[Len(u)] = Len(x)
  <2>1. n[0] = 0 /\ n[a] = b /\ k[0] = 0 /\ k[Len(t)] = Len(w)
    BY <1>2, <1>3, <1>4 DEF Counts
  <2>2. c[0] = 0
    BY <1>5, <2>1
  <2>3. CASE Len(t) = 0
    BY <1>5, <2>1, <2>2, <2>3
  <2>4. CASE Len(t) # 0
    <3>1. c[a + Len(t)] = b + k[(a + Len(t)) - a]
      BY <1>5, <2>4
    <3>2. (a + Len(t)) - a = Len(t)
      BY <1>5
    <3> QED BY <1>5, <2>1, <2>2, <3>1, <3>2
  <2> QED BY <2>3, <2>4
<1>8. ASSUME NEW i \in 1 .. a PROVE FilledBy(u, m, x, p, c, i)
  <2>1. FilledBy(s, m, v, r, n, i)
    BY <1>2, <1>4, <1>8 DEF Counts
  <2>2. c[i] = n[i] /\ c[i - 1] = n[i - 1]
    BY <1>5, <1>8
  <2>3. u[i] = s[i] /\ p[i] = r[i]
    BY <1>1, <1>4, <1>8, ConcatIsText
  <2>4. QuoteBefore(u)[i] = QuoteBefore(s)[i]
    <3>1. i \in 1 .. a + 1
      BY <1>5, <1>8
    <3> QED BY <1>1, <1>4, <3>1, ConcatQuotes
  <2>5. \A j \in 1 .. b : x[j] = v[j]
    BY <1>1, <1>4, ConcatIsText
  <2>6. Slot(u, i) <=> Slot(s, i)
    BY <2>3, <2>4 DEF Slot
  <2> HIDE DEF c
  <2>7. n[i] \in 0 .. b /\ n[i - 1] \in 0 .. b /\ (Slot(s, i) => n[i] \in 1 .. b)
    BY <1>4, <1>5, <2>1 DEF FilledBy
  <2>8. c[i - 1] \in 0 .. Len(x) /\ c[i] \in 0 .. Len(x)
    BY <1>5, <2>2, <2>7
  <2>9. Slot(u, i) => c[i] = c[i - 1] + 1 /\ u[i] = Placeholder(m + c[i]) /\ p[i] = Literal(x[c[i]])
    BY <2>1, <2>2, <2>3, <2>5, <2>6, <2>7 DEF FilledBy
  <2>10. ~Slot(u, i) => c[i] = c[i - 1] /\ p[i] = u[i]
    BY <2>1, <2>2, <2>3, <2>6 DEF FilledBy
  <2> QED BY <2>8, <2>9, <2>10 DEF FilledBy
<1>9. ASSUME NEW j \in 1 .. Len(t) PROVE FilledBy(u, m, x, p, c, a + j)
  <2>1. FilledBy(t, m + Len(v), w, q, k, j)
    BY <1>3, <1>9 DEF Counts
  <2>2. c[a + j] = b + k[j] /\ c[(a + j) - 1] = b + k[j - 1]
    <3>1. n[a] = b /\ k[0] = 0
      BY <1>2, <1>3, <1>4 DEF Counts
    <3>2. CASE j = 1
      BY <1>5, <1>9, <3>1, <3>2, <2>1 DEF FilledBy
    <3>3. CASE j # 1
      BY <1>5, <1>9, <3>3
    <3> QED BY <3>2, <3>3
  <2>3. u[a + j] = t[j] /\ p[a + j] = q[j]
    <3>1. \A l \in 1 .. Len(t) : (s \o t)[Len(s) + l] = t[l]
      BY <1>1, ConcatIsText
    <3>2. Len(r) = a /\ Len(q) = Len(t)
      BY <1>1, <1>4
    <3>3. \A l \in 1 .. Len(q) : (r \o q)[Len(r) + l] = q[l]
      BY <1>1, ConcatIsText
    <3>4. p[a + j] = q[j]
      BY <1>4, <1>9, <3>2, <3>3
    <3>5. u[a + j] = t[j]
      BY <1>4, <1>9, <3>1
    <3> QED BY <3>4, <3>5
  <2>4. QuoteBefore(u)[a + j] = QuoteBefore(t)[j]
    <3>1. j \in 1 .. Len(t) + 1
      BY <1>5, <1>9
    <3> QED BY <1>1, <1>4, <3>1, ConcatQuotes
  <2>5. \A l \in 1 .. Len(w) : x[b + l] = w[l]
    BY <1>1, <1>4, ConcatIsText
  <2>6. Slot(u, a + j) <=> Slot(t, j)
    BY <2>3, <2>4 DEF Slot
  <2> HIDE DEF c
  <2>7. k[j] \in 0 .. Len(w) /\ k[j - 1] \in 0 .. Len(w) /\ (Slot(t, j) => k[j] \in 1 .. Len(w))
    BY <1>5, <2>1 DEF FilledBy
  <2>8. c[(a + j) - 1] \in 0 .. Len(x) /\ c[a + j] \in 0 .. Len(x)
    <3>1. PICK y, z, l : y = k[j] /\ z = k[j - 1] /\ l = Len(w)
      OBVIOUS
    <3>2. y \in 0 .. l /\ z \in 0 .. l /\ l \in Nat
      BY <1>5, <2>7, <3>1
    <3>3. b + y \in 0 .. b + l /\ b + z \in 0 .. b + l
      BY <1>5, <3>2
    <3>4. Len(x) = b + l
      BY <1>5, <3>1
    <3> QED BY <2>2, <3>1, <3>3, <3>4
  <2>9. ASSUME Slot(t, j)
        PROVE  c[a + j] = c[(a + j) - 1] + 1 /\ u[a + j] = Placeholder(m + c[a + j]) /\ p[a + j] = Literal(x[c[a + j]])
    <3>1. k[j] = k[j - 1] + 1 /\ t[j] = Placeholder((m + Len(v)) + k[j]) /\ q[j] = Literal(w[k[j]])
      BY <2>1, <2>9 DEF FilledBy
    <3>2. (m + Len(v)) + k[j] = m + (b + k[j])
      BY <1>4, <1>5, <2>7
    <3>3. x[b + k[j]] = w[k[j]]
      BY <2>5, <2>7, <2>9
    <3>4. c[a + j] = c[(a + j) - 1] + 1
      BY <1>5, <2>2, <2>7, <3>1
    <3> QED BY <2>2, <2>3, <3>1, <3>2, <3>3, <3>4
  <2>10. ~Slot(t, j) => c[a + j] = c[(a + j) - 1] /\ p[a + j] = u[a + j]
    BY <2>1, <2>2, <2>3 DEF FilledBy
  <2> QED BY <2>6, <2>8, <2>9, <2>10 DEF FilledBy
<1>10. ASSUME NEW i \in 1 .. Len(u) PROVE FilledBy(u, m, x, p, c, i)
  <2> HIDE DEF c
  <2>1. CASE i \in 1 .. a
    BY <1>8, <2>1
  <2>2. CASE i \notin 1 .. a
    <3>1. PICK j : j = i - a
      OBVIOUS
    <3>2. j \in 1 .. Len(t) /\ i = a + j
      BY <1>5, <1>10, <2>2, <3>1
    <3> QED BY <1>9, <3>2
  <2> QED BY <2>1, <2>2
<1> HIDE DEF c
<1>11. Counts(u, m, x, p, c)
  BY <1>7, <1>10 DEF Counts
<1> QED BY <1>1, <1>4, <1>5, <1>6, <1>11 DEF Fills

(* A text without placeholders outside quotes reads as it is.                 *)
LEMMA PlainFills ==
  ASSUME NEW m \in Nat, NEW s, Balanced(s), \A i \in 1 .. Len(s) : ~Slot(s, i)
  PROVE  Fills(s, m, <<>>, s)
<1> DEFINE c == [i \in 0 .. Len(s) |-> 0]
<1>1. IsText(s) /\ Len(s) \in Nat
  BY TextLength DEF Balanced
<1>2. PICK v : v = <<>>
  OBVIOUS
<1>3. IsText(v) /\ Len(v) = 0
  BY <1>2 DEF IsText
<1>4. ASSUME NEW i \in 1 .. Len(s) PROVE FilledBy(s, m, v, s, c, i)
  <2>1. c[i] = 0 /\ c[i - 1] = 0
    BY <1>1, <1>4
  <2> QED BY <1>3, <2>1 DEF FilledBy
<1>5. c[0] = 0 /\ c[Len(s)] = Len(v)
  BY <1>1, <1>3
<1> HIDE DEF c
<1>6. Counts(s, m, v, s, c)
  BY <1>4, <1>5 DEF Counts
<1> QED BY <1>1, <1>2, <1>3, <1>6 DEF Fills

(* One token. *)
LEMMA OneToken ==
  ASSUME NEW x
  PROVE  /\ IsText(<<x>>) /\ Len(<<x>>) = 1 /\ <<x>>[1] = x
         /\ QuoteBefore(<<x>>)[1] = <<>>
         /\ x[1] # "quote" /\ x # <<>> => Balanced(<<x>>)
<1>1. PICK s : s = <<x>>
  OBVIOUS
<1>2. IsText(s) /\ Len(s) = 1 /\ s[1] = x
  BY <1>1 DEF IsText
<1>3. QuoteBefore(s)[1] = <<>> /\ \A i \in 1 .. 1 : QuoteBefore(s)[i + 1] = QuoteAfter(QuoteBefore(s)[i], s[i])
  BY <1>2, QuoteEquations
<1>4. QuoteBefore(s)[1 + 1] = QuoteAfter(<<>>, x)
  BY <1>2, <1>3
<1> QED BY <1>1, <1>2, <1>3, <1>4 DEF Balanced, QuoteAfter

(* A word reads as it is. *)
LEMMA WordFills ==
  ASSUME NEW m \in Nat, NEW w
  PROVE  Fills(<<Word(w)>>, m, <<>>, <<Word(w)>>)
<1>1. PICK s : s = <<Word(w)>>
  OBVIOUS
<1>2. Word(w)[1] = "word" /\ Word(w) # <<>>
  BY DEF Word
<1>3. Balanced(s) /\ Len(s) = 1 /\ s[1] = Word(w)
  BY <1>1, <1>2, OneToken
<1>4. \A i \in 1 .. Len(s) : ~Slot(s, i)
  BY <1>2, <1>3 DEF Slot
<1> QED BY <1>1, <1>3, <1>4, PlainFills

(* The next placeholder reads as the next value. *)
LEMMA PlaceholderFills ==
  ASSUME NEW m \in Nat, NEW k, k = m + 1, NEW value
  PROVE  Fills(<<Placeholder(k)>>, m, <<value>>, <<Literal(value)>>)
<1>1. PICK s, v, r : s = <<Placeholder(k)>> /\ v = <<value>> /\ r = <<Literal(value)>>
  OBVIOUS
<1>2. Placeholder(k)[1] = "bind" /\ Placeholder(k) # <<>>
  BY DEF Placeholder
<1>3. Balanced(s) /\ Len(s) = 1 /\ s[1] = Placeholder(k) /\ QuoteBefore(s)[1] = <<>>
  BY <1>1, <1>2, OneToken
<1>4. IsText(v) /\ IsText(r) /\ Len(v) = 1 /\ Len(r) = 1 /\ v[1] = value /\ r[1] = Literal(value)
  BY <1>1, OneToken
<1> DEFINE c == [i \in 0 .. 1 |-> i]
<1>5. c[0] = 0 /\ c[1] = 1
  OBVIOUS
<1> HIDE DEF c
<1>6. Slot(s, 1)
  BY <1>2, <1>3 DEF Slot
<1>7. FilledBy(s, m, v, r, c, 1)
  BY <1>3, <1>4, <1>5, <1>6 DEF FilledBy
<1>8. Counts(s, m, v, r, c)
  BY <1>3, <1>4, <1>5, <1>7 DEF Counts
<1> QED BY <1>1, <1>3, <1>4, <1>8 DEF Fills

(* A name holds no double quotes, so it is over where it should be, and what  *)
(* looks like a placeholder in it is none.                                    *)
IsName(name) ==
  IsText(Spelling(name)) /\ \A i \in 1 .. Len(Spelling(name)) : Spelling(name)[i] \notin {<<>>, Double}

(* A quoted name reads as it is, whatever it holds. *)
LEMMA IdentifierFills ==
  ASSUME NEW m \in Nat, NEW name, IsName(name)
  PROVE  Fills(QuoteIdentifier(name), m, <<>>, QuoteIdentifier(name))
<1>1. PICK sp, d : sp = Spelling(name) /\ d = Double
  OBVIOUS
<1>2. PICK u : u = <<d>> \o sp
  OBVIOUS
<1>3. PICK s : s = u \o <<d>>
  OBVIOUS
<1>4. PICK n : n = Len(sp)
  OBVIOUS
<1>5. n \in Nat /\ IsText(sp) /\ \A i \in 1 .. n : sp[i] # d /\ sp[i] # <<>>
  BY <1>1, <1>4, TextLength DEF IsName
<1>6. /\ IsText(u) /\ Len(u) = n + 1 /\ u[1] = d
      /\ \A i \in 1 .. n : u[1 + i] = sp[i]
  BY <1>2, <1>4, <1>5, OneToken, ConcatIsText
<1>7. /\ IsText(s) /\ Len(s) = n + 2 /\ s[n + 2] = d
      /\ \A i \in 1 .. n + 1 : s[i] = u[i]
  BY <1>3, <1>5, <1>6, OneToken, ConcatIsText
<1>8. d # <<>> /\ d[1] = "quote"
  BY <1>1 DEF Double
<1>9. \A i \in 2 .. n + 2 : QuoteBefore(s)[i] = d
  <2> DEFINE q == QuoteBefore(s)
             Bad == {i \in 2 .. n + 2 : q[i] # d}
  <2> SUFFICES ASSUME Bad # {} PROVE FALSE
    OBVIOUS
  <2>1. q[1] = <<>> /\ \A i \in 1 .. n + 2 : q[i + 1] = QuoteAfter(q[i], s[i])
    BY <1>7, QuoteEquations
  <2> HIDE DEF q
  <2>2. PICK j \in Bad : \A x \in Bad : j <= x
    <3>1. Bad \in SUBSET Nat
      BY <1>5
    <3> QED BY <3>1, LeastOfNaturals
  <2>3. q[2] = d
    <3>1. q[1 + 1] = QuoteAfter(q[1], s[1]) /\ s[1] = d
      BY <1>5, <1>6, <1>7, <2>1
    <3> QED BY <1>8, <2>1, <3>1 DEF QuoteAfter
  <2>4. PICK i : i = j - 1
    OBVIOUS
  <2>5. i \in 2 .. n + 1 /\ j = i + 1 /\ ~(j <= i)
    BY <1>5, <2>2, <2>3, <2>4
  <2>6. q[i] = d
    BY <1>5, <2>2, <2>5
  <2>7. s[i] # d
    <3>1. PICK l : l = i - 1
      OBVIOUS
    <3>2. l \in 1 .. n /\ i = 1 + l /\ i \in 1 .. n + 1
      BY <1>5, <2>5, <3>1
    <3> QED BY <1>5, <1>6, <1>7, <3>2
  <2>8. q[j] = QuoteAfter(d, s[i])
    BY <1>5, <2>1, <2>5, <2>6
  <2> QED BY <1>8, <2>2, <2>7, <2>8 DEF QuoteAfter
<1>10. Balanced(s)
  <2>1. QuoteBefore(s)[(n + 2) + 1] = QuoteAfter(QuoteBefore(s)[n + 2], s[n + 2])
    BY <1>5, <1>7, QuoteEquations
  <2>2. QuoteBefore(s)[n + 2] = d
    BY <1>5, <1>9
  <2>3. ASSUME NEW i \in 1 .. Len(s) PROVE s[i] # <<>>
    <3>1. CASE i = 1
      BY <1>5, <1>6, <1>7, <1>8, <3>1
    <3>2. CASE i = n + 2
      BY <1>7, <1>8, <3>2
    <3>3. CASE i # 1 /\ i # n + 2
      <4>1. PICK l : l = i - 1
        OBVIOUS
      <4>2. l \in 1 .. n /\ i = 1 + l /\ i \in 1 .. n + 1
        BY <1>5, <1>7, <2>3, <3>3, <4>1
      <4> QED BY <1>5, <1>6, <1>7, <4>2
    <3> QED BY <3>1, <3>2, <3>3
  <2>4. QuoteBefore(s)[(n + 2) + 1] = <<>>
    BY <1>7, <1>8, <2>1, <2>2 DEF QuoteAfter
  <2> QED BY <1>7, <2>3, <2>4 DEF Balanced
<1>11. \A i \in 1 .. Len(s) : ~Slot(s, i)
  <2> TAKE i \in 1 .. Len(s)
  <2>1. CASE i = 1
    BY <1>5, <1>6, <1>7, <1>8, <2>1 DEF Slot
  <2>2. CASE i # 1
    <3>1. i \in 2 .. n + 2
      BY <1>5, <1>7, <2>2
    <3> QED BY <1>8, <1>9, <3>1 DEF Slot
  <2> QED BY <2>1, <2>2
<1>12. s = QuoteIdentifier(name)
  BY <1>1, <1>2, <1>3 DEF QuoteIdentifier
<1> QED BY <1>10, <1>11, <1>12, PlainFills

(* A fragment is numbered on its own; shifted by k, its numbers follow those  *)
(* of k binds, and placeholders in its names stay.                            *)
LEMMA ShiftFills ==
  ASSUME NEW m \in Nat, NEW k \in Nat, NEW s, NEW v, NEW r, Fills(s, m, v, r)
  PROVE  Fills(ShiftPlaceholders(s, k), m + k, v, r)
<1>1. PICK u : u = ShiftPlaceholders(s, k)
  OBVIOUS
<1>2. Balanced(s) /\ IsText(s) /\ IsText(v) /\ IsText(r) /\ Len(r) = Len(s) /\ Len(s) \in Nat /\ Len(v) \in Nat
  BY TextLength DEF Fills, Balanced
<1>3. PICK n : Counts(s, m, v, r, n)
  BY DEF Fills
<1>4. DOMAIN s = 1 .. Len(s)
  BY <1>2 DEF IsText
<1>5. IsText(u) /\ Len(u) = Len(s)
  BY <1>1, <1>2, <1>4 DEF ShiftPlaceholders, Rewritten, IsText
<1>6. ASSUME NEW i \in 1 .. Len(s)
      PROVE  /\ ~Slot(s, i) => u[i] = s[i]
             /\ Slot(s, i) => s[i] = Placeholder(m + n[i]) /\ u[i] = Placeholder((m + k) + n[i])
  <2>1. u[i] = IF Slot(s, i) THEN [j \in Nat |-> Placeholder(j + k)][s[i][2]] ELSE s[i]
    BY <1>1, <1>4, <1>6 DEF ShiftPlaceholders, Rewritten, Slot
  <2>2. ASSUME Slot(s, i) PROVE s[i] = Placeholder(m + n[i]) /\ u[i] = Placeholder((m + k) + n[i])
    <3>1. s[i] = Placeholder(m + n[i]) /\ n[i] \in Nat
      BY <1>2, <1>3, <2>2 DEF Counts, FilledBy
    <3>2. PICK j : j = m + n[i]
      OBVIOUS
    <3>3. s[i][2] = j /\ j \in Nat /\ j + k = (m + k) + n[i]
      BY <3>1, <3>2 DEF Placeholder
    <3>4. u[i] = Placeholder(j + k)
      BY <2>1, <2>2, <3>3
    <3> QED BY <3>1, <3>3, <3>4
  <2> QED BY <2>1, <2>2
<1>7. PICK z, l : z = 0 /\ l = Len(s)
  OBVIOUS
<1>8. AlikeFrom(u, z, s, z, l)
  <2> SUFFICES ASSUME NEW i \in 1 .. l PROVE SameQuote(u[z + i], s[z + i])
    BY DEF AlikeFrom
  <2>1. z + i = i /\ i \in 1 .. Len(s)
    BY <1>2, <1>7
  <2>2. SameQuote(u[i], s[i])
    BY <1>6, <2>1 DEF SameQuote, Placeholder
  <2> QED BY <2>1, <2>2
<1>9. OpenAlike(u, z, s, z, l)
  <2>1. QuoteBefore(u)[z + 1] = QuoteBefore(s)[z + 1]
    <3>1. QuoteBefore(u)[1] = <<>> /\ QuoteBefore(s)[1] = <<>>
      BY <1>2, <1>5, QuoteEquations
    <3> QED BY <1>7, <3>1
  <2>2. z \in Nat /\ l \in Nat /\ z + l <= Len(u) /\ z + l <= Len(s)
    BY <1>2, <1>5, <1>7
  <2> QED BY <1>2, <1>5, <1>8, <2>1, <2>2, SameQuotes
<1>10. \A i \in 1 .. Len(s) + 1 : QuoteBefore(u)[i] = QuoteBefore(s)[i]
  BY <1>2, <1>7, <1>9 DEF OpenAlike
<1>11. Balanced(u)
  <2>1. \A i \in 1 .. Len(s) : u[i] # <<>>
    BY <1>2, <1>6 DEF Balanced, Placeholder
  <2>2. QuoteBefore(u)[Len(s) + 1] = <<>>
    BY <1>2, <1>10 DEF Balanced
  <2> QED BY <1>5, <2>1, <2>2 DEF Balanced
<1>12. ASSUME NEW i \in 1 .. Len(s) PROVE FilledBy(u, m + k, v, r, n, i)
  <2>1. FilledBy(s, m, v, r, n, i)
    BY <1>3, <1>12 DEF Counts
  <2>2. QuoteBefore(u)[i] = QuoteBefore(s)[i]
    BY <1>2, <1>10, <1>12
  <2>3. Slot(u, i) <=> Slot(s, i)
    BY <1>6, <1>12, <2>2 DEF Slot, Placeholder
  <2> QED BY <1>6, <1>12, <2>1, <2>3 DEF FilledBy
<1>13. Counts(u, m + k, v, r, n)
  BY <1>3, <1>5, <1>12 DEF Counts
<1> QED BY <1>1, <1>2, <1>5, <1>11, <1>13 DEF Fills

(* EXPLAIN ANALYZE writes each value in the place of its number.              *)
LEMMA InlineFills ==
  ASSUME NEW statement, NEW r, Fills(statement.sql, 0, statement.binds, r)
  PROVE  InlineBinds(statement) = r
<1>1. PICK s, v, z : s = statement.sql /\ v = statement.binds /\ z = 0
  OBVIOUS
<1>2. IsText(s) /\ IsText(v) /\ IsText(r) /\ Len(r) = Len(s) /\ Len(s) \in Nat /\ Len(v) \in Nat /\ z \in Nat
  BY <1>1, TextLength DEF Fills, Balanced
<1>3. PICK n : Counts(s, z, v, r, n)
  BY <1>1 DEF Fills
<1>4. DOMAIN s = 1 .. Len(s) /\ DOMAIN v = 1 .. Len(v)
  BY <1>2 DEF IsText
<1>5. PICK u : u = InlineBinds(statement)
  OBVIOUS
<1>6. IsText(u) /\ Len(u) = Len(s)
  BY <1>1, <1>2, <1>4, <1>5 DEF InlineBinds, Rewritten, IsText
<1>7. ASSUME NEW i \in 1 .. Len(s) PROVE u[i] = r[i]
  <2> DEFINE new == [j \in Nat |-> IF j \in DOMAIN v THEN Literal(v[j]) ELSE Placeholder(j)]
  <2>1. u[i] = IF Slot(s, i) THEN new[s[i][2]] ELSE s[i]
    <3>1. u = Rewritten(s, QuoteBefore(s), new)
      BY <1>1, <1>5 DEF InlineBinds
    <3> HIDE DEF new
    <3> QED BY <1>4, <1>7, <3>1 DEF Rewritten, Slot
  <2>2. FilledBy(s, z, v, r, n, i)
    BY <1>3, <1>7 DEF Counts
  <2>3. CASE ~Slot(s, i)
    BY <2>1, <2>2, <2>3 DEF FilledBy
  <2>4. CASE Slot(s, i)
    <3>1. s[i] = Placeholder(z + n[i]) /\ n[i] \in 1 .. Len(v) /\ r[i] = Literal(v[n[i]])
      BY <1>2, <2>2, <2>4 DEF FilledBy
    <3>2. s[i][2] = n[i] /\ n[i] \in Nat
      <4>1. PICK l : l = n[i]
        OBVIOUS
      <4>2. l \in Nat /\ z = 0
        BY <1>1, <1>2, <3>1, <4>1
      <4>3. z + l = l
        BY <4>2
      <4>4. PICK y : y = z + l
        OBVIOUS
      <4>5. s[i] = Placeholder(y) /\ y = l
        BY <3>1, <4>1, <4>3, <4>4
      <4>6. Placeholder(y)[2] = y
        BY DEF Placeholder
      <4> QED BY <4>1, <4>2, <4>5, <4>6
    <3>3. u[i] = Literal(v[n[i]])
      BY <1>4, <2>1, <2>4, <3>1, <3>2
    <3> QED BY <3>1, <3>3
  <2> QED BY <2>3, <2>4
<1>8. u = r
  BY <1>2, <1>6, <1>7, SameText
<1> QED BY <1>5, <1>8

(* Oracle sees the same quotes, and so the same placeholders.                 *)
LEMMA OpenIsQuoted ==
  ASSUME NEW x, NEW token, IsQuote(x), token # <<>>
  PROVE  OpenAfter(IF x = <<>> THEN Word("") ELSE x, token)
           = IF QuoteAfter(x, token) = <<>> THEN Word("") ELSE QuoteAfter(x, token)
<1>1. PICK none : none = Word("")
  OBVIOUS
<1>2. none[1] = "word"
  BY <1>1 DEF Word
<1>3. CASE x = <<>>
  <2>1. CASE token[1] = "quote"
    <3>1. OpenAfter(none, token) = token
      BY <1>1, <1>2, <2>1 DEF OpenAfter
    <3>2. QuoteAfter(x, token) = token
      BY <1>3, <2>1 DEF QuoteAfter
    <3> QED BY <1>1, <1>3, <3>1, <3>2
  <2>2. CASE token[1] # "quote"
    <3>1. OpenAfter(none, token) = none
      BY <1>1, <2>2 DEF OpenAfter
    <3>2. QuoteAfter(x, token) = <<>>
      BY <1>3, <2>2 DEF QuoteAfter
    <3> QED BY <1>1, <1>3, <3>1, <3>2
  <2> QED BY <2>1, <2>2
<1>4. CASE x # <<>>
  <2>1. x[1] = "quote" /\ x # none
    BY <1>2, <1>4 DEF IsQuote
  <2>2. CASE token = x
    <3>1. OpenAfter(x, token) = none
      <4>1. token[1] = "quote"
        BY <2>1, <2>2
      <4> QED BY <1>1, <2>1, <2>2, <4>1 DEF OpenAfter
    <3>2. QuoteAfter(x, token) = <<>>
      BY <1>4, <2>2 DEF QuoteAfter
    <3> QED BY <1>1, <1>4, <3>1, <3>2
  <2>3. CASE token # x
    <3>1. OpenAfter(x, token) = x /\ QuoteAfter(x, token) = x
      BY <1>1, <1>4, <2>1, <2>3 DEF OpenAfter, QuoteAfter
    <3> QED BY <1>1, <1>4, <3>1
  <2> QED BY <2>2, <2>3
<1> QED BY <1>3, <1>4

(* What Oracle has open after k tokens. *)
OracleOpen(s, k) == IF QuoteBefore(s)[k + 1] = <<>> THEN Word("") ELSE QuoteBefore(s)[k + 1]

(* It is what OpenAfter computes, token by token. *)
LEMMA OracleOpens ==
  ASSUME NEW s, Balanced(s)
  PROVE  /\ OracleOpen(s, 0) = Word("")
         /\ \A k \in 1 .. Len(s) : OracleOpen(s, k) = OpenAfter(OracleOpen(s, k - 1), s[k])
<1>1. IsText(s) /\ Len(s) \in Nat
  BY TextLength DEF Balanced
<1>2. QuoteBefore(s)[1] = <<>> /\ \A i \in 1 .. Len(s) : QuoteBefore(s)[i + 1] = QuoteAfter(QuoteBefore(s)[i], s[i])
  BY <1>1, QuoteEquations
<1>3. ASSUME NEW k \in 1 .. Len(s) PROVE OracleOpen(s, k) = OpenAfter(OracleOpen(s, k - 1), s[k])
  <2>1. PICK x, token : x = QuoteBefore(s)[k] /\ token = s[k]
    OBVIOUS
  <2>2. IsQuote(x)
    <3>1. k \in 1 .. Len(s) + 1
      BY <1>1, <1>3
    <3> QED BY <1>1, <2>1, <3>1, OpenIsQuote
  <2>3. token # <<>>
    BY <1>3, <2>1 DEF Balanced
  <2>4. OracleOpen(s, k - 1) = IF x = <<>> THEN Word("") ELSE x
    <3>1. (k - 1) + 1 = k
      BY <1>1, <1>3
    <3> QED BY <2>1, <3>1 DEF OracleOpen
  <2>5. OracleOpen(s, k) = IF QuoteAfter(x, token) = <<>> THEN Word("") ELSE QuoteAfter(x, token)
    BY <1>2, <1>3, <2>1 DEF OracleOpen
  <2>6. OpenAfter(IF x = <<>> THEN Word("") ELSE x, token)
           = IF QuoteAfter(x, token) = <<>> THEN Word("") ELSE QuoteAfter(x, token)
    BY <2>2, <2>3, OpenIsQuoted
  <2> QED BY <2>1, <2>4, <2>5, <2>6
<1>4. OracleOpen(s, 0) = Word("")
  <2>1. 0 + 1 = 1
    OBVIOUS
  <2> QED BY <1>2, <2>1 DEF OracleOpen
<1> QED BY <1>3, <1>4

(* The placeholders Oracle finds are those outside the scan's quotes. *)
LEMMA OraclePositions ==
  ASSUME NEW s, Balanced(s)
  PROVE  Positions(s) = {i \in 1 .. Len(s) : Slot(s, i)}
<1> DEFINE Is(f) == f = [k \in 0 .. Len(s) |-> IF k = 0 THEN Word("") ELSE OpenAfter(f[k - 1], s[k])]
           h == [k \in 0 .. Len(s) |-> OracleOpen(s, k)]
<1>1. IsText(s) /\ Len(s) \in Nat /\ DOMAIN s = 1 .. Len(s)
  BY TextLength DEF Balanced, IsText
<1>2. Is(h)
  <2>1. ASSUME NEW k \in 0 .. Len(s) PROVE h[k] = IF k = 0 THEN Word("") ELSE OpenAfter(h[k - 1], s[k])
    <3>1. CASE k = 0
      BY <1>1, <3>1, OracleOpens
    <3>2. CASE k # 0
      <4>1. k \in 1 .. Len(s) /\ k - 1 \in 0 .. Len(s)
        BY <1>1, <2>1, <3>2
      <4>2. h[k] = OracleOpen(s, k) /\ h[k - 1] = OracleOpen(s, k - 1)
        BY <4>1
      <4> HIDE DEF h
      <4> QED BY <3>2, <4>1, <4>2, OracleOpens
    <3> QED BY <3>1, <3>2
  <2> QED BY <2>1
<1>3. PICK f : f = CHOOSE g : Is(g)
  OBVIOUS
<1>4. Is(f)
  <2>1. \E g : Is(g)
    BY <1>2
  <2> HIDE DEF Is
  <2> QED BY <1>3, <2>1
<1>5. Positions(s) = {i \in DOMAIN s : s[i][1] = "bind" /\ f[i - 1] = Word("")}
  BY <1>3 DEF Positions
<1> HIDE DEF h
<1>6. \A k \in 0 .. Len(s) : f[k] = OracleOpen(s, k)
  <2> DEFINE Bad == {k \in 0 .. Len(s) : f[k] # OracleOpen(s, k)}
  <2> SUFFICES ASSUME Bad # {} PROVE FALSE
    OBVIOUS
  <2>1. f[0] = Word("") /\ \A k \in 1 .. Len(s) : f[k] = OpenAfter(f[k - 1], s[k])
    <3>1. ASSUME NEW k \in 0 .. Len(s) PROVE f[k] = IF k = 0 THEN Word("") ELSE OpenAfter(f[k - 1], s[k])
      BY <1>4
    <3> HIDE DEF Is
    <3>2. 0 \in 0 .. Len(s) /\ \A k \in 1 .. Len(s) : k \in 0 .. Len(s) /\ k # 0
      BY <1>1
    <3> QED BY <3>1, <3>2
  <2> HIDE DEF Is
  <2>2. PICK k \in Bad : \A x \in Bad : k <= x
    <3>1. Bad \in SUBSET Nat
      BY <1>1
    <3> QED BY <3>1, LeastOfNaturals
  <2>3. k # 0
    BY <2>1, <2>2, OracleOpens
  <2>4. PICK j : j = k - 1
    OBVIOUS
  <2>5. k \in 1 .. Len(s) /\ j \in 0 .. Len(s) /\ ~(k <= j)
    BY <1>1, <2>2, <2>3, <2>4
  <2>6. f[j] = OracleOpen(s, j)
    BY <2>2, <2>5
  <2>7. f[k] = OpenAfter(f[j], s[k]) /\ OracleOpen(s, k) = OpenAfter(OracleOpen(s, j), s[k])
    BY <2>1, <2>4, <2>5, OracleOpens
  <2> QED BY <2>2, <2>6, <2>7
<1> HIDE DEF Is
<1>7. ASSUME NEW i \in 1 .. Len(s) PROVE f[i - 1] = Word("") <=> QuoteBefore(s)[i] = <<>>
  <2>1. i - 1 \in 0 .. Len(s) /\ (i - 1) + 1 = i /\ i \in 1 .. Len(s) + 1
    BY <1>1, <1>7
  <2>2. f[i - 1] = IF QuoteBefore(s)[i] = <<>> THEN Word("") ELSE QuoteBefore(s)[i]
    BY <1>6, <2>1 DEF OracleOpen
  <2>3. IsQuote(QuoteBefore(s)[i])
    BY <1>1, <2>1, OpenIsQuote
  <2>4. Word("")[1] = "word"
    BY DEF Word
  <2> QED BY <2>2, <2>3, <2>4 DEF IsQuote
<1> QED BY <1>1, <1>5, <1>7 DEF Slot

(* The placeholders up to a place are as many as the count says.              *)
UpTo(s, i) == {j \in 1 .. i : Slot(s, j)}

(* The count says how many placeholders there are up to each token. *)
LEMMA UpToIsCounted ==
  ASSUME NEW s, NEW v, NEW r, NEW n, IsText(s), IsText(v), Counts(s, 0, v, r, n)
  PROVE  \A i \in 0 .. Len(s) : IsFiniteSet(UpTo(s, i)) /\ Cardinality(UpTo(s, i)) = n[i]
<1> DEFINE Good(i) == IsFiniteSet(UpTo(s, i)) /\ Cardinality(UpTo(s, i)) = n[i]
           Bad == {i \in 0 .. Len(s) : ~Good(i)}
<1> SUFFICES ASSUME Bad # {} PROVE FALSE
  OBVIOUS
<1>1. Len(s) \in Nat /\ Len(v) \in Nat
  BY TextLength
<1>2. PICK i \in Bad : \A x \in Bad : i <= x
  <2> HIDE DEF Good
  <2>1. Bad \in SUBSET Nat
    BY <1>1
  <2> QED BY <2>1, LeastOfNaturals
<1>3. i # 0
  <2>1. UpTo(s, 0) = {}
    BY DEF UpTo
  <2>2. n[0] = 0
    BY DEF Counts
  <2>3. Good(0)
    BY <2>1, <2>2, FS_EmptySet
  <2> QED BY <1>2, <2>3
<1>4. PICK j : j = i - 1
  OBVIOUS
<1>5. i \in 1 .. Len(s) /\ j \in 0 .. Len(s) /\ i = j + 1 /\ ~(i <= j)
  BY <1>1, <1>2, <1>3, <1>4
<1>6. Good(j)
  <2> HIDE DEF Good
  <2> QED BY <1>2, <1>5
<1>7. PICK A, B : A = UpTo(s, j) /\ B = UpTo(s, i)
  OBVIOUS
<1>8. i \notin A /\ B = IF Slot(s, i) THEN A \cup {i} ELSE A
  BY <1>1, <1>5, <1>7 DEF UpTo
<1>9. n[j] \in Nat /\ n[i] = IF Slot(s, i) THEN n[j] + 1 ELSE n[j]
  BY <1>1, <1>4, <1>5 DEF Counts, FilledBy
<1>10. IsFiniteSet(B) /\ Cardinality(B) = n[i]
  <2>1. IsFiniteSet(A) /\ Cardinality(A) = n[j]
    BY <1>6, <1>7
  <2>2. CASE Slot(s, i)
    <3>1. IsFiniteSet(A \cup {i}) /\ Cardinality(A \cup {i}) = Cardinality(A) + 1
      BY <1>8, <2>1, FS_AddElement
    <3> QED BY <1>8, <1>9, <2>1, <2>2, <3>1
  <2>3. CASE ~Slot(s, i)
    BY <1>8, <1>9, <2>1, <2>3
  <2> QED BY <2>2, <2>3
<1> QED BY <1>2, <1>7, <1>10

(* Oracle, which gives the k-th placeholder the k-th value, reads what was    *)
(* meant.                                                                     *)
LEMMA OracleFills ==
  ASSUME NEW s, NEW v, NEW r, Fills(s, 0, v, r)
  PROVE  Cardinality(Positions(s)) = Len(v) /\ OracleReads(s, v) = r
<1>1. IsText(s) /\ IsText(v) /\ IsText(r) /\ Balanced(s) /\ Len(r) = Len(s)
  BY DEF Fills, Balanced
<1>2. PICK n : Counts(s, 0, v, r, n)
  BY DEF Fills
<1>3. Len(s) \in Nat /\ Len(v) \in Nat /\ DOMAIN s = 1 .. Len(s)
  BY <1>1, TextLength DEF IsText
<1>4. PICK P : P = Positions(s)
  OBVIOUS
<1>5. P = UpTo(s, Len(s))
  BY <1>1, <1>4, OraclePositions DEF UpTo
<1>6. Cardinality(P) = Len(v)
  <2>1. Len(s) \in 0 .. Len(s)
    BY <1>3
  <2>2. Cardinality(UpTo(s, Len(s))) = n[Len(s)]
    BY <1>1, <1>2, <2>1, UpToIsCounted
  <2> QED BY <1>2, <1>5, <2>2 DEF Counts
<1>7. PICK u : u = OracleReads(s, v)
  OBVIOUS
<1>8. u = [i \in DOMAIN s |-> IF i \in P THEN Literal(v[Cardinality({j \in P : j <= i})]) ELSE s[i]]
  BY <1>4, <1>7 DEF OracleReads
<1>9. IsText(u) /\ Len(u) = Len(s)
  BY <1>3, <1>8 DEF IsText
<1>10. ASSUME NEW i \in 1 .. Len(s) PROVE u[i] = r[i]
  <2>1. {j \in P : j <= i} = UpTo(s, i)
    BY <1>3, <1>5, <1>10 DEF UpTo
  <2>2. Cardinality(UpTo(s, i)) = n[i]
    <3>1. i \in 0 .. Len(s)
      BY <1>3, <1>10
    <3> QED BY <1>1, <1>2, <3>1, UpToIsCounted
  <2>3. i \in P <=> Slot(s, i)
    BY <1>3, <1>5, <1>10 DEF UpTo
  <2>4. u[i] = IF Slot(s, i) THEN Literal(v[n[i]]) ELSE s[i]
    <3>1. u[i] = IF i \in P THEN Literal(v[Cardinality({j \in P : j <= i})]) ELSE s[i]
      BY <1>3, <1>8, <1>10
    <3> QED BY <2>1, <2>2, <2>3, <3>1
  <2>5. FilledBy(s, 0, v, r, n, i)
    BY <1>2, <1>10 DEF Counts
  <2> QED BY <2>4, <2>5 DEF FilledBy
<1>11. u = r
  BY <1>1, <1>9, <1>10, SameText
<1> QED BY <1>4, <1>6, <1>7, <1>11

(* The empty text. *)
LEMMA EmptyText == IsText(<<>>) /\ Len(<<>>) = 0
BY DEF IsText

(* The empty text adds nothing. *)
LEMMA EmptyConcat ==
  ASSUME NEW s, IsText(s) PROVE <<>> \o s = s /\ s \o <<>> = s
<1>1. PICK e, u, t : e = <<>> /\ u = e \o s /\ t = s \o e
  OBVIOUS
<1>2. IsText(e) /\ Len(e) = 0 /\ Len(s) \in Nat
  BY <1>1, EmptyText, TextLength
<1>3. IsText(u) /\ Len(u) = Len(s) /\ \A i \in 1 .. Len(s) : u[Len(e) + i] = s[i]
  BY <1>1, <1>2, ConcatIsText
<1>4. IsText(t) /\ Len(t) = Len(s) /\ \A i \in 1 .. Len(s) : t[i] = s[i]
  BY <1>1, <1>2, ConcatIsText
<1>5. \A i \in 1 .. Len(s) : u[i] = s[i]
  <2> TAKE i \in 1 .. Len(s)
  <2>1. Len(e) + i = i
    BY <1>2
  <2> QED BY <1>3, <2>1
<1>6. u = s
  BY <1>3, <1>5, SameText
<1>7. t = s
  BY <1>4, SameText
<1> QED BY <1>1, <1>6, <1>7

-----------------------------------------------------------------------------
(* Texts of texts: f flattens the texts b, from the first on. *)
Flattening(f, b) == f = [i \in 1 .. Len(b) |-> IF i = 1 THEN b[i] ELSE f[i - 1] \o b[i]]

(* A flattening, text by text. *)
LEMMA FlatteningEquations ==
  ASSUME NEW f, NEW b, IsText(b), Len(b) # 0, Flattening(f, b)
  PROVE  f[1] = b[1] /\ \A i \in 2 .. Len(b) : f[i] = f[i - 1] \o b[i]
<1>1. Len(b) \in Nat
  BY TextLength
<1>2. ASSUME NEW i \in 1 .. Len(b) PROVE f[i] = IF i = 1 THEN b[i] ELSE f[i - 1] \o b[i]
  BY DEF Flattening
<1>3. 1 \in 1 .. Len(b) /\ \A i \in 2 .. Len(b) : i \in 1 .. Len(b) /\ i # 1
  BY <1>1
<1> QED BY <1>2, <1>3

(* Two flattenings of the same texts end alike. *)
LEMMA SameFlattening ==
  ASSUME NEW f, NEW g, NEW b, IsText(b), Len(b) # 0, Flattening(f, b), Flattening(g, b)
  PROVE  f[Len(b)] = g[Len(b)]
<1>1. Len(b) \in Nat
  BY TextLength
<1> DEFINE Bad == {i \in 1 .. Len(b) : f[i] # g[i]}
<1> SUFFICES ASSUME Bad # {} PROVE FALSE
  BY <1>1
<1>2. PICK i \in Bad : \A x \in Bad : i <= x
  <2>1. Bad \in SUBSET Nat
    OBVIOUS
  <2> QED BY <2>1, LeastOfNaturals
<1>3. /\ f[1] = b[1] /\ \A k \in 2 .. Len(b) : f[k] = f[k - 1] \o b[k]
      /\ g[1] = b[1] /\ \A k \in 2 .. Len(b) : g[k] = g[k - 1] \o b[k]
  BY FlatteningEquations
<1>4. PICK j : j = i - 1
  OBVIOUS
<1>5. i \in 2 .. Len(b) /\ j \in 1 .. Len(b) /\ ~(i <= j)
  BY <1>1, <1>2, <1>3, <1>4
<1>6. f[j] = g[j]
  BY <1>2, <1>5
<1>7. f[i] = f[j] \o b[i] /\ g[i] = g[j] \o b[i]
  BY <1>3, <1>4, <1>5
<1> QED BY <1>2, <1>6, <1>7

(* FlattenSeq is the last value of it. *)
LEMMA FlattenIsFlattening ==
  ASSUME NEW f, NEW b, IsText(b), Len(b) # 0, Flattening(f, b)
  PROVE  FlattenSeq(b) = f[Len(b)]
<1>1. PICK h : h = CHOOSE g : Flattening(g, b)
  OBVIOUS
<1>2. Flattening(h, b)
  BY <1>1
<1>3. FlattenSeq(b) = h[Len(b)]
  BY <1>1 DEF FlattenSeq, Flattening
<1> QED BY <1>2, <1>3, SameFlattening

(* The first k of the texts b, one after the other.                           *)
Flat(b, k) == FlattenSeq([j \in 1 .. k |-> b[j]])

(* A sequence of texts. *)
AllTexts(b) == IsText(b) /\ \A i \in 1 .. Len(b) : IsText(b[i])

(* Every sequence of texts has a flattening, and its values are texts. *)
LEMMA FlatteningExists ==
  ASSUME NEW b, AllTexts(b), Len(b) # 0
  PROVE  \E f : Flattening(f, b) /\ \A i \in 1 .. Len(b) : IsText(f[i])
<1> DEFINE V == UNION {{b[i][j] : j \in DOMAIN b[i]} : i \in 1 .. Len(b)}
           X == Seq(V)
           G == [i \in Nat |-> [x \in X |-> IF i \in 1 .. Len(b) THEN x \o b[i] ELSE x]]
<1>1. Len(b) \in Nat /\ Len(b) - 1 \in Nat /\ 1 + (Len(b) - 1) = Len(b)
  BY TextLength DEF AllTexts
<1>2. \A i \in 1 .. Len(b) : b[i] \in X
  <2> TAKE i \in 1 .. Len(b)
  <2>1. IsText(b[i])
    BY DEF AllTexts
  <2>2. \A j \in 1 .. Len(b[i]) : b[i][j] \in V
    BY <2>1 DEF IsText
  <2> HIDE DEF V
  <2> QED BY <2>1, <2>2 DEF IsText
<1>3. Steps(G, X)
  <2> SUFFICES ASSUME NEW i \in Nat, NEW x \in X PROVE G[i][x] \in X
    BY DEF Steps
  <2> HIDE DEF V
  <2>1. G[i][x] = IF i \in 1 .. Len(b) THEN x \o b[i] ELSE x
    OBVIOUS
  <2>2. ASSUME i \in 1 .. Len(b) PROVE x \o b[i] \in X
    BY <1>2, <2>2
  <2> QED BY <2>1, <2>2
<1>4. PICK f : Recursive(f, 1, Len(b) - 1, b[1], G) /\ \A i \in 1 .. 1 + (Len(b) - 1) : f[i] \in X
  <2>1. b[1] \in X /\ 1 \in Nat
    BY <1>1, <1>2
  <2> HIDE DEF G, X
  <2> QED BY <1>1, <1>3, <2>1, Recursion
<1>5. DOMAIN f = 1 .. Len(b) /\ \A i \in 1 .. Len(b) : f[i] = IF i = 1 THEN b[1] ELSE G[i][f[i - 1]]
  BY <1>1, <1>4 DEF Recursive
<1>6. \A i \in 1 .. Len(b) : f[i] \in X
  BY <1>1, <1>4
<1>7. ASSUME NEW i \in 2 .. Len(b) PROVE G[i][f[i - 1]] = f[i - 1] \o b[i]
  <2>1. i \in Nat /\ i - 1 \in 1 .. Len(b) /\ i \in 1 .. Len(b)
    BY <1>1, <1>7
  <2>2. PICK x \in X : x = f[i - 1]
    BY <1>6, <2>1
  <2> HIDE DEF X
  <2>3. G[i][x] = x \o b[i]
    BY <2>1
  <2> QED BY <2>2, <2>3
<1> HIDE DEF G, X
<1> DEFINE h == [i \in 1 .. Len(b) |-> f[i]]
<1>8. ASSUME NEW i \in 1 .. Len(b) PROVE h[i] = IF i = 1 THEN b[i] ELSE h[i - 1] \o b[i]
  <2>1. CASE i = 1
    BY <1>5, <1>8, <2>1
  <2>2. CASE i # 1
    <3>1. i \in 2 .. Len(b) /\ i - 1 \in 1 .. Len(b)
      BY <1>1, <1>8, <2>2
    <3>2. h[i] = f[i] /\ h[i - 1] = f[i - 1]
      BY <1>8, <3>1
    <3>3. f[i] = f[i - 1] \o b[i]
      BY <1>5, <1>7, <1>8, <2>2, <3>1
    <3> HIDE DEF h
    <3> QED BY <2>2, <3>2, <3>3
  <2> QED BY <2>1, <2>2
<1>9. Flattening(h, b)
  BY <1>8 DEF Flattening
<1>10. \A i \in 1 .. Len(b) : IsText(h[i])
  BY <1>6, SeqIsText DEF X
<1> QED BY <1>9, <1>10

(* A prefix of b, flattened. *)
LEMMA FlatIsPrefix ==
  ASSUME NEW b, AllTexts(b), NEW f, Flattening(f, b), NEW k \in 1 .. Len(b)
  PROVE  Flat(b, k) = f[k]
<1>1. PICK c : c = [j \in 1 .. k |-> b[j]]
  OBVIOUS
<1>2. Len(b) \in Nat /\ IsText(b)
  BY TextLength DEF AllTexts
<1>3. IsText(c) /\ Len(c) = k /\ Len(c) # 0 /\ \A j \in 1 .. k : c[j] = b[j]
  BY <1>1, <1>2 DEF IsText
<1> DEFINE g == [i \in 1 .. k |-> f[i]]
<1>4. f[1] = b[1] /\ \A i \in 2 .. Len(b) : f[i] = f[i - 1] \o b[i]
  <2>1. Len(b) # 0
    BY <1>2
  <2> QED BY <1>2, <2>1, FlatteningEquations
<1>5. ASSUME NEW i \in 1 .. k PROVE g[i] = IF i = 1 THEN c[i] ELSE g[i - 1] \o c[i]
  <2>1. CASE i = 1
    BY <1>3, <1>4, <1>5, <2>1
  <2>2. CASE i # 1
    <3>1. i \in 2 .. Len(b) /\ i - 1 \in 1 .. k
      BY <1>2, <1>5, <2>2
    <3>2. g[i] = f[i] /\ g[i - 1] = f[i - 1]
      BY <1>5, <3>1
    <3> QED BY <1>3, <1>4, <1>5, <2>2, <3>1, <3>2
  <2> QED BY <2>1, <2>2
<1>6. Flattening(g, c)
  BY <1>3, <1>5 DEF Flattening
<1>7. g[k] = f[k]
  BY <1>2
<1> HIDE DEF g
<1>8. FlattenSeq(c) = g[k]
  BY <1>3, <1>6, FlattenIsFlattening
<1> QED BY <1>1, <1>7, <1>8 DEF Flat

(* The first k texts are the first k - 1 and the k-th. *)
LEMMA FlatEquations ==
  ASSUME NEW b, AllTexts(b)
  PROVE  /\ Flat(b, 0) = <<>>
         /\ FlattenSeq(b) = Flat(b, Len(b))
         /\ \A k \in 1 .. Len(b) : Flat(b, k) = Flat(b, k - 1) \o b[k]
         /\ \A k \in 0 .. Len(b) : IsText(Flat(b, k))
<1>1. Len(b) \in Nat /\ IsText(b)
  BY TextLength DEF AllTexts
<1>2. Flat(b, 0) = <<>>
  <2>1. [j \in 1 .. 0 |-> b[j]] = <<>> /\ Len(<<>>) = 0
    OBVIOUS
  <2> QED BY <2>1 DEF Flat, FlattenSeq
<1>3. FlattenSeq(b) = Flat(b, Len(b))
  BY <1>1 DEF Flat, IsText
<1>4. CASE Len(b) = 0
  BY <1>2, <1>3, <1>4, EmptyText
<1>5. CASE Len(b) # 0
  <2>1. PICK f : Flattening(f, b) /\ \A i \in 1 .. Len(b) : IsText(f[i])
    BY <1>5, FlatteningExists
  <2>2. \A k \in 1 .. Len(b) : Flat(b, k) = f[k]
    BY <2>1, FlatIsPrefix
  <2>3. f[1] = b[1] /\ \A i \in 2 .. Len(b) : f[i] = f[i - 1] \o b[i]
    BY <1>1, <1>5, <2>1, FlatteningEquations
  <2>4. ASSUME NEW k \in 1 .. Len(b) PROVE Flat(b, k) = Flat(b, k - 1) \o b[k]
    <3>1. CASE k = 1
      <4>1. Flat(b, k - 1) = <<>>
        BY <1>2, <3>1
      <4>2. IsText(b[1])
        BY <1>1, <1>5 DEF AllTexts
      <4> QED BY <2>2, <2>3, <2>4, <3>1, <4>1, <4>2, EmptyConcat
    <3>2. CASE k # 1
      <4>1. k \in 2 .. Len(b) /\ k - 1 \in 1 .. Len(b)
        BY <1>1, <2>4, <3>2
      <4>2. Flat(b, k - 1) = f[k - 1]
        BY <2>2, <4>1
      <4> QED BY <2>2, <2>3, <2>4, <4>1, <4>2
    <3> QED BY <3>1, <3>2
  <2>5. ASSUME NEW k \in 0 .. Len(b) PROVE IsText(Flat(b, k))
    <3>1. CASE k = 0
      BY <1>2, <3>1, EmptyText
    <3>2. CASE k # 0
      <4>1. k \in 1 .. Len(b)
        BY <1>1, <2>5, <3>2
      <4> QED BY <2>1, <2>2, <4>1
    <3> QED BY <3>1, <3>2
  <2> QED BY <1>2, <1>3, <2>4, <2>5
<1> QED BY <1>4, <1>5

(* Several texts, one after the other: each goes on with the numbers where    *)
(* the values of those before it end.                                         *)
FillAll(T, m, b, R) ==
  /\ IsText(T) /\ IsText(R) /\ AllTexts(b) /\ Len(T) = Len(b) /\ Len(R) = Len(b)
  /\ \A i \in 1 .. Len(b) : Fills(T[i], m + Len(Flat(b, i - 1)), b[i], R[i])

(* An empty text has no places. *)
LEMMA NothingFills ==
  ASSUME NEW m \in Nat
  PROVE  Fills(<<>>, m, <<>>, <<>>)
<1>1. PICK s : s = <<>>
  OBVIOUS
<1>2. IsText(s) /\ Len(s) = 0
  BY <1>1, EmptyText
<1>3. QuoteBefore(s)[1] = <<>>
  BY <1>2, QuoteEquations
<1>4. Balanced(s)
  <2>1. Len(s) + 1 = 1
    BY <1>2
  <2> QED BY <1>2, <1>3, <2>1 DEF Balanced
<1>5. \A i \in 1 .. Len(s) : ~Slot(s, i)
  BY <1>2
<1> QED BY <1>1, <1>4, <1>5, PlainFills

(* Together they have all the values. *)
LEMMA FlattenFills ==
  ASSUME NEW m \in Nat, NEW T, NEW b, NEW R, FillAll(T, m, b, R)
  PROVE  Fills(FlattenSeq(T), m, FlattenSeq(b), FlattenSeq(R))
<1>1. /\ IsText(T) /\ IsText(R) /\ AllTexts(b) /\ Len(T) = Len(b) /\ Len(R) = Len(b) /\ Len(b) \in Nat
      /\ \A i \in 1 .. Len(b) : Fills(T[i], m + Len(Flat(b, i - 1)), b[i], R[i])
  BY TextLength DEF FillAll, AllTexts
<1>2. AllTexts(T) /\ AllTexts(R)
  BY <1>1 DEF AllTexts, Fills, Balanced
<1> DEFINE Good(k) == Fills(Flat(T, k), m, Flat(b, k), Flat(R, k))
           Bad == {k \in 0 .. Len(b) : ~Good(k)}
<1>3. ASSUME Bad # {} PROVE FALSE
  <2>1. PICK k \in Bad : \A x \in Bad : k <= x
    <3> HIDE DEF Good
    <3>1. Bad \in SUBSET Nat
      BY <1>1
    <3> QED BY <1>3, <3>1, LeastOfNaturals
  <2>2. k # 0
    <3>1. Flat(T, 0) = <<>> /\ Flat(b, 0) = <<>> /\ Flat(R, 0) = <<>>
      BY <1>1, <1>2, FlatEquations
    <3>2. Good(0)
      BY <3>1, NothingFills
    <3> HIDE DEF Good
    <3> QED BY <2>1, <3>2
  <2>3. PICK j : j = k - 1
    OBVIOUS
  <2>4. k \in 1 .. Len(b) /\ j \in 0 .. Len(b) /\ ~(k <= j)
    BY <1>1, <2>1, <2>2, <2>3
  <2>5. Good(j)
    <3> HIDE DEF Good
    <3> QED BY <2>1, <2>4
  <2>6. Flat(T, k) = Flat(T, j) \o T[k] /\ Flat(b, k) = Flat(b, j) \o b[k] /\ Flat(R, k) = Flat(R, j) \o R[k]
    <3>1. /\ \A i \in 1 .. Len(T) : Flat(T, i) = Flat(T, i - 1) \o T[i]
          /\ \A i \in 1 .. Len(b) : Flat(b, i) = Flat(b, i - 1) \o b[i]
          /\ \A i \in 1 .. Len(R) : Flat(R, i) = Flat(R, i - 1) \o R[i]
      BY <1>1, <1>2, FlatEquations
    <3> QED BY <1>1, <2>3, <2>4, <3>1
  <2>7. Fills(T[k], m + Len(Flat(b, j)), b[k], R[k])
    BY <1>1, <2>3, <2>4
  <2>8. Good(k)
    BY <2>5, <2>6, <2>7, FillsConcat
  <2> HIDE DEF Good
  <2> QED BY <2>1, <2>8
<1>4. Good(Len(b))
  <2> HIDE DEF Good
  <2>1. Len(b) \in 0 .. Len(b)
    BY <1>1
  <2> QED BY <1>3, <2>1
<1>5. FlattenSeq(T) = Flat(T, Len(T)) /\ FlattenSeq(b) = Flat(b, Len(b)) /\ FlattenSeq(R) = Flat(R, Len(R))
  BY <1>1, <1>2, FlatEquations
<1> QED BY <1>1, <1>4, <1>5

(* The texts Joined flattens. *)
Glued(texts, glue) == [i \in DOMAIN texts |-> IF i = 1 THEN texts[1] ELSE <<Word(glue)>> \o texts[i]]

(* So have they with a word between any two. *)
LEMMA JoinedFills ==
  ASSUME NEW m \in Nat, NEW T, NEW b, NEW R, FillAll(T, m, b, R), NEW glue
  PROVE  Fills(Joined(T, glue), m, FlattenSeq(b), Joined(R, glue))
<1>1. /\ IsText(T) /\ IsText(R) /\ AllTexts(b) /\ Len(T) = Len(b) /\ Len(R) = Len(b) /\ Len(b) \in Nat
      /\ \A i \in 1 .. Len(b) : Fills(T[i], m + Len(Flat(b, i - 1)), b[i], R[i])
  BY TextLength DEF FillAll, AllTexts
<1>2. PICK U, Q : U = Glued(T, glue) /\ Q = Glued(R, glue)
  OBVIOUS
<1>3. DOMAIN T = 1 .. Len(b) /\ DOMAIN R = 1 .. Len(b)
  BY <1>1 DEF IsText
<1>4. /\ IsText(U) /\ Len(U) = Len(b) /\ IsText(Q) /\ Len(Q) = Len(b)
      /\ \A i \in 1 .. Len(b) : U[i] = IF i = 1 THEN T[1] ELSE <<Word(glue)>> \o T[i]
      /\ \A i \in 1 .. Len(b) : Q[i] = IF i = 1 THEN R[1] ELSE <<Word(glue)>> \o R[i]
  BY <1>1, <1>2, <1>3 DEF Glued, IsText
<1>5. ASSUME NEW i \in 1 .. Len(b) PROVE Fills(U[i], m + Len(Flat(b, i - 1)), b[i], Q[i])
  <2>1. Fills(T[i], m + Len(Flat(b, i - 1)), b[i], R[i])
    BY <1>1, <1>5
  <2>2. CASE i = 1
    BY <1>4, <1>5, <2>1, <2>2
  <2>3. CASE i # 1
    <3>1. PICK k : k = m + Len(Flat(b, i - 1))
      OBVIOUS
    <3>2. k \in Nat
      <4>1. i - 1 \in 0 .. Len(b)
        BY <1>1, <1>5
      <4>2. Len(Flat(b, i - 1)) \in Nat
        BY <1>1, <4>1, FlatEquations, TextLength
      <4> QED BY <3>1, <4>2
    <3>3. PICK w, e : w = <<Word(glue)>> /\ e = <<>>
      OBVIOUS
    <3>4. Fills(w, k, e, w)
      BY <3>2, <3>3, WordFills
    <3>5. k + Len(e) = k
      BY <3>2, <3>3
    <3>6. Fills(w \o T[i], k, e \o b[i], w \o R[i])
      BY <2>1, <3>1, <3>2, <3>4, <3>5, FillsConcat
    <3>7. e \o b[i] = b[i]
      <4>1. IsText(b[i])
        BY <1>1, <1>5 DEF AllTexts
      <4> QED BY <3>3, <4>1, EmptyConcat
    <3> QED BY <1>4, <1>5, <2>3, <3>1, <3>3, <3>6, <3>7
  <2> QED BY <2>2, <2>3
<1>6. FillAll(U, m, b, Q)
  BY <1>1, <1>4, <1>5 DEF FillAll
<1>7. Fills(FlattenSeq(U), m, FlattenSeq(b), FlattenSeq(Q))
  BY <1>6, FlattenFills
<1> QED BY <1>2, <1>7 DEF Joined, Glued

-----------------------------------------------------------------------------
(* No values at all, and one value each. *)
LEMMA FlatOfNone ==
  ASSUME NEW b, IsText(b), \A i \in 1 .. Len(b) : b[i] = <<>>
  PROVE  FlattenSeq(b) = <<>> /\ \A k \in 0 .. Len(b) : Flat(b, k) = <<>>
<1>1. AllTexts(b) /\ Len(b) \in Nat
  BY EmptyText, TextLength DEF AllTexts
<1> DEFINE Bad == {k \in 0 .. Len(b) : Flat(b, k) # <<>>}
<1>2. ASSUME Bad # {} PROVE FALSE
  <2>1. PICK k \in Bad : \A x \in Bad : k <= x
    <3>1. Bad \in SUBSET Nat
      BY <1>1
    <3> QED BY <1>2, <3>1, LeastOfNaturals
  <2>2. k # 0
    BY <1>1, <2>1, FlatEquations
  <2>3. k \in 1 .. Len(b) /\ k - 1 \in 0 .. Len(b) /\ ~(k <= k - 1)
    BY <1>1, <2>1, <2>2
  <2>4. Flat(b, k - 1) = <<>>
    BY <2>1, <2>3
  <2>5. Flat(b, k) = Flat(b, k - 1) \o b[k]
    BY <1>1, <2>3, FlatEquations
  <2>6. Flat(b, k) = <<>>
    BY <2>3, <2>4, <2>5, EmptyText, EmptyConcat
  <2> QED BY <2>1, <2>6
<1>3. \A k \in 0 .. Len(b) : Flat(b, k) = <<>>
  BY <1>2
<1>4. FlattenSeq(b) = <<>>
  <2>1. Len(b) \in 0 .. Len(b)
    BY <1>1
  <2> QED BY <1>1, <1>3, <2>1, FlatEquations
<1> QED BY <1>3, <1>4

(* One value in each: as many as there are texts. *)
LEMMA FlatOfOnes ==
  ASSUME NEW b, NEW v, IsText(b), IsText(v), Len(b) = Len(v), \A i \in 1 .. Len(v) : b[i] = <<v[i]>>
  PROVE  /\ AllTexts(b) /\ FlattenSeq(b) = v
         /\ \A k \in 0 .. Len(v) : Len(Flat(b, k)) = k
<1>1. AllTexts(b) /\ Len(b) \in Nat
  BY OneToken, TextLength DEF AllTexts
<1> DEFINE Good(k) == Len(Flat(b, k)) = k /\ \A j \in 1 .. k : Flat(b, k)[j] = v[j]
           Bad == {k \in 0 .. Len(b) : ~Good(k)}
<1>2. ASSUME Bad # {} PROVE FALSE
  <2>1. PICK k \in Bad : \A x \in Bad : k <= x
    <3> HIDE DEF Good
    <3>1. Bad \in SUBSET Nat
      BY <1>1
    <3> QED BY <1>2, <3>1, LeastOfNaturals
  <2>2. k # 0
    <3>1. Flat(b, 0) = <<>>
      BY <1>1, FlatEquations
    <3>2. Good(0)
      BY <3>1, EmptyText
    <3> HIDE DEF Good
    <3> QED BY <2>1, <3>2
  <2>3. PICK i : i = k - 1
    OBVIOUS
  <2>4. k \in 1 .. Len(b) /\ i \in 0 .. Len(b) /\ ~(k <= i) /\ k = i + 1
    BY <1>1, <2>1, <2>2, <2>3
  <2>5. Good(i)
    <3> HIDE DEF Good
    <3> QED BY <2>1, <2>4
  <2>6. PICK s, t : s = Flat(b, i) /\ t = b[k]
    OBVIOUS
  <2>7. IsText(s) /\ IsText(t) /\ Len(t) = 1 /\ t[1] = v[k]
    <3>1. IsText(s)
      BY <1>1, <2>4, <2>6, FlatEquations
    <3>2. t = <<v[k]>>
      BY <2>4, <2>6
    <3> QED BY <3>1, <3>2, OneToken
  <2>8. Flat(b, k) = s \o t
    BY <1>1, <2>3, <2>4, <2>6, FlatEquations
  <2>9. Len(s) = i /\ \A j \in 1 .. i : s[j] = v[j]
    BY <2>5, <2>6
  <2> HIDE DEF Good
  <2>10. /\ Len(s \o t) = k /\ (s \o t)[k] = v[k]
         /\ \A j \in 1 .. i : (s \o t)[j] = v[j]
    <3>1. 1 \in 1 .. Len(t) /\ Len(s) + 1 = k
      BY <2>4, <2>7, <2>9
    <3>2. (s \o t)[Len(s) + 1] = t[1] /\ Len(s \o t) = Len(s) + Len(t) /\ \A j \in 1 .. Len(s) : (s \o t)[j] = s[j]
      <4>1. Len(s \o t) = Len(s) + Len(t) /\ \A j \in 1 .. Len(s) : (s \o t)[j] = s[j]
        BY <2>7, ConcatIsText
      <4>2. \A j \in 1 .. Len(t) : (s \o t)[Len(s) + j] = t[j]
        BY <2>7, ConcatIsText
      <4> QED BY <3>1, <4>1, <4>2
    <3> QED BY <2>7, <2>9, <3>1, <3>2
  <2>11. \A j \in 1 .. k : j \in 1 .. i \/ j = k
    BY <1>1, <2>4
  <2>12. Good(k)
    BY <2>8, <2>10, <2>11 DEF Good
  <2> QED BY <2>1, <2>12
<1>3. \A k \in 0 .. Len(b) : Good(k)
  <2> HIDE DEF Good
  <2> QED BY <1>2
<1>4. FlattenSeq(b) = v
  <2>1. Len(b) \in 0 .. Len(b)
    BY <1>1
  <2>2. IsText(Flat(b, Len(b))) /\ FlattenSeq(b) = Flat(b, Len(b))
    BY <1>1, <2>1, FlatEquations
  <2>3. Good(Len(b))
    BY <1>3, <2>1
  <2> QED BY <2>2, <2>3, SameText
<1> QED BY <1>1, <1>3, <1>4

(* A text in two parts. *)
SplitInto(u, s, t) ==
  /\ Len(u) = Len(s) + Len(t)
  /\ \A i \in 1 .. Len(s) : u[i] = s[i]
  /\ \A i \in 1 .. Len(t) : u[Len(s) + i] = t[i]

(* It is one part after the other. *)
LEMMA Split ==
  ASSUME NEW u, NEW s, NEW t, IsText(u), IsText(s), IsText(t), SplitInto(u, s, t)
  PROVE  u = s \o t
<1>1. PICK x : x = s \o t
  OBVIOUS
<1>2. Len(s) \in Nat /\ Len(t) \in Nat
  BY TextLength
<1>3. /\ IsText(x) /\ Len(x) = Len(u)
      /\ \A i \in 1 .. Len(s) : x[i] = u[i]
      /\ \A i \in 1 .. Len(t) : x[Len(s) + i] = u[Len(s) + i]
  BY <1>1, ConcatIsText DEF SplitInto
<1>4. ASSUME NEW i \in 1 .. Len(u) PROVE u[i] = x[i]
  <2>1. CASE i <= Len(s)
    BY <1>2, <1>3, <1>4, <2>1
  <2>2. CASE ~(i <= Len(s))
    <3>1. PICK j : j = i - Len(s)
      OBVIOUS
    <3>2. j \in 1 .. Len(t) /\ i = Len(s) + j
      BY <1>2, <1>4, <2>2, <3>1 DEF SplitInto
    <3> QED BY <1>3, <3>2
  <2> QED BY <2>1, <2>2
<1>5. u = x
  BY <1>3, <1>4, SameText
<1> QED BY <1>1, <1>5

(* The tuples the statements are written with are texts. *)
LEMMA TuplesAreTexts ==
  ASSUME NEW a, NEW b, NEW c, NEW d, NEW e, NEW f, NEW g, NEW h
  PROVE  /\ IsText(<<a>>) /\ IsText(<<a, b>>) /\ IsText(<<a, b, c>>) /\ IsText(<<a, b, c, d>>)
         /\ IsText(<<a, b, c, d, e>>) /\ IsText(<<a, b, c, d, e, f>>)
         /\ IsText(<<a, b, c, d, e, f, g>>) /\ IsText(<<a, b, c, d, e, f, g, h>>)
<1>1. IsText(<<a>>)
  BY DEF IsText
<1>2. IsText(<<a, b>>)
  BY DEF IsText
<1>3. IsText(<<a, b, c>>)
  BY DEF IsText
<1>4. IsText(<<a, b, c, d>>)
  BY DEF IsText
<1>5. IsText(<<a, b, c, d, e>>)
  BY DEF IsText
<1>6. IsText(<<a, b, c, d, e, f>>)
  BY DEF IsText
<1>7. IsText(<<a, b, c, d, e, f, g>>)
  BY DEF IsText
<1>8. IsText(<<a, b, c, d, e, f, g, h>>)
  BY DEF IsText
<1> QED BY <1>1, <1>2, <1>3, <1>4, <1>5, <1>6, <1>7, <1>8

(* How those tuples are split below: three tokens, the first apart ... *)
LEMMA ThreeTokens ==
  ASSUME NEW a, NEW b, NEW c
  PROVE  <<a, b, c>> = <<a>> \o <<b, c>>
<1>1. SplitInto(<<a, b, c>>, <<a>>, <<b, c>>)
  BY DEF SplitInto
<1>2. IsText(<<a, b, c>>) /\ IsText(<<a>>) /\ IsText(<<b, c>>)
  BY TuplesAreTexts
<1> QED BY <1>1, <1>2, Split

(* ... four, the last apart ... *)
LEMMA FourTokens ==
  ASSUME NEW a, NEW b, NEW c, NEW d
  PROVE  <<a, b, c, d>> = <<a, b, c>> \o <<d>>
<1>1. SplitInto(<<a, b, c, d>>, <<a, b, c>>, <<d>>)
  BY DEF SplitInto
<1>2. IsText(<<a, b, c, d>>) /\ IsText(<<a, b, c>>) /\ IsText(<<d>>)
  BY TuplesAreTexts
<1> QED BY <1>1, <1>2, Split

(* ... or the first ... *)
LEMMA FourTokensToo ==
  ASSUME NEW a, NEW b, NEW c, NEW d
  PROVE  <<a, b, c, d>> = <<a>> \o <<b, c, d>>
<1>1. SplitInto(<<a, b, c, d>>, <<a>>, <<b, c, d>>)
  BY DEF SplitInto
<1>2. IsText(<<a, b, c, d>>) /\ IsText(<<a>>) /\ IsText(<<b, c, d>>)
  BY TuplesAreTexts
<1> QED BY <1>1, <1>2, Split

(* ... five, the first three apart ... *)
LEMMA FiveTokens ==
  ASSUME NEW a, NEW b, NEW c, NEW d, NEW e
  PROVE  <<a, b, c, d, e>> = <<a, b, c>> \o <<d, e>>
<1>1. SplitInto(<<a, b, c, d, e>>, <<a, b, c>>, <<d, e>>)
  BY DEF SplitInto
<1>2. IsText(<<a, b, c, d, e>>) /\ IsText(<<a, b, c>>) /\ IsText(<<d, e>>)
  BY TuplesAreTexts
<1> QED BY <1>1, <1>2, Split

(* ... seven, the first three apart ... *)
LEMMA SevenTokens ==
  ASSUME NEW a, NEW b, NEW c, NEW d, NEW e, NEW f, NEW g
  PROVE  <<a, b, c, d, e, f, g>> = <<a, b, c>> \o <<d, e, f, g>>
<1>1. SplitInto(<<a, b, c, d, e, f, g>>, <<a, b, c>>, <<d, e, f, g>>)
  BY DEF SplitInto
<1>2. IsText(<<a, b, c, d, e, f, g>>) /\ IsText(<<a, b, c>>) /\ IsText(<<d, e, f, g>>)
  BY TuplesAreTexts
<1> QED BY <1>1, <1>2, Split

(* ... and eight, the first apart. *)
LEMMA EightTokens ==
  ASSUME NEW a, NEW b, NEW c, NEW d, NEW e, NEW f, NEW g, NEW h
  PROVE  <<a, b, c, d, e, f, g, h>> = <<a>> \o <<b, c, d, e, f, g, h>>
<1>1. SplitInto(<<a, b, c, d, e, f, g, h>>, <<a>>, <<b, c, d, e, f, g, h>>)
  BY DEF SplitInto
<1>2. IsText(<<a, b, c, d, e, f, g, h>>) /\ IsText(<<a>>) /\ IsText(<<b, c, d, e, f, g, h>>)
  BY TuplesAreTexts
<1> QED BY <1>1, <1>2, Split

(* Text without values, before and after. *)
LEMMA FillsAfterPlain ==
  ASSUME NEW m \in Nat, NEW s, NEW r, Fills(s, m, <<>>, r), NEW t, NEW v, NEW q, Fills(t, m, v, q)
  PROVE  Fills(s \o t, m, v, r \o q)
<1>1. PICK e : e = <<>>
  OBVIOUS
<1>2. IsText(v) /\ m + Len(e) = m
  BY <1>1 DEF Fills
<1>3. Fills(s \o t, m, e \o v, r \o q)
  BY <1>1, <1>2, FillsConcat
<1> QED BY <1>1, <1>2, <1>3, EmptyConcat

(* A text before one without values. *)
LEMMA FillsBeforePlain ==
  ASSUME NEW m \in Nat, NEW s, NEW v, NEW r, Fills(s, m, v, r), NEW t, NEW q,
         \A k \in Nat : Fills(t, k, <<>>, q)
  PROVE  Fills(s \o t, m, v, r \o q)
<1>1. PICK e, k : e = <<>> /\ k = m + Len(v)
  OBVIOUS
<1>2. IsText(v) /\ k \in Nat
  <2>1. IsText(v)
    BY DEF Fills
  <2> QED BY <1>1, <2>1, TextLength
<1>3. Fills(t, k, e, q)
  BY <1>1, <1>2
<1>4. Fills(s \o t, m, v \o e, r \o q)
  BY <1>1, <1>3, FillsConcat
<1> QED BY <1>1, <1>2, <1>4, EmptyConcat

(* A word in quotes: the FROM clause's names, the format of TO_TIMESTAMP.     *)
LEMMA QuotedFills ==
  ASSUME NEW m \in Nat, NEW w, NEW quote, quote \in {Single, Double}
  PROVE  Fills(<<quote, Word(w), quote>>, m, <<>>, <<quote, Word(w), quote>>)
<1>1. PICK s, d, x : s = <<quote, Word(w), quote>> /\ d = quote /\ x = Word(w)
  OBVIOUS
<1>2. d # <<>> /\ d[1] = "quote" /\ x # <<>> /\ x[1] = "word" /\ x # d
  BY <1>1 DEF Single, Double, Word
<1>3. IsText(s) /\ Len(s) = 3 /\ s[1] = d /\ s[2] = x /\ s[3] = d
  BY <1>1, TuplesAreTexts
<1>4. QuoteBefore(s)[1] = <<>> /\ \A i \in 1 .. 3 : QuoteBefore(s)[i + 1] = QuoteAfter(QuoteBefore(s)[i], s[i])
  BY <1>3, QuoteEquations
<1>5. /\ QuoteBefore(s)[1 + 1] = QuoteAfter(<<>>, d)
      /\ QuoteBefore(s)[2 + 1] = QuoteAfter(QuoteBefore(s)[2], x)
      /\ QuoteBefore(s)[3 + 1] = QuoteAfter(QuoteBefore(s)[3], d)
  BY <1>3, <1>4
<1>6. QuoteBefore(s)[2] = d
  BY <1>2, <1>5 DEF QuoteAfter
<1>7. QuoteBefore(s)[3] = d
  BY <1>2, <1>5, <1>6 DEF QuoteAfter
<1>8. QuoteBefore(s)[4] = <<>>
  BY <1>2, <1>5, <1>7 DEF QuoteAfter
<1>9. \A i \in 1 .. Len(s) : i = 1 \/ i = 2 \/ i = 3
  BY <1>3
<1>10. Balanced(s)
  <2>1. \A i \in 1 .. Len(s) : s[i] # <<>>
    BY <1>2, <1>3, <1>9
  <2>2. QuoteBefore(s)[Len(s) + 1] = <<>>
    BY <1>3, <1>8
  <2> QED BY <1>3, <2>1, <2>2 DEF Balanced
<1>11. \A i \in 1 .. Len(s) : ~Slot(s, i)
  <2>1. ~Slot(s, 1) /\ ~Slot(s, 2) /\ ~Slot(s, 3)
    BY <1>2, <1>3 DEF Slot
  <2> QED BY <1>9, <2>1
<1>12. Fills(s, m, <<>>, s)
  BY <1>10, <1>11, PlainFills
<1> QED BY <1>1, <1>12

(* One value among words. *)
LEMMA ValueWordFills ==
  ASSUME NEW m \in Nat, NEW k, k = m + 1, NEW value, NEW w
  PROVE  Fills(<<Placeholder(k), Word(w)>>, m, <<value>>, <<Literal(value), Word(w)>>)
<1>1. Fills(<<Placeholder(k)>>, m, <<value>>, <<Literal(value)>>)
  BY PlaceholderFills
<1>2. \A l \in Nat : Fills(<<Word(w)>>, l, <<>>, <<Word(w)>>)
  BY WordFills
<1>3. Fills(<<Placeholder(k)>> \o <<Word(w)>>, m, <<value>>, <<Literal(value)>> \o <<Word(w)>>)
  BY <1>1, <1>2, FillsBeforePlain
<1> QED BY <1>3, TwoTokens

(* Words on both sides of a value. *)
LEMMA WordValueWordFills ==
  ASSUME NEW m \in Nat, NEW k, k = m + 1, NEW value, NEW w, NEW x
  PROVE  Fills(<<Word(x), Placeholder(k), Word(w)>>, m, <<value>>, <<Word(x), Literal(value), Word(w)>>)
<1>1. Fills(<<Placeholder(k), Word(w)>>, m, <<value>>, <<Literal(value), Word(w)>>)
  BY ValueWordFills
<1>2. Fills(<<Word(x)>>, m, <<>>, <<Word(x)>>)
  BY WordFills
<1>3. Fills(<<Word(x)>> \o <<Placeholder(k), Word(w)>>, m, <<value>>, <<Word(x)>> \o <<Literal(value), Word(w)>>)
  BY <1>1, <1>2, FillsAfterPlain
<1> QED BY <1>3, ThreeTokens

(* A name's spelling has no double quotes. *)
LEMMA SpellingIsName ==
  ASSUME NEW name, IsSpelling(Spelling(name)) PROVE IsName(name)
<1>1. PICK s : s = Spelling(name)
  OBVIOUS
<1>2. s \in Seq(Range(s)) /\ Range(s) \cap {Double, <<>>} = {}
  BY <1>1 DEF IsSpelling
<1>3. IsText(s)
  BY <1>2, SeqIsText
<1>4. \A i \in 1 .. Len(s) : s[i] \in Range(s)
  BY <1>3 DEF Range, IsText
<1> QED BY <1>1, <1>2, <1>3, <1>4 DEF IsName

(* A comparison of a column of the name leaf.column. *)
IsNamedComparison(leaf) == IsComparison(leaf) /\ IsName(leaf.column)

(* The placeholders of binds after m others. *)
Numbered(binds, m) == [j \in DOMAIN binds |-> Placeholder(m + j)]

(* The first two placeholders and values of a comparison. *)
LEMMA OneValue ==
  ASSUME NEW m \in Nat, NEW b, IsText(b), Len(b) >= 1
  PROVE  /\ Numbered(b, m)[1] = Placeholder(m + 1) /\ Operands(b)[1] = Literal(b[1])
         /\ Len(b) = 1 => b = <<b[1]>>
         /\ Len(b) = 2 => b = <<b[1], b[2]>> /\ Numbered(b, m)[2] = Placeholder(m + 2) /\ Operands(b)[2] = Literal(b[2])
<1>1. Len(b) \in Nat /\ DOMAIN b = 1 .. Len(b)
  BY DEF IsText
<1>2. 1 \in DOMAIN b
  BY <1>1
<1>3. Numbered(b, m)[1] = Placeholder(m + 1) /\ Operands(b)[1] = Literal(b[1])
  BY <1>2 DEF Numbered, Operands
<1>4. Len(b) = 1 => b = <<b[1]>>
  <2> SUFFICES ASSUME Len(b) = 1 PROVE b = <<b[1]>>
    OBVIOUS
  <2>1. PICK c : c = <<b[1]>>
    OBVIOUS
  <2>2. IsText(c) /\ Len(c) = 1 /\ c[1] = b[1]
    BY <2>1, OneToken
  <2>3. \A i \in 1 .. Len(b) : i = 1
    OBVIOUS
  <2>4. b = c
    BY <2>2, <2>3, SameText
  <2> QED BY <2>1, <2>4
<1>5. ASSUME Len(b) = 2
      PROVE  b = <<b[1], b[2]>> /\ Numbered(b, m)[2] = Placeholder(m + 2) /\ Operands(b)[2] = Literal(b[2])
  <2>1. PICK c : c = <<b[1], b[2]>>
    OBVIOUS
  <2>2. IsText(c) /\ Len(c) = 2 /\ c[1] = b[1] /\ c[2] = b[2]
    BY <2>1, TuplesAreTexts
  <2>3. \A i \in 1 .. Len(b) : i = 1 \/ i = 2
    BY <1>5
  <2>4. b = c
    BY <1>5, <2>2, <2>3, SameText
  <2>5. 2 \in DOMAIN b
    BY <1>1, <1>5
  <2>6. Numbered(b, m)[2] = Placeholder(m + 2) /\ Operands(b)[2] = Literal(b[2])
    BY <2>5 DEF Numbered, Operands
  <2> QED BY <2>1, <2>4, <2>6
<1> QED BY <1>3, <1>4, <1>5

(* ( "column" is how every comparison begins. *)
LEMMA OpeningFills ==
  ASSUME NEW m \in Nat, NEW name, IsName(name), NEW w
  PROVE  Fills(<<Word(w)>> \o QuoteIdentifier(name), m, <<>>, <<Word(w)>> \o QuoteIdentifier(name))
<1>1. Fills(<<Word(w)>>, m, <<>>, <<Word(w)>>) /\ Fills(QuoteIdentifier(name), m, <<>>, QuoteIdentifier(name))
  BY WordFills, IdentifierFills
<1> QED BY <1>1, FillsAfterPlain

(* A comparison with =, <>, <, <=, > or >= has its one value in its place. *)
LEMMA EqualityFills ==
  ASSUME NEW m \in Nat, NEW leaf, IsNamedComparison(leaf), leaf.op = "eq"
  PROVE  Fills(Leaf(leaf, Numbered(leaf.binds, m)), m, leaf.binds, Leaf(leaf, Operands(leaf.binds)))
<1>1. PICK b, o, w, q : b = leaf.binds /\ o = Numbered(b, m) /\ w = Operands(b) /\ q = QuoteIdentifier(leaf.column)
  OBVIOUS
<1>2. IsText(b) /\ Len(b) = 1 /\ IsName(leaf.column)
  BY <1>1, SeqIsText DEF IsNamedComparison, IsComparison
<1>3. o[1] = Placeholder(m + 1) /\ w[1] = Literal(b[1]) /\ b = <<b[1]>>
  BY <1>1, <1>2, OneValue
<1>4. PICK k, x : k = m + 1 /\ x = b[1]
  OBVIOUS
<1>5. Fills(<<Word("(")>> \o q, m, <<>>, <<Word("(")>> \o q)
  BY <1>1, <1>2, OpeningFills
<1>6. Fills(<<Word("="), Placeholder(k), Word(")")>>, m, <<x>>, <<Word("="), Literal(x), Word(")")>>)
  BY <1>4, WordValueWordFills
<1>7. Fills((<<Word("(")>> \o q) \o <<Word("="), Placeholder(k), Word(")")>>, m, <<x>>,
            (<<Word("(")>> \o q) \o <<Word("="), Literal(x), Word(")")>>)
  BY <1>5, <1>6, FillsAfterPlain
<1>8. Leaf(leaf, o) = (<<Word("(")>> \o q) \o <<Word("="), o[1], Word(")")>>
      /\ Leaf(leaf, w) = (<<Word("(")>> \o q) \o <<Word("="), w[1], Word(")")>>
  BY <1>1 DEF Leaf
<1> QED BY <1>1, <1>3, <1>4, <1>7, <1>8

(* So has one with a timestamp, although its format stands in quotes. *)
LEMMA TimestampFills ==
  ASSUME NEW m \in Nat, NEW leaf, IsNamedComparison(leaf), leaf.op = "ts"
  PROVE  Fills(Leaf(leaf, Numbered(leaf.binds, m)), m, leaf.binds, Leaf(leaf, Operands(leaf.binds)))
<1>1. PICK b, o, w, q : b = leaf.binds /\ o = Numbered(b, m) /\ w = Operands(b) /\ q = QuoteIdentifier(leaf.column)
  OBVIOUS
<1>2. IsText(b) /\ Len(b) = 1 /\ IsName(leaf.column)
  BY <1>1, SeqIsText DEF IsNamedComparison, IsComparison
<1>3. o[1] = Placeholder(m + 1) /\ w[1] = Literal(b[1]) /\ b = <<b[1]>>
  BY <1>1, <1>2, OneValue
<1>4. PICK k, x, to, comma, format, close :
        /\ k = m + 1 /\ x = b[1] /\ to = Word("= TO_TIMESTAMP(") /\ comma = Word(",")
        /\ format = Word("YYYY-MM-DD HH24:MI:SS.FF6") /\ close = Word("))")
  OBVIOUS
<1>5. Fills(<<Word("(")>> \o q, m, <<>>, <<Word("(")>> \o q)
  BY <1>1, <1>2, OpeningFills
<1>6. Fills(<<to, Placeholder(k), comma>>, m, <<x>>, <<to, Literal(x), comma>>)
  BY <1>4, WordValueWordFills
<1>7. ASSUME NEW l \in Nat PROVE Fills(<<Single, format, Single, close>>, l, <<>>, <<Single, format, Single, close>>)
  <2>1. Fills(<<Single, format, Single>>, l, <<>>, <<Single, format, Single>>)
    BY <1>4, QuotedFills
  <2>2. Fills(<<close>>, l, <<>>, <<close>>)
    BY <1>4, WordFills
  <2>3. Fills(<<Single, format, Single>> \o <<close>>, l, <<>>, <<Single, format, Single>> \o <<close>>)
    BY <2>1, <2>2, FillsAfterPlain
  <2> QED BY <2>3, FourTokens
<1>8. Fills(<<to, Placeholder(k), comma>> \o <<Single, format, Single, close>>, m, <<x>>,
            <<to, Literal(x), comma>> \o <<Single, format, Single, close>>)
  BY <1>6, <1>7, FillsBeforePlain
<1>9. Fills(<<to, Placeholder(k), comma, Single, format, Single, close>>, m, <<x>>,
            <<to, Literal(x), comma, Single, format, Single, close>>)
  <2>1. <<to, Placeholder(k), comma, Single, format, Single, close>>
          = <<to, Placeholder(k), comma>> \o <<Single, format, Single, close>>
    BY SevenTokens
  <2>2. <<to, Literal(x), comma, Single, format, Single, close>>
          = <<to, Literal(x), comma>> \o <<Single, format, Single, close>>
    BY SevenTokens
  <2> QED BY <1>8, <2>1, <2>2
<1>10. Fills((<<Word("(")>> \o q) \o <<to, Placeholder(k), comma, Single, format, Single, close>>, m, <<x>>,
             (<<Word("(")>> \o q) \o <<to, Literal(x), comma, Single, format, Single, close>>)
  BY <1>5, <1>9, FillsAfterPlain
<1>11. /\ Leaf(leaf, o) = (<<Word("(")>> \o q) \o <<to, o[1], comma, Single, format, Single, close>>
       /\ Leaf(leaf, w) = (<<Word("(")>> \o q) \o <<to, w[1], comma, Single, format, Single, close>>
  BY <1>1, <1>4 DEF Leaf
<1> QED BY <1>1, <1>3, <1>4, <1>10, <1>11

(* A date has its two values, the column between them. *)
LEMMA DateFills ==
  ASSUME NEW m \in Nat, NEW leaf, IsNamedComparison(leaf), leaf.op = "date"
  PROVE  Fills(Leaf(leaf, Numbered(leaf.binds, m)), m, leaf.binds, Leaf(leaf, Operands(leaf.binds)))
<1>1. PICK b, o, w, q : b = leaf.binds /\ o = Numbered(b, m) /\ w = Operands(b) /\ q = QuoteIdentifier(leaf.column)
  OBVIOUS
<1>2. IsText(b) /\ Len(b) = 2 /\ IsName(leaf.column)
  BY <1>1, SeqIsText DEF IsNamedComparison, IsComparison
<1>3. /\ o[1] = Placeholder(m + 1) /\ w[1] = Literal(b[1])
      /\ o[2] = Placeholder(m + 2) /\ w[2] = Literal(b[2]) /\ b = <<b[1], b[2]>>
  BY <1>1, <1>2, OneValue
<1>4. PICK k, l, x, y, from, and, to, close :
        /\ k = m + 1 /\ l = k + 1 /\ x = b[1] /\ y = b[2]
        /\ from = Word(">=") /\ and = Word("AND") /\ to = Word("<") /\ close = Word("+ 1)")
  OBVIOUS
<1>5. k \in Nat /\ l = m + 2 /\ m + Len(<<x>>) = k
  <2>1. Len(<<x>>) = 1
    BY OneToken
  <2>2. k = m + 1 /\ l = k + 1
    BY <1>4
  <2>3. m + Len(<<x>>) = k
    BY <2>1, <2>2
  <2> QED BY <2>2, <2>3
<1>6. Fills(<<Word("(")>> \o q, m, <<>>, <<Word("(")>> \o q)
  BY <1>1, <1>2, OpeningFills
<1>7. Fills(<<from, Placeholder(k), and>>, m, <<x>>, <<from, Literal(x), and>>)
  BY <1>4, WordValueWordFills
<1>8. PICK s, t : s = (<<Word("(")>> \o q) \o <<from, Placeholder(k), and>> /\ t = (<<Word("(")>> \o q) \o <<from, Literal(x), and>>
  OBVIOUS
<1>9. Fills(s, m, <<x>>, t)
  BY <1>6, <1>7, <1>8, FillsAfterPlain
<1>10. \A n \in Nat : Fills(q, n, <<>>, q)
  BY <1>1, <1>2, IdentifierFills
<1>11. Fills(s \o q, m, <<x>>, t \o q)
  BY <1>9, <1>10, FillsBeforePlain
<1>12. Fills(<<to, Placeholder(l), close>>, k, <<y>>, <<to, Literal(y), close>>)
  BY <1>4, <1>5, WordValueWordFills
<1>13. Fills((s \o q) \o <<to, Placeholder(l), close>>, m, <<x>> \o <<y>>, (t \o q) \o <<to, Literal(y), close>>)
  BY <1>5, <1>11, <1>12, FillsConcat
<1>14. <<x>> \o <<y>> = b
  BY <1>3, <1>4, TwoTokens
<1>15. /\ Leaf(leaf, o) = (((<<Word("(")>> \o q) \o <<from, o[1], and>>) \o q) \o <<to, o[2], close>>
       /\ Leaf(leaf, w) = (((<<Word("(")>> \o q) \o <<from, w[1], and>>) \o q) \o <<to, w[2], close>>
  BY <1>1, <1>4 DEF Leaf
<1>16. /\ Leaf(leaf, o) = (s \o q) \o <<to, Placeholder(l), close>>
       /\ Leaf(leaf, w) = (t \o q) \o <<to, Literal(y), close>>
  BY <1>3, <1>4, <1>5, <1>8, <1>15
<1> QED BY <1>1, <1>13, <1>14, <1>16

(* IS NULL has none. *)
LEMMA NullFills ==
  ASSUME NEW m \in Nat, NEW leaf, IsNamedComparison(leaf), leaf.op = "null"
  PROVE  Fills(Leaf(leaf, Numbered(leaf.binds, m)), m, leaf.binds, Leaf(leaf, Operands(leaf.binds)))
<1>1. PICK q, s : q = QuoteIdentifier(leaf.column) /\ s = <<Word("(")>> \o q
  OBVIOUS
<1>2. leaf.binds = <<>> /\ IsName(leaf.column)
  BY DEF IsNamedComparison, IsComparison
<1>3. Fills(s, m, <<>>, s)
  BY <1>1, <1>2, OpeningFills
<1>4. Fills(<<Word("IS NULL)")>>, m, <<>>, <<Word("IS NULL)")>>)
  BY WordFills
<1>5. Fills(s \o <<Word("IS NULL)")>>, m, <<>>, s \o <<Word("IS NULL)")>>)
  BY <1>3, <1>4, FillsAfterPlain
<1>6. PICK o, w : o = Numbered(leaf.binds, m) /\ w = Operands(leaf.binds)
  OBVIOUS
<1>7. Leaf(leaf, o) = s \o <<Word("IS NULL)")>> /\ Leaf(leaf, w) = s \o <<Word("IS NULL)")>>
  BY <1>1 DEF Leaf
<1> QED BY <1>2, <1>5, <1>6, <1>7

(* The values of IN: one after the other. *)
LEMMA ListFills ==
  ASSUME NEW m \in Nat, NEW b, IsText(b), NEW glue
  PROVE  Fills(Joined([i \in DOMAIN Numbered(b, m) |-> <<Numbered(b, m)[i]>>], glue), m, b,
               Joined([i \in DOMAIN Operands(b) |-> <<Operands(b)[i]>>], glue))
<1>1. PICK T, R, c : T = [i \in DOMAIN Numbered(b, m) |-> <<Numbered(b, m)[i]>>]
                     /\ R = [i \in DOMAIN Operands(b) |-> <<Operands(b)[i]>>] /\ c = [i \in DOMAIN b |-> <<b[i]>>]
  OBVIOUS
<1>2. Len(b) \in Nat /\ DOMAIN b = 1 .. Len(b)
  BY DEF IsText
<1>3. /\ T = [i \in 1 .. Len(b) |-> <<Placeholder(m + i)>>]
      /\ R = [i \in 1 .. Len(b) |-> <<Literal(b[i])>>] /\ c = [i \in 1 .. Len(b) |-> <<b[i]>>]
  BY <1>1, <1>2 DEF Numbered, Operands
<1>4. IsText(T) /\ IsText(R) /\ IsText(c) /\ Len(T) = Len(b) /\ Len(R) = Len(b) /\ Len(c) = Len(b)
  BY <1>2, <1>3 DEF IsText
<1>5. AllTexts(c) /\ FlattenSeq(c) = b /\ \A k \in 0 .. Len(b) : Len(Flat(c, k)) = k
  <2>1. \A i \in 1 .. Len(b) : c[i] = <<b[i]>>
    BY <1>3
  <2> QED BY <1>4, <2>1, FlatOfOnes
<1>6. ASSUME NEW i \in 1 .. Len(c) PROVE Fills(T[i], m + Len(Flat(c, i - 1)), c[i], R[i])
  <2>1. PICK k, l, x : k = m + Len(Flat(c, i - 1)) /\ l = m + i /\ x = b[i]
    OBVIOUS
  <2>2. k \in Nat /\ l = k + 1
    <3>1. i - 1 \in 0 .. Len(b) /\ i \in Nat
      BY <1>2, <1>4, <1>6
    <3>2. Len(Flat(c, i - 1)) = i - 1
      BY <1>5, <3>1
    <3> QED BY <2>1, <3>1, <3>2
  <2>3. Fills(<<Placeholder(l)>>, k, <<x>>, <<Literal(x)>>)
    BY <2>2, PlaceholderFills
  <2> QED BY <1>3, <1>4, <1>6, <2>1, <2>3
<1>7. FillAll(T, m, c, R)
  BY <1>4, <1>5, <1>6 DEF FillAll
<1>8. Fills(Joined(T, glue), m, FlattenSeq(c), Joined(R, glue))
  BY <1>7, JoinedFills
<1> QED BY <1>1, <1>5, <1>8

(* IN has all of its list. *)
LEMMA InFills ==
  ASSUME NEW m \in Nat, NEW leaf, IsNamedComparison(leaf), leaf.op = "in"
  PROVE  Fills(Leaf(leaf, Numbered(leaf.binds, m)), m, leaf.binds, Leaf(leaf, Operands(leaf.binds)))
<1>1. PICK b, o, w, q : b = leaf.binds /\ o = Numbered(b, m) /\ w = Operands(b) /\ q = QuoteIdentifier(leaf.column)
  OBVIOUS
<1>2. IsText(b) /\ IsName(leaf.column)
  BY <1>1, SeqIsText DEF IsNamedComparison, IsComparison
<1>3. PICK s, T, R : /\ s = (<<Word("(")>> \o q) \o <<Word("IN (")>>
                     /\ T = Joined([i \in DOMAIN o |-> <<o[i]>>], ",") /\ R = Joined([i \in DOMAIN w |-> <<w[i]>>], ",")
  OBVIOUS
<1>4. Fills(s, m, <<>>, s)
  <2>1. Fills(<<Word("(")>> \o q, m, <<>>, <<Word("(")>> \o q) /\ Fills(<<Word("IN (")>>, m, <<>>, <<Word("IN (")>>)
    BY <1>1, <1>2, OpeningFills, WordFills
  <2> QED BY <1>3, <2>1, FillsAfterPlain
<1>5. Fills(T, m, b, R)
  BY <1>1, <1>2, <1>3, ListFills
<1>6. Fills(s \o T, m, b, s \o R)
  BY <1>4, <1>5, FillsAfterPlain
<1>7. \A k \in Nat : Fills(<<Word("))")>>, k, <<>>, <<Word("))")>>)
  BY WordFills
<1>8. Fills((s \o T) \o <<Word("))")>>, m, b, (s \o R) \o <<Word("))")>>)
  BY <1>6, <1>7, FillsBeforePlain
<1>9. Leaf(leaf, o) = (s \o T) \o <<Word("))")>> /\ Leaf(leaf, w) = (s \o R) \o <<Word("))")>>
  BY <1>1, <1>3 DEF Leaf
<1> QED BY <1>1, <1>8, <1>9

(* Each comparison's text has its own values in their places. *)
LEMMA LeafFills ==
  ASSUME NEW m \in Nat, NEW leaf, IsNamedComparison(leaf)
  PROVE  Fills(Leaf(leaf, Numbered(leaf.binds, m)), m, leaf.binds, Leaf(leaf, Operands(leaf.binds)))
<1>1. leaf.op \in {"eq", "ts", "date", "null", "in"}
  BY DEF IsNamedComparison, IsComparison
<1> QED BY <1>1, EqualityFills, TimestampFills, DateFills, NullFills, InFills

(* A filter of such comparisons. *)
IsNamedFilter(filter) == IsText(filter) /\ \A i \in 1 .. Len(filter) : IsNamedComparison(filter[i])

(* A filter as Oracle reads it, with its own values. *)
FilterMeaning(filter) == FilterText(filter, [i \in DOMAIN filter |-> Operands(filter[i].binds)])

(* A filter's binds are those of its comparisons, in their order. *)
LEMMA FilterBindsOf ==
  ASSUME NEW filter, IsNamedFilter(filter), NEW b, b = [i \in DOMAIN filter |-> filter[i].binds]
  PROVE  /\ AllTexts(b) /\ Len(b) = Len(filter) /\ FilterBinds(filter) = FlattenSeq(b)
         /\ \A i \in 1 .. Len(b) : FilterBinds(SubSeq(filter, 1, i - 1)) = Flat(b, i - 1)
<1>1. IsText(filter) /\ Len(filter) \in Nat /\ DOMAIN filter = 1 .. Len(filter)
  BY DEF IsNamedFilter, IsText
<1>2. ASSUME NEW i \in 1 .. Len(filter) PROVE IsText(filter[i].binds)
  BY <1>2, SeqIsText DEF IsNamedFilter, IsNamedComparison, IsComparison
<1>3. IsText(b) /\ Len(b) = Len(filter)
  BY <1>1 DEF IsText
<1>4. AllTexts(b)
  BY <1>1, <1>2, <1>3 DEF AllTexts
<1>5. ASSUME NEW i \in 1 .. Len(b) PROVE FilterBinds(SubSeq(filter, 1, i - 1)) = Flat(b, i - 1)
  <2>1. PICK k : k = i - 1
    OBVIOUS
  <2>2. k \in 0 .. Len(filter)
    BY <1>1, <1>3, <2>1
  <2>3. PICK s : s = SubSeq(filter, 1, k)
    OBVIOUS
  <2>4. DOMAIN s = 1 .. k /\ \A j \in 1 .. k : s[j] = filter[j]
    <3>1. filter \in Seq({filter[j] : j \in DOMAIN filter})
      BY <1>1, TextIsSeq
    <3> QED BY <1>1, <2>2, <2>3, <3>1
  <2>5. [j \in DOMAIN s |-> s[j].binds] = [j \in 1 .. k |-> b[j]]
    BY <1>1, <2>2, <2>4
  <2> QED BY <2>1, <2>3, <2>5 DEF FilterBinds, Flat
<1> QED BY <1>3, <1>4, <1>5 DEF FilterBinds

(* A filter's text has its own values in their places, numbered from 1. *)
LEMMA FilterFills ==
  ASSUME NEW filter, IsNamedFilter(filter)
  PROVE  Fills(TranslateFilter(filter).sql, 0, TranslateFilter(filter).binds, FilterMeaning(filter))
<1>1. PICK b : b = [i \in DOMAIN filter |-> filter[i].binds]
  OBVIOUS
<1>2. /\ AllTexts(b) /\ Len(b) = Len(filter) /\ FilterBinds(filter) = FlattenSeq(b)
      /\ \A i \in 1 .. Len(b) : FilterBinds(SubSeq(filter, 1, i - 1)) = Flat(b, i - 1)
  BY <1>1, FilterBindsOf
<1>3. IsText(filter) /\ Len(filter) \in Nat /\ DOMAIN filter = 1 .. Len(filter)
  BY DEF IsNamedFilter, IsText
<1>4. PICK o : o = [i \in DOMAIN filter |->
                     [j \in DOMAIN filter[i].binds |-> Placeholder(Len(FilterBinds(SubSeq(filter, 1, i - 1))) + j)]]
  OBVIOUS
<1>5. TranslateFilter(filter).sql = FilterText(filter, o) /\ TranslateFilter(filter).binds = FlattenSeq(b)
  BY <1>2, <1>4 DEF TranslateFilter
<1>6. PICK w : w = [i \in DOMAIN filter |-> Operands(filter[i].binds)]
  OBVIOUS
<1>7. PICK z : z = 0
  OBVIOUS
<1>8. ASSUME NEW i \in 1 .. Len(filter)
      PROVE  Fills(Leaf(filter[i], o[i]), z + Len(Flat(b, i - 1)), b[i], Leaf(filter[i], w[i]))
  <2>1. PICK k, leaf : k = Len(Flat(b, i - 1)) /\ leaf = filter[i]
    OBVIOUS
  <2>2. k \in Nat /\ z + k = k
    <3>1. i - 1 \in 0 .. Len(b)
      BY <1>2, <1>3, <1>8
    <3>2. k \in Nat
      BY <1>2, <2>1, <3>1, FlatEquations, TextLength
    <3> QED BY <1>7, <3>2
  <2>3. o[i] = Numbered(leaf.binds, k) /\ w[i] = Operands(leaf.binds) /\ b[i] = leaf.binds
    <3>1. Len(FilterBinds(SubSeq(filter, 1, i - 1))) = k
      BY <1>2, <1>8, <2>1
    <3>2. o[i] = [j \in DOMAIN filter[i].binds |-> Placeholder(Len(FilterBinds(SubSeq(filter, 1, i - 1))) + j)]
      BY <1>3, <1>4, <1>8
    <3> QED BY <1>1, <1>3, <1>6, <1>8, <2>1, <3>1, <3>2 DEF Numbered
  <2>4. IsNamedComparison(leaf)
    BY <1>8, <2>1 DEF IsNamedFilter
  <2>5. Fills(Leaf(leaf, Numbered(leaf.binds, k)), k, leaf.binds, Leaf(leaf, Operands(leaf.binds)))
    BY <2>2, <2>4, LeafFills
  <2> QED BY <2>1, <2>2, <2>3, <2>5
<1>9. CASE Len(filter) = 1
  <2>1. FilterText(filter, o) = Leaf(filter[1], o[1]) /\ FilterText(filter, w) = Leaf(filter[1], w[1])
    BY <1>9 DEF FilterText
  <2>2. FlattenSeq(b) = b[1] /\ Flat(b, 0) = <<>>
    <3>1. 1 \in 1 .. Len(b) /\ Len(b) = 1 /\ 1 - 1 = 0
      BY <1>2, <1>9
    <3>2. FlattenSeq(b) = Flat(b, 1) /\ Flat(b, 1) = Flat(b, 0) \o b[1] /\ Flat(b, 0) = <<>>
      BY <1>2, <3>1, FlatEquations
    <3>3. IsText(b[1])
      BY <1>2, <3>1 DEF AllTexts
    <3> QED BY <3>2, <3>3, EmptyConcat
  <2>3. Fills(Leaf(filter[1], o[1]), z, b[1], Leaf(filter[1], w[1]))
    <3>1. 1 \in 1 .. Len(filter) /\ 1 - 1 = 0 /\ z + Len(<<>>) = z
      BY <1>7, <1>9
    <3> QED BY <1>8, <2>2, <3>1
  <2> QED BY <1>5, <1>6, <1>7, <2>1, <2>2, <2>3 DEF FilterMeaning
<1>10. CASE Len(filter) # 1
  <2>1. PICK T, R : T = [i \in DOMAIN filter |-> Leaf(filter[i], o[i])] /\ R = [i \in DOMAIN filter |-> Leaf(filter[i], w[i])]
    OBVIOUS
  <2>2. IsText(T) /\ IsText(R) /\ Len(T) = Len(b) /\ Len(R) = Len(b)
    BY <1>2, <1>3, <2>1 DEF IsText
  <2>3. \A i \in 1 .. Len(b) : Fills(T[i], z + Len(Flat(b, i - 1)), b[i], R[i])
    BY <1>2, <1>3, <1>8, <2>1
  <2>4. FillAll(T, z, b, R)
    BY <1>2, <2>2, <2>3 DEF FillAll
  <2>5. z \in Nat
    BY <1>7
  <2>6. Fills(Joined(T, "OR"), z, FlattenSeq(b), Joined(R, "OR"))
    BY <2>4, <2>5, JoinedFills
  <2>7. Fills(<<Word("(")>> \o Joined(T, "OR"), z, FlattenSeq(b), <<Word("(")>> \o Joined(R, "OR"))
    BY <2>5, <2>6, WordFills, FillsAfterPlain
  <2>8. \A k \in Nat : Fills(<<Word(")")>>, k, <<>>, <<Word(")")>>)
    BY WordFills
  <2>9. Fills((<<Word("(")>> \o Joined(T, "OR")) \o <<Word(")")>>, z, FlattenSeq(b), (<<Word("(")>> \o Joined(R, "OR")) \o <<Word(")")>>)
    BY <2>5, <2>7, <2>8, FillsBeforePlain
  <2>10. /\ FilterText(filter, o) = (<<Word("(")>> \o Joined(T, "OR")) \o <<Word(")")>>
         /\ FilterText(filter, w) = (<<Word("(")>> \o Joined(R, "OR")) \o <<Word(")")>>
    BY <1>10, <2>1 DEF FilterText
  <2> QED BY <1>5, <1>6, <1>7, <2>9, <2>10 DEF FilterMeaning
<1> QED BY <1>9, <1>10

(* FROM "owner"."object" has no values. *)
LEMMA FromFills ==
  ASSUME NEW m \in Nat, NEW from, NEW owner, NEW dot, NEW object,
         from = Word("FROM"), owner = Word("OWNER"), dot = Word("."), object = Word("OBJECT")
  PROVE  Fills(<<from, Double, owner, Double, dot, Double, object, Double>>, m, <<>>,
               <<from, Double, owner, Double, dot, Double, object, Double>>)
<1>1. /\ Fills(<<from>>, m, <<>>, <<from>>) /\ Fills(<<dot>>, m, <<>>, <<dot>>)
  BY WordFills
<1>2. /\ Fills(<<Double, owner, Double>>, m, <<>>, <<Double, owner, Double>>)
      /\ Fills(<<Double, object, Double>>, m, <<>>, <<Double, object, Double>>)
  BY QuotedFills
<1>3. Fills(<<dot, Double, object, Double>>, m, <<>>, <<dot, Double, object, Double>>)
  <2>1. Fills(<<dot>> \o <<Double, object, Double>>, m, <<>>, <<dot>> \o <<Double, object, Double>>)
    BY <1>1, <1>2, FillsAfterPlain
  <2> QED BY <2>1, FourTokensToo
<1>4. Fills(<<Double, owner, Double, dot, Double, object, Double>>, m, <<>>,
            <<Double, owner, Double, dot, Double, object, Double>>)
  <2>1. Fills(<<Double, owner, Double>> \o <<dot, Double, object, Double>>, m, <<>>,
              <<Double, owner, Double>> \o <<dot, Double, object, Double>>)
    BY <1>2, <1>3, FillsAfterPlain
  <2>2. <<Double, owner, Double, dot, Double, object, Double>> = <<Double, owner, Double>> \o <<dot, Double, object, Double>>
    BY SevenTokens
  <2> QED BY <2>1, <2>2
<1>5. Fills(<<from>> \o <<Double, owner, Double, dot, Double, object, Double>>, m, <<>>,
            <<from>> \o <<Double, owner, Double, dot, Double, object, Double>>)
  BY <1>1, <1>4, FillsAfterPlain
<1>6. <<from, Double, owner, Double, dot, Double, object, Double>>
        = <<from>> \o <<Double, owner, Double, dot, Double, object, Double>>
  BY EightTokens
<1> QED BY <1>5, <1>6

(* Nor has SELECT with its columns. *)
LEMMA SelectFills ==
  ASSUME NEW m \in Nat, NEW columns, IsText(columns), \A i \in 1 .. Len(columns) : IsName(columns[i])
  PROVE  Fills(SelectFrom(columns), m, <<>>, SelectFrom(columns))
<1>1. PICK T, e : T = [i \in DOMAIN columns |-> QuoteIdentifier(columns[i])] /\ e = [i \in DOMAIN columns |-> <<>>]
  OBVIOUS
<1>2. Len(columns) \in Nat /\ DOMAIN columns = 1 .. Len(columns)
  BY DEF IsText
<1>3. IsText(T) /\ IsText(e) /\ Len(T) = Len(columns) /\ Len(e) = Len(columns)
  BY <1>1, <1>2 DEF IsText
<1>4. \A i \in 1 .. Len(e) : e[i] = <<>>
  BY <1>1, <1>2, <1>3
<1>5. FlattenSeq(e) = <<>> /\ \A k \in 0 .. Len(e) : Flat(e, k) = <<>>
  BY <1>3, <1>4, FlatOfNone
<1>6. AllTexts(e)
  BY <1>3, <1>4, EmptyText DEF AllTexts
<1>7. ASSUME NEW i \in 1 .. Len(e) PROVE Fills(T[i], m + Len(Flat(e, i - 1)), e[i], T[i])
  <2>1. m + Len(Flat(e, i - 1)) = m
    <3>1. i - 1 \in 0 .. Len(e)
      BY <1>2, <1>3, <1>7
    <3>2. Flat(e, i - 1) = <<>>
      BY <1>5, <3>1
    <3> QED BY <3>2, EmptyText
  <2>2. T[i] = QuoteIdentifier(columns[i]) /\ IsName(columns[i]) /\ e[i] = <<>>
    BY <1>1, <1>2, <1>3, <1>7
  <2> QED BY <2>1, <2>2, IdentifierFills
<1>8. FillAll(T, m, e, T)
  BY <1>3, <1>6, <1>7 DEF FillAll
<1>9. Fills(Joined(T, ","), m, <<>>, Joined(T, ","))
  BY <1>5, <1>8, JoinedFills
<1>10. PICK list : list = IF columns = <<>> THEN <<Word("1")>> ELSE Joined(T, ",")
  OBVIOUS
<1>11. Fills(list, m, <<>>, list)
  BY <1>9, <1>10, WordFills
<1>12. Fills(<<Word("SELECT")>> \o list, m, <<>>, <<Word("SELECT")>> \o list)
  BY <1>11, WordFills, FillsAfterPlain
<1>13. PICK from, owner, dot, object : from = Word("FROM") /\ owner = Word("OWNER") /\ dot = Word(".") /\ object = Word("OBJECT")
  OBVIOUS
<1>14. PICK f : f = <<from, Double, owner, Double, dot, Double, object, Double>>
  OBVIOUS
<1>15. Fills(f, m, <<>>, f)
  BY <1>13, <1>14, FromFills
<1>16. Fills((<<Word("SELECT")>> \o list) \o f, m, <<>>, (<<Word("SELECT")>> \o list) \o f)
  BY <1>12, <1>15, FillsAfterPlain
<1>17. SelectFrom(columns) = (<<Word("SELECT")>> \o list) \o f
  BY <1>1, <1>10, <1>13, <1>14 DEF SelectFrom
<1> QED BY <1>16, <1>17

(* One token more. *)
LEMMA AppendedText ==
  ASSUME NEW s, IsText(s), NEW x
  PROVE  /\ IsText(s \o <<x>>) /\ Len(s \o <<x>>) = Len(s) + 1 /\ (s \o <<x>>)[Len(s) + 1] = x
         /\ \A i \in 1 .. Len(s) : (s \o <<x>>)[i] = s[i]
<1>1. PICK t : t = <<x>>
  OBVIOUS
<1>2. IsText(t) /\ Len(t) = 1 /\ t[1] = x
  BY <1>1, OneToken
<1>3. /\ IsText(s \o t) /\ Len(s \o t) = Len(s) + Len(t)
      /\ \A i \in 1 .. Len(s) : (s \o t)[i] = s[i]
  BY <1>2, ConcatIsText
<1>4. \A i \in 1 .. Len(t) : (s \o t)[Len(s) + i] = t[i]
  BY <1>2, ConcatIsText
<1>5. (s \o t)[Len(s) + 1] = t[1]
  BY <1>2, <1>4
<1> QED BY <1>1, <1>2, <1>3, <1>5

(* One text more, flattened. *)
LEMMA FlattenAppend ==
  ASSUME NEW b, AllTexts(b), NEW v, IsText(v)
  PROVE  /\ AllTexts(b \o <<v>>) /\ FlattenSeq(b \o <<v>>) = FlattenSeq(b) \o v
         /\ \A k \in 0 .. Len(b) : Flat(b \o <<v>>, k) = Flat(b, k)
<1>1. PICK c, n : c = b \o <<v>> /\ n = Len(b)
  OBVIOUS
<1>2. IsText(b) /\ n \in Nat
  BY <1>1, TextLength DEF AllTexts
<1>3. /\ IsText(c) /\ Len(c) = n + 1 /\ c[n + 1] = v /\ \A i \in 1 .. n : c[i] = b[i]
  BY <1>1, <1>2, AppendedText
<1>4. AllTexts(c)
  <2>1. \A i \in 1 .. Len(c) : i \in 1 .. n \/ i = n + 1
    BY <1>2, <1>3
  <2> QED BY <1>1, <1>3, <2>1 DEF AllTexts
<1>5. \A k \in 0 .. n : Flat(c, k) = Flat(b, k)
  <2> TAKE k \in 0 .. n
  <2>1. [j \in 1 .. k |-> c[j]] = [j \in 1 .. k |-> b[j]]
    BY <1>2, <1>3
  <2> QED BY <2>1 DEF Flat
<1>6. Flat(b, n) = FlattenSeq(b)
  BY <1>1, FlatEquations
<1>7. FlattenSeq(c) = FlattenSeq(b) \o v
  <2>1. n + 1 \in 1 .. Len(c) /\ (n + 1) - 1 = n /\ n \in 0 .. n
    BY <1>2, <1>3
  <2>2. FlattenSeq(c) = Flat(c, n + 1)
    BY <1>3, <1>4, FlatEquations
  <2>3. Flat(c, n + 1) = Flat(c, (n + 1) - 1) \o c[n + 1]
    BY <1>4, <2>1, FlatEquations
  <2> QED BY <1>3, <1>5, <1>6, <2>1, <2>2, <2>3
<1> QED BY <1>1, <1>4, <1>5, <1>7

(* One more text. *)
OneMore(T, m, b, R, x, v, y) == FillAll(T, m, b, R) /\ Fills(x, m + Len(FlattenSeq(b)), v, y)

(* The texts with one more that goes on where they end. *)
LEMMA AppendFills ==
  ASSUME NEW m \in Nat, NEW T, NEW b, NEW R, NEW x, NEW v, NEW y, OneMore(T, m, b, R, x, v, y)
  PROVE  FillAll(T \o <<x>>, m, b \o <<v>>, R \o <<y>>)
<1>1. PICK U, c, Q, n : U = T \o <<x>> /\ c = b \o <<v>> /\ Q = R \o <<y>> /\ n = Len(b)
  OBVIOUS
<1>2. /\ IsText(T) /\ IsText(R) /\ AllTexts(b) /\ IsText(b) /\ Len(T) = n /\ Len(R) = n /\ n \in Nat /\ IsText(v)
      /\ \A i \in 1 .. n : Fills(T[i], m + Len(Flat(b, i - 1)), b[i], R[i])
  BY <1>1, TextLength DEF OneMore, FillAll, AllTexts, Fills
<1>3. /\ IsText(U) /\ Len(U) = n + 1 /\ U[n + 1] = x /\ \A i \in 1 .. n : U[i] = T[i]
  <2>1. IsText(T) /\ Len(T) = n
    BY <1>1, <1>2
  <2>2. /\ IsText(T \o <<x>>) /\ Len(T \o <<x>>) = Len(T) + 1 /\ (T \o <<x>>)[Len(T) + 1] = x
        /\ \A i \in 1 .. Len(T) : (T \o <<x>>)[i] = T[i]
    BY <2>1, AppendedText
  <2> QED BY <1>1, <2>1, <2>2
<1>4. /\ IsText(Q) /\ Len(Q) = n + 1 /\ Q[n + 1] = y /\ \A i \in 1 .. n : Q[i] = R[i]
  <2>1. IsText(R) /\ Len(R) = n
    BY <1>1, <1>2
  <2>2. /\ IsText(R \o <<y>>) /\ Len(R \o <<y>>) = Len(R) + 1 /\ (R \o <<y>>)[Len(R) + 1] = y
        /\ \A i \in 1 .. Len(R) : (R \o <<y>>)[i] = R[i]
    BY <2>1, AppendedText
  <2> QED BY <1>1, <2>1, <2>2
<1>5. /\ IsText(c) /\ Len(c) = n + 1 /\ c[n + 1] = v /\ \A i \in 1 .. n : c[i] = b[i]
  <2>1. IsText(b) /\ Len(b) = n
    BY <1>1, <1>2
  <2>2. /\ IsText(b \o <<v>>) /\ Len(b \o <<v>>) = Len(b) + 1 /\ (b \o <<v>>)[Len(b) + 1] = v
        /\ \A i \in 1 .. Len(b) : (b \o <<v>>)[i] = b[i]
    BY <2>1, AppendedText
  <2> QED BY <1>1, <2>1, <2>2
<1>6. AllTexts(c) /\ \A k \in 0 .. n : Flat(c, k) = Flat(b, k)
  BY <1>1, <1>2, FlattenAppend
<1>7. Flat(b, n) = FlattenSeq(b)
  BY <1>1, <1>2, FlatEquations
<1>8. ASSUME NEW i \in 1 .. Len(c) PROVE Fills(U[i], m + Len(Flat(c, i - 1)), c[i], Q[i])
  <2>1. CASE i \in 1 .. n
    <3>1. i - 1 \in 0 .. n
      BY <1>2, <2>1
    <3>2. Flat(c, i - 1) = Flat(b, i - 1)
      BY <1>6, <3>1
    <3> QED BY <1>2, <1>3, <1>4, <1>5, <2>1, <3>2
  <2>2. CASE i \notin 1 .. n
    <3>1. i = n + 1 /\ i - 1 = n /\ n \in 0 .. n
      BY <1>2, <1>5, <1>8, <2>2
    <3>2. Flat(c, i - 1) = FlattenSeq(b)
      BY <1>6, <1>7, <3>1
    <3> QED BY <1>3, <1>4, <1>5, <3>1, <3>2 DEF OneMore
  <2> QED BY <2>1, <2>2
<1>9. FillAll(U, m, c, Q)
  BY <1>3, <1>4, <1>5, <1>6, <1>8 DEF FillAll
<1> QED BY <1>1, <1>9

(* WHERE, and the conditions joined by AND. *)
LEMMA WhereFills ==
  ASSUME NEW m \in Nat, NEW T, NEW b, NEW R, FillAll(T, m, b, R)
  PROVE  Fills(Where(T), m, FlattenSeq(b), Where(R))
<1>1. IsText(T) /\ IsText(R) /\ AllTexts(b) /\ Len(T) = Len(b) /\ Len(R) = Len(b) /\ Len(b) \in Nat
  BY TextLength DEF FillAll, AllTexts
<1>2. \A s : IsText(s) => (s = <<>> <=> Len(s) = 0)
  <2> TAKE s
  <2> HAVE IsText(s)
  <2>1. PICK e : e = <<>>
    OBVIOUS
  <2>2. IsText(e) /\ Len(e) = 0
    BY <2>1, EmptyText
  <2>3. Len(s) = 0 => s = e
    <3> HAVE Len(s) = 0
    <3>1. \A i \in 1 .. Len(s) : s[i] = e[i]
      OBVIOUS
    <3> QED BY <2>2, <3>1, SameText
  <2> QED BY <2>1, <2>2, <2>3
<1>3. CASE Len(b) = 0
  <2>1. T = <<>> /\ R = <<>>
    BY <1>1, <1>2, <1>3
  <2>2. FlattenSeq(b) = <<>>
    BY <1>1, <1>3, FlatEquations
  <2> QED BY <2>1, <2>2, NothingFills DEF Where
<1>4. CASE Len(b) # 0
  <2>1. T # <<>> /\ R # <<>>
    BY <1>1, <1>2, <1>4
  <2>2. Fills(Joined(T, "AND"), m, FlattenSeq(b), Joined(R, "AND"))
    BY JoinedFills
  <2>3. Fills(<<Word("WHERE")>> \o Joined(T, "AND"), m, FlattenSeq(b), <<Word("WHERE")>> \o Joined(R, "AND"))
    BY <2>2, WordFills, FillsAfterPlain
  <2> QED BY <2>1, <2>3 DEF Where
<1> QED BY <1>3, <1>4

(* The two placeholders a slice may have, after k binds. *)
Following(k) == [j \in 1 .. 2 |-> Placeholder(k + j)]

(* The slice's condition, its own values in its places. *)
SliceHas(slice, k, x, y) ==
  /\ SliceText(slice, Following(k)) = <<x>> /\ SliceText(slice, Operands(SliceBinds(slice))) = <<y>>
  /\ Fills(x, k, SliceBinds(slice), y)

(* The placeholders and the values of a slice. *)
LEMMA TwoOperands ==
  ASSUME NEW k \in Nat, NEW p, NEW q
  PROVE  /\ Following(k)[1] = Placeholder(k + 1) /\ Following(k)[2] = Placeholder(k + 2)
         /\ Operands(<<p, q>>)[1] = Literal(p) /\ Operands(<<p, q>>)[2] = Literal(q)
<1>1. PICK b : b = <<p, q>>
  OBVIOUS
<1>2. IsText(b) /\ Len(b) = 2 /\ b[1] = p /\ b[2] = q
  BY <1>1, TuplesAreTexts
<1>3. Operands(b)[1] = Literal(b[1]) /\ Operands(b)[2] = Literal(b[2])
  BY <1>2, OneValue
<1> QED BY <1>1, <1>2, <1>3 DEF Following

(* A ROWID range has its two ends. *)
LEMMA RangeFills ==
  ASSUME NEW k \in Nat, NEW slice, slice.kind = "range"
  PROVE  \E x, y : SliceHas(slice, k, x, y)
<1>1. PICK p, q, o, w : p = slice.lo /\ q = slice.hi /\ o = Following(k) /\ w = Operands(<<p, q>>)
  OBVIOUS
<1>2. PICK a, b, c, from, to : /\ a = Word(from) /\ b = Word(to) /\ c = Word(")")
        /\ from = (IF slice.hi_inclusive THEN "ROWID BETWEEN CHARTOROWID(" ELSE "ROWID >= CHARTOROWID(")
        /\ to = (IF slice.hi_inclusive THEN ") AND CHARTOROWID(" ELSE ") AND ROWID < CHARTOROWID(")
  OBVIOUS
<1>3. SliceBinds(slice) = <<p, q>>
  BY <1>1 DEF SliceBinds
<1>4. SliceText(slice, o) = << <<a, o[1], b, o[2], c>> >> /\ SliceText(slice, w) = << <<a, w[1], b, w[2], c>> >>
  BY <1>2 DEF SliceText
<1>5. PICK m, n : m = k + 1 /\ n = m + 1
  OBVIOUS
<1>6. m \in Nat /\ n = k + 2 /\ k + Len(<<p>>) = m
  <2>1. Len(<<p>>) = 1
    BY OneToken
  <2>2. k + Len(<<p>>) = m
    BY <1>5, <2>1
  <2> QED BY <1>5, <2>2
<1>7. o[1] = Placeholder(m) /\ o[2] = Placeholder(n) /\ w[1] = Literal(p) /\ w[2] = Literal(q)
  BY <1>1, <1>5, <1>6, TwoOperands
<1>8. Fills(<<a, Placeholder(m), b>>, k, <<p>>, <<a, Literal(p), b>>)
  BY <1>2, <1>5, WordValueWordFills
<1>9. Fills(<<Placeholder(n), c>>, m, <<q>>, <<Literal(q), c>>)
  BY <1>2, <1>5, <1>6, ValueWordFills
<1>10. Fills(<<a, Placeholder(m), b>> \o <<Placeholder(n), c>>, k, <<p>> \o <<q>>, <<a, Literal(p), b>> \o <<Literal(q), c>>)
  BY <1>6, <1>8, <1>9, FillsConcat
<1>11. <<a, Placeholder(m), b>> \o <<Placeholder(n), c>> = <<a, Placeholder(m), b, Placeholder(n), c>>
  <2>1. PICK d, e : d = Placeholder(m) /\ e = Placeholder(n)
    OBVIOUS
  <2>2. <<a, d, b, e, c>> = <<a, d, b>> \o <<e, c>>
    BY FiveTokens
  <2> QED BY <2>1, <2>2
<1>12. <<a, Literal(p), b>> \o <<Literal(q), c>> = <<a, Literal(p), b, Literal(q), c>>
  <2>1. PICK d, e : d = Literal(p) /\ e = Literal(q)
    OBVIOUS
  <2>2. <<a, d, b, e, c>> = <<a, d, b>> \o <<e, c>>
    BY FiveTokens
  <2> QED BY <2>1, <2>2
<1>13. <<p>> \o <<q>> = <<p, q>>
  BY TwoTokens
<1>14. Fills(<<a, o[1], b, o[2], c>>, k, <<p, q>>, <<a, w[1], b, w[2], c>>)
  BY <1>7, <1>10, <1>11, <1>12, <1>13
<1> QED BY <1>1, <1>3, <1>4, <1>14 DEF SliceHas

(* A bucket has the number of buckets and its own number. *)
LEMMA HashFills ==
  ASSUME NEW k \in Nat, NEW slice, slice.kind = "hash"
  PROVE  \E x, y : SliceHas(slice, k, x, y)
<1>1. PICK p, q, o, w : p = slice.buckets - 1 /\ q = slice.bucket /\ o = Following(k) /\ w = Operands(<<p, q>>)
  OBVIOUS
<1>2. PICK a, b : a = Word("ORA_HASH(ROWID,") /\ b = Word(") =")
  OBVIOUS
<1>3. SliceBinds(slice) = <<p, q>>
  BY <1>1 DEF SliceBinds
<1>4. SliceText(slice, o) = << <<a, o[1], b, o[2]>> >> /\ SliceText(slice, w) = << <<a, w[1], b, w[2]>> >>
  BY <1>2 DEF SliceText
<1>5. PICK m, n : m = k + 1 /\ n = m + 1
  OBVIOUS
<1>6. m \in Nat /\ n = k + 2 /\ k + Len(<<p>>) = m
  <2>1. Len(<<p>>) = 1
    BY OneToken
  <2>2. k + Len(<<p>>) = m
    BY <1>5, <2>1
  <2> QED BY <1>5, <2>2
<1>7. o[1] = Placeholder(m) /\ o[2] = Placeholder(n) /\ w[1] = Literal(p) /\ w[2] = Literal(q)
  BY <1>1, <1>5, <1>6, TwoOperands
<1>8. Fills(<<a, Placeholder(m), b>>, k, <<p>>, <<a, Literal(p), b>>)
  BY <1>2, <1>5, WordValueWordFills
<1>9. Fills(<<Placeholder(n)>>, m, <<q>>, <<Literal(q)>>)
  BY <1>5, <1>6, PlaceholderFills
<1>10. Fills(<<a, Placeholder(m), b>> \o <<Placeholder(n)>>, k, <<p>> \o <<q>>, <<a, Literal(p), b>> \o <<Literal(q)>>)
  BY <1>6, <1>8, <1>9, FillsConcat
<1>11. <<a, Placeholder(m), b>> \o <<Placeholder(n)>> = <<a, Placeholder(m), b, Placeholder(n)>>
  BY FourTokens
<1>12. <<a, Literal(p), b>> \o <<Literal(q)>> = <<a, Literal(p), b, Literal(q)>>
  BY FourTokens
<1>13. <<p>> \o <<q>> = <<p, q>>
  BY TwoTokens
<1>14. Fills(<<a, o[1], b, o[2]>>, k, <<p, q>>, <<a, w[1], b, w[2]>>)
  BY <1>7, <1>10, <1>11, <1>12, <1>13
<1> QED BY <1>1, <1>3, <1>4, <1>14 DEF SliceHas

-----------------------------------------------------------------------------
(* The WHERE clause's filters and slice, after m binds. *)
LEMMA ConditionsFill ==
  ASSUME NEW m \in Nat, NEW T, NEW b, NEW R, FillAll(T, m, b, R), NEW slice, slice.kind \in {"none", "range", "hash"}
  PROVE  Fills(Where(T \o SliceText(slice, Following(m + Len(FlattenSeq(b))))), m, FlattenSeq(b) \o SliceBinds(slice),
               Where(R \o SliceText(slice, Operands(SliceBinds(slice)))))
<1>1. PICK k : k = m + Len(FlattenSeq(b))
  OBVIOUS
<1>2. IsText(T) /\ IsText(R) /\ AllTexts(b) /\ Len(b) \in Nat
  BY TextLength DEF FillAll, AllTexts
<1>3. IsText(FlattenSeq(b)) /\ k \in Nat
  <2>1. Len(b) \in 0 .. Len(b)
    BY <1>2
  <2>2. IsText(FlattenSeq(b))
    BY <1>2, <2>1, FlatEquations
  <2>3. Len(FlattenSeq(b)) \in Nat
    BY <2>2, TextLength
  <2> QED BY <1>1, <2>2, <2>3
<1>4. CASE slice.kind = "none"
  <2>1. SliceBinds(slice) = <<>> /\ \A o : SliceText(slice, o) = <<>>
    BY <1>4 DEF SliceBinds, SliceText
  <2>2. T \o <<>> = T /\ R \o <<>> = R /\ FlattenSeq(b) \o <<>> = FlattenSeq(b)
    BY <1>2, <1>3, EmptyConcat
  <2>3. Fills(Where(T), m, FlattenSeq(b), Where(R))
    BY WhereFills
  <2> QED BY <2>1, <2>2, <2>3
<1>5. CASE slice.kind \in {"range", "hash"}
  <2>1. PICK x, y : SliceHas(slice, k, x, y)
    BY <1>3, <1>5, RangeFills, HashFills
  <2>2. PICK v : v = SliceBinds(slice)
    OBVIOUS
  <2>3. Fills(x, m + Len(FlattenSeq(b)), v, y)
    BY <1>1, <2>1, <2>2 DEF SliceHas
  <2>4. FillAll(T \o <<x>>, m, b \o <<v>>, R \o <<y>>) /\ FlattenSeq(b \o <<v>>) = FlattenSeq(b) \o v
    <3>1. OneMore(T, m, b, R, x, v, y)
      BY <2>3 DEF OneMore
    <3>2. FillAll(T \o <<x>>, m, b \o <<v>>, R \o <<y>>)
      BY <3>1, AppendFills
    <3>3. FlattenSeq(b \o <<v>>) = FlattenSeq(b) \o v
      <4>1. IsText(v)
        BY <2>3 DEF Fills
      <4> QED BY <1>2, <4>1, FlattenAppend
    <3> QED BY <3>2, <3>3
  <2>5. Fills(Where(T \o <<x>>), m, FlattenSeq(b) \o v, Where(R \o <<y>>))
    BY <2>4, WhereFills
  <2> QED BY <1>1, <2>1, <2>2, <2>5 DEF SliceHas
<1> QED BY <1>4, <1>5

(* Of three texts it does not matter which two are put together first. *)
LEMMA ConcatAssociates ==
  ASSUME NEW s, NEW t, NEW u, IsText(s), IsText(t), IsText(u)
  PROVE  (s \o t) \o u = s \o (t \o u)
<1> DEFINE S == {s[i] : i \in DOMAIN s} \cup {t[i] : i \in DOMAIN t} \cup {u[i] : i \in DOMAIN u}
<1>1. s \in Seq(S)
  BY DEF IsText
<1>2. t \in Seq(S)
  BY DEF IsText
<1>3. u \in Seq(S)
  BY DEF IsText
<1> HIDE DEF S
<1> QED BY <1>1, <1>2, <1>3

(* A unit's statement as Oracle should read it. *)
ScanMeaning(columns, scn, filters, slice) ==
  SelectFrom(columns)
  \o (IF scn = NoScn THEN <<>> ELSE AsOf(Literal(scn)))
  \o Where([i \in DOMAIN filters |-> FilterMeaning(filters[i])] \o SliceText(slice, Operands(SliceBinds(slice))))

(* Columns, each by its name. *)
AreNames(columns) == IsText(columns) /\ \A i \in 1 .. Len(columns) : IsName(columns[i])

(* Filters of comparisons with such columns. *)
AreNamedFilters(filters) == IsText(filters) /\ \A i \in 1 .. Len(filters) : IsNamedFilter(filters[i])

(* SELECT ... AS OF SCN: the snapshot is the first bind, if there is one. *)
LEMMA HeadFills ==
  ASSUME NEW columns, AreNames(columns), NEW scn, NEW z, z = 0, NEW k, k = z + 1, NEW binds, NEW text, NEW meaning,
         binds = (IF scn = NoScn THEN <<>> ELSE <<scn>>),
         text = SelectFrom(columns) \o (IF binds = <<>> THEN <<>> ELSE AsOf(Placeholder(k))),
         meaning = SelectFrom(columns) \o (IF scn = NoScn THEN <<>> ELSE AsOf(Literal(scn)))
  PROVE  Fills(text, z, binds, meaning) /\ IsText(binds) /\ Len(binds) \in Nat
<1>1. z \in Nat
  OBVIOUS
<1>2. Fills(SelectFrom(columns), z, <<>>, SelectFrom(columns))
  BY <1>1, SelectFills DEF AreNames
<1>3. CASE scn = NoScn
  <2>1. Fills(<<>>, z, <<>>, <<>>)
    BY <1>1, NothingFills
  <2>2. Fills(SelectFrom(columns) \o <<>>, z, <<>>, SelectFrom(columns) \o <<>>)
    BY <1>1, <1>2, <2>1, FillsAfterPlain
  <2> QED BY <1>3, <2>2, EmptyText
<1>4. CASE scn # NoScn
  <2>1. PICK a, c : a = Word("AS OF SCN TO_NUMBER(") /\ c = Word(")")
    OBVIOUS
  <2>2. Fills(<<a, Placeholder(k), c>>, z, <<scn>>, <<a, Literal(scn), c>>)
    BY <1>1, <2>1, WordValueWordFills
  <2>3. Fills(SelectFrom(columns) \o <<a, Placeholder(k), c>>, z, <<scn>>, SelectFrom(columns) \o <<a, Literal(scn), c>>)
    BY <1>1, <1>2, <2>2, FillsAfterPlain
  <2>4. AsOf(Placeholder(k)) = <<a, Placeholder(k), c>> /\ AsOf(Literal(scn)) = <<a, Literal(scn), c>>
    BY <2>1 DEF AsOf
  <2>5. binds = <<scn>> /\ IsText(binds) /\ Len(binds) = 1
    BY <1>4, OneToken
  <2>6. binds # <<>>
    BY <2>5
  <2> QED BY <1>4, <2>3, <2>4, <2>5, <2>6
<1> QED BY <1>3, <1>4

(* A unit's statement has its own values in its places: the snapshot's,       *)
(* each filter's, its slice's.                                                *)
LEMMA ScanFills ==
  ASSUME NEW request, NEW filters, NEW slice, AreNames(request.columns), AreNamedFilters(filters),
         request.filters = [i \in DOMAIN filters |-> TranslateFilter(filters[i])],
         slice.kind \in {"none", "range", "hash"}
  PROVE  Fills(BuildScanSql(request, slice).sql, 0, BuildScanSql(request, slice).binds,
               ScanMeaning(request.columns, request.snapshot_scn, filters, slice))
<1>1. PICK z, one, snapshot, columns, scn :
        /\ z = 0 /\ one = z + 1 /\ snapshot = request.snapshot_scn /\ columns = request.columns
        /\ scn = IF snapshot = NoScn THEN <<>> ELSE <<snapshot>>
  OBVIOUS
<1>2. PICK head, first :
        /\ head = SelectFrom(columns) \o (IF scn = <<>> THEN <<>> ELSE AsOf(Placeholder(one)))
        /\ first = SelectFrom(columns) \o (IF snapshot = NoScn THEN <<>> ELSE AsOf(Literal(snapshot)))
  OBVIOUS
<1>3. Fills(head, z, scn, first) /\ IsText(scn) /\ Len(scn) \in Nat
  <2>1. AreNames(columns)
    BY <1>1
  <2>2. Fills(head, z, scn, first)
    BY <1>1, <1>2, <2>1, HeadFills
  <2>3. IsText(scn)
    BY <2>2 DEF Fills
  <2> QED BY <2>2, <2>3, TextLength
<1>4. PICK n, m, b : n = Len(filters) /\ m = Len(scn) /\ b = [i \in DOMAIN filters |-> TranslateFilter(filters[i]).binds]
  OBVIOUS
<1>5. n \in Nat /\ m \in Nat /\ DOMAIN filters = 1 .. n
  BY <1>3, <1>4 DEF AreNamedFilters, IsText
<1>6. \A i \in 1 .. n : Fills(TranslateFilter(filters[i]).sql, 0, TranslateFilter(filters[i]).binds, FilterMeaning(filters[i]))
  BY <1>4, FilterFills DEF AreNamedFilters
<1>7. AllTexts(b) /\ Len(b) = n
  <2>1. IsText(b) /\ Len(b) = n
    BY <1>4, <1>5 DEF IsText
  <2>2. \A i \in 1 .. n : IsText(b[i])
    BY <1>4, <1>5, <1>6 DEF Fills
  <2> QED BY <2>1, <2>2 DEF AllTexts
<1> DEFINE before(i) == FlattenSeq([j \in 1 .. i - 1 |-> request.filters[j].binds])
<1>8. \A i \in 1 .. n + 1 : before(i) = Flat(b, i - 1)
  <2> TAKE i \in 1 .. n + 1
  <2>1. [j \in 1 .. i - 1 |-> request.filters[j].binds] = [j \in 1 .. i - 1 |-> b[j]]
    BY <1>4, <1>5
  <2> QED BY <2>1 DEF Flat
<1>9. before(n + 1) = FlattenSeq(b)
  <2>1. n + 1 \in 1 .. n + 1 /\ (n + 1) - 1 = n
    BY <1>5
  <2>2. before(n + 1) = Flat(b, n)
    BY <1>8, <2>1
  <2> QED BY <1>7, <2>2, FlatEquations
<1>10. PICK C, R : /\ C = [i \in DOMAIN request.filters |-> ShiftPlaceholders(request.filters[i].sql, ShiftBy(scn, before(i)))]
                   /\ R = [i \in DOMAIN filters |-> FilterMeaning(filters[i])]
  OBVIOUS
<1>11. IsText(C) /\ IsText(R) /\ Len(C) = n /\ Len(R) = n
  BY <1>5, <1>10 DEF IsText
<1>12. ASSUME NEW i \in 1 .. n PROVE Fills(C[i], m + Len(Flat(b, i - 1)), b[i], R[i])
  <2>1. PICK k, s : k = m + Len(Flat(b, i - 1)) /\ s = TranslateFilter(filters[i]).sql
    OBVIOUS
  <2>2. k \in Nat /\ z + k = k
    <3>1. i - 1 \in 0 .. Len(b)
      BY <1>5, <1>7
    <3>2. Len(Flat(b, i - 1)) \in Nat
      BY <1>7, <3>1, FlatEquations, TextLength
    <3> QED BY <1>1, <1>5, <2>1, <3>2
  <2>3. Fills(s, z, b[i], R[i])
    BY <1>1, <1>4, <1>5, <1>6, <1>10, <2>1
  <2>4. Fills(ShiftPlaceholders(s, k), z + k, b[i], R[i])
    <3>1. z \in Nat
      BY <1>1
    <3> QED BY <2>2, <2>3, <3>1, ShiftFills
  <2>5. ShiftBy(scn, before(i)) = k
    <3>1. i \in 1 .. n + 1
      BY <1>5
    <3>2. before(i) = Flat(b, i - 1)
      BY <1>8, <3>1
    <3> HIDE DEF before
    <3> QED BY <1>4, <2>1, <3>2 DEF ShiftBy
  <2>6. C[i] = ShiftPlaceholders(s, k)
    <3>1. C[i] = ShiftPlaceholders(request.filters[i].sql, ShiftBy(scn, before(i)))
      BY <1>5, <1>10
    <3>2. request.filters[i] = TranslateFilter(filters[i])
      BY <1>5
    <3> HIDE DEF before
    <3> QED BY <2>1, <2>5, <3>1, <3>2
  <2> QED BY <2>1, <2>2, <2>4, <2>6
<1>13. FillAll(C, m, b, R)
  BY <1>7, <1>11, <1>12 DEF FillAll
<1>14. PICK after, tail, rest :
         /\ after = m + Len(FlattenSeq(b))
         /\ tail = Where(C \o SliceText(slice, Following(after)))
         /\ rest = Where(R \o SliceText(slice, Operands(SliceBinds(slice))))
  OBVIOUS
<1>15. Fills(tail, m, FlattenSeq(b) \o SliceBinds(slice), rest)
  BY <1>5, <1>13, <1>14, ConditionsFill
<1>16. Fills(head \o tail, z, scn \o (FlattenSeq(b) \o SliceBinds(slice)), first \o rest)
  <2>1. z \in Nat /\ z + Len(scn) = m
    BY <1>1, <1>4, <1>5
  <2> QED BY <1>3, <1>15, <2>1, FillsConcat
<1>17. scn \o (FlattenSeq(b) \o SliceBinds(slice)) = (scn \o FlattenSeq(b)) \o SliceBinds(slice)
  <2>1. IsText(FlattenSeq(b))
    <3>1. Len(b) \in 0 .. Len(b)
      BY <1>5, <1>7
    <3> QED BY <1>7, <3>1, FlatEquations
  <2>2. IsText(SliceBinds(slice))
    BY EmptyText, TuplesAreTexts DEF SliceBinds
  <2> QED BY <1>3, <2>1, <2>2, ConcatAssociates
<1>18. Len(request.filters) = n
  BY <1>5
<1>19. BuildScanSql(request, slice).binds = (scn \o FlattenSeq(b)) \o SliceBinds(slice)
  <2>1. BuildScanSql(request, slice).binds = (scn \o before(n + 1)) \o SliceBinds(slice)
    BY <1>1, <1>18 DEF BuildScanSql
  <2> QED BY <1>9, <2>1
<1>20. BuildScanSql(request, slice).sql = head \o tail
  <2>1. BuildScanSql(request, slice).sql =
          (SelectFrom(columns) \o (IF scn = <<>> THEN <<>> ELSE AsOf(Placeholder(1))))
          \o Where(C \o SliceText(slice, [j \in 1 .. 2 |-> Placeholder((Len(scn) + Len(before(n + 1))) + j)]))
    BY <1>1, <1>10, <1>18 DEF BuildScanSql
  <2>2. one = 1
    BY <1>1
  <2> HIDE DEF before
  <2>3. [j \in 1 .. 2 |-> Placeholder((Len(scn) + Len(before(n + 1))) + j)] = Following(after)
    BY <1>4, <1>9, <1>14 DEF Following
  <2> QED BY <1>2, <1>14, <2>1, <2>2, <2>3
<1>21. ScanMeaning(columns, snapshot, filters, slice) = first \o rest
  BY <1>2, <1>10, <1>14 DEF ScanMeaning
<1> QED BY <1>1, <1>16, <1>17, <1>19, <1>20, <1>21

-----------------------------------------------------------------------------
(* What a scan fetches has names *)

(* Every fetched column is one that some output asks for. *)
LEMMA ProjectedIsAsked ==
  ASSUME TypeOK, NEW k \in DOMAIN Projected
  PROVE  Projected[k] \in DOMAIN described
<1> DEFINE N == Cardinality(FirstAsked)
           f == [x \in FirstAsked |-> Cardinality(AskedUpTo(x))]
<1>1. IsFiniteSet(FirstAsked) /\ FirstAsked \in SUBSET (1 .. Len(Ids)) /\ N \in Nat
  BY FirstAskedFacts
<1>2. \A x \in FirstAsked : Cardinality(AskedUpTo(x)) \in 1 .. N
  BY FirstAskedFacts
<1>3. \A x, y \in FirstAsked : x < y => Cardinality(AskedUpTo(x)) # Cardinality(AskedUpTo(y))
  BY FirstAskedFacts
<1>4. f \in Injection(FirstAsked, 1 .. N)
  <2>1. \A x, y \in FirstAsked : Cardinality(AskedUpTo(x)) = Cardinality(AskedUpTo(y)) => x = y
    <3> SUFFICES ASSUME NEW x \in FirstAsked, NEW y \in FirstAsked, Cardinality(AskedUpTo(x)) = Cardinality(AskedUpTo(y))
                 PROVE x = y
      OBVIOUS
    <3>1. ~(x < y) /\ ~(y < x)
      BY <1>3
    <3>2. x \in Nat /\ y \in Nat
      BY <1>1
    <3> QED BY <3>1, <3>2
  <2> HIDE DEF N
  <2> QED BY <1>2, <2>1 DEF Injection, IsInjective
<1>5. IsFiniteSet(1 .. N) /\ Cardinality(1 .. N) = N
  <2> HIDE DEF N
  <2>1. N \in Int /\ 1 \in Int
    BY <1>1
  <2>2. IsFiniteSet(1 .. N) /\ Cardinality(1 .. N) = IF 1 > N THEN 0 ELSE N - 1 + 1
    BY <2>1, FS_Interval
  <2> QED BY <1>1, <2>2
<1>6. \A n \in 1 .. N : \E x \in FirstAsked : f[x] = n
  <2>1. PICK S, T : S = FirstAsked /\ T = 1 .. N
    OBVIOUS
  <2>2. PICK g : g = f
    OBVIOUS
  <2>3. IsFiniteSet(S) /\ IsFiniteSet(T) /\ g \in Injection(S, T) /\ Cardinality(S) = Cardinality(T)
    BY <1>1, <1>4, <1>5, <2>1, <2>2
  <2>4. g \in Surjection(S, T)
    BY <2>3, FS_Injection
  <2> HIDE DEF N, f
  <2> QED BY <2>1, <2>2, <2>4 DEF Surjection
<1>7. k \in 1 .. N /\ Projected[k] = Ids[CHOOSE i \in FirstAsked : Cardinality(AskedUpTo(i)) = k]
  BY DEF Projected
<1>8. PICK x \in FirstAsked : Cardinality(AskedUpTo(x)) = k
  BY <1>6, <1>7
<1>9. (CHOOSE i \in FirstAsked : Cardinality(AskedUpTo(i)) = k) \in FirstAsked
  BY <1>8
<1>10. \A i \in FirstAsked : Ids[i] \in DOMAIN described
  BY DEF FirstAsked, IsOracleColumn
<1> QED BY <1>7, <1>9, <1>10

(* The select list is of names. *)
LEMMA FetchedAreNames ==
  ASSUME TypeOK
  PROVE  AreNames(Fetched)
<1>1. Cardinality(FirstAsked) \in Nat /\ DOMAIN Projected = 1 .. Cardinality(FirstAsked)
  BY FirstAskedFacts DEF Projected
<1>2. IsText(Fetched) /\ Len(Fetched) = Cardinality(FirstAsked)
  BY <1>1 DEF Fetched, IsText
<1>3. ASSUME NEW k \in 1 .. Len(Fetched) PROVE IsName(Fetched[k])
  <2>1. k \in DOMAIN Projected
    BY <1>1, <1>2
  <2>2. PICK c : c = Projected[k]
    OBVIOUS
  <2>3. c \in DOMAIN described /\ Fetched[k] = described[c].name
    BY <2>1, <2>2, ProjectedIsAsked DEF Fetched
  <2>4. described \in Tables
    BY <2>3 DEF TypeOK
  <2>5. IsSpelling(Spelling(described[c].name))
    BY <2>3, <2>4, TransferAssumption
  <2> QED BY <2>3, <2>5, SpellingIsName
<1> QED BY <1>2, <1>3 DEF AreNames

-----------------------------------------------------------------------------
(* The invariant *)

(* Each unit of a plan has a number. *)
LEMMA SlicesAreASequence == TypeOK => Len(slices) \in Nat
<1> SUFFICES ASSUME TypeOK PROVE Len(slices) \in Nat
  OBVIOUS
<1>1. CASE slices = <<>>
  BY <1>1
<1>2. CASE slices # <<>>
  <2>1. PICK work \in Plans : slices = work.slices
    BY <1>2 DEF TypeOK
  <2>2. slices \in Seq(Range(work.slices))
    BY <2>1, TransferAssumption
  <2> HIDE DEF Range
  <2> QED BY <2>2
<1> QED BY <1>1, <1>2

(* Every step keeps the types. *)
LEMMA TypeStep == TypeOK /\ ValueInv /\ [Next]_vars => TypeOK'
<1> SUFFICES ASSUME TypeOK, ValueInv, [Next]_vars PROVE TypeOK'
  OBVIOUS
<1>0. MaxDdl \in Nat /\ Len(slices) \in Nat /\ Len(<<>>) = 0
  BY TransferAssumption, SlicesAreASequence
<1> USE DEF TypeOK, oracle, bound, global, local, load
<1>1. CASE Ddl
  <2>1. indexes' = indexes \/ indexes' = ~indexes
    BY <1>1 DEF Ddl
  <2>2. indexes' \in BOOLEAN
    BY <2>1, Zenon DEF TypeOK
  <2>3. source' \in Tables /\ target' \in Tables /\ ddl' \in 0 .. MaxDdl
    BY <1>0, <1>1 DEF Ddl
  <2> QED BY <1>1, <2>2, <2>3 DEF Ddl
<1>2. CASE DescribeSource
  BY <1>2 DEF DescribeSource
<1>3. CASE BindScan
  BY <1>3 DEF BindScan, Throws
<1>4. CASE DescribeTarget
  BY <1>4 DEF DescribeTarget, Throws
<1>5. CASE BindCopy
  BY <1>5 DEF BindCopy, Throws
<1>6. CASE PushFilters
  BY <1>6 DEF PushFilters
<1>7. CASE InitGlobal
  <2>1. CASE Throws
    BY <2>1 DEF Throws
  <2>2. CASE ~Throws
    <3>1. unit = 0
      BY <1>7 DEF InitGlobal, ValueInv, Running
    <3>2. PICK work \in Plans : slices' = work.slices
      BY <1>7, <2>2 DEF InitGlobal
    <3>3. Len(slices') \in Nat
      <4>1. slices' \in Seq(Range(work.slices))
        BY <3>2, TransferAssumption
      <4> QED BY <4>1
    <3>4. unit' \in 0 .. Len(slices')
      BY <1>7, <2>2, <3>1, <3>3 DEF InitGlobal
    <3> QED BY <1>7, <2>2, <3>2, <3>4 DEF InitGlobal
  <2> QED BY <2>1, <2>2
<1>8. CASE NextUnit
  BY <1>0, <1>8 DEF NextUnit
<1>9. CASE Fetch
  BY <1>9 DEF Fetch
<1>10. CASE OpenWriter
  BY <1>10 DEF OpenWriter
<1>11. CASE WriteChunk
  BY <1>11 DEF WriteChunk
<1>12. CASE UNCHANGED vars
  BY <1>12 DEF vars
<1> QED BY <1>1, <1>2, <1>3, <1>4, <1>5, <1>6, <1>7, <1>8, <1>9, <1>10, <1>11, <1>12 DEF Next

(* What the bind found stays as long as its data does. *)
LEMMA PlannedStays ==
  Planned /\ UNCHANGED <<query, described, names, table, plan>> => Planned'
BY DEF Planned, Columns, Families

(* A plan is the one BuildColumnPlan made for the columns DuckDB shows.       *)
LEMMA BindStep == TypeOK /\ BindInv /\ ValueInv /\ [Next]_vars => BindInv'
<1> SUFFICES ASSUME TypeOK, BindInv, ValueInv, [Next]_vars PROVE BindInv'
  OBVIOUS
<1> USE DEF oracle, bound, global, local, load, Prepared
<1>0. ASSUME UNCHANGED <<query, described, names, table, plan, writer, loaded>>,
             \/ pc' \in {pc, "error"} \/ <<pc, pc'>> \in
                {<<"optimize", "init">>, <<"init", "next">>, <<"next", "end">>, <<"next", "fetch">>, <<"fetch", "next">>}
             \/ <<pc, pc'>> = <<"fetch", "load">> /\ query.copy
      PROVE BindInv'
  <2>1. (Planned => Planned') /\ (writer' \/ loaded' # {} => writer \/ loaded # {})
    BY <1>0, PlannedStays
  <2> QED BY <1>0, <2>1 DEF BindInv
<1>1. CASE Ddl
  BY <1>0, <1>1 DEF Ddl
<1>2. CASE DescribeSource
  BY <1>2 DEF DescribeSource, BindInv, ValueInv, Running
<1>3. CASE BindScan
  <2>1. CASE Throws
    BY <1>0, <2>1 DEF Throws
  <2>2. CASE ~Throws
    <3>1. pc = "bind" /\ query' = query /\ described' = described /\ names' = DuckColumnNames(described)
          /\ pc' \in {"copy", "optimize"} /\ (pc' = "copy" <=> query.copy) /\ UNCHANGED <<writer, loaded>>
      BY <1>3, <2>2 DEF BindScan
    <3>2. ~writer /\ loaded = {} /\ Range(query.select) \subseteq DOMAIN described
      BY <3>1 DEF BindInv, ValueInv, Running
    <3>3. names' = DuckColumnNames(described')
      BY <3>1
    <3> QED BY <3>1, <3>2, <3>3 DEF BindInv
  <2> QED BY <2>1, <2>2
<1>4. CASE DescribeTarget
  <2>1. CASE Throws
    BY <1>0, <2>1 DEF Throws
  <2>2. CASE ~Throws
    <3>1. pc = "copy" /\ pc' = "indexes" /\ UNCHANGED <<query, described, names, writer, loaded>>
      BY <1>4, <2>2 DEF DescribeTarget
    <3>2. ~writer /\ loaded = {}
      BY <3>1 DEF ValueInv, Running
    <3> QED BY <3>1, <3>2 DEF BindInv
  <2> QED BY <2>1, <2>2
<1>5. CASE BindCopy
  <2>1. CASE Throws
    BY <1>0, <2>1 DEF Throws
  <2>2. CASE ~Throws
    <3> DEFINE built == BuildColumnPlan(Columns(names, query.select), Families(Columns(described, query.select)), table)
    <3>1. pc = "indexes" /\ pc' = "optimize" /\ built # NoPlan /\ plan' = built
          /\ UNCHANGED <<query, described, names, table, writer, loaded>>
      BY <1>5, <2>2 DEF BindCopy
    <3>2. Range(query.select) \subseteq DOMAIN described /\ names = DuckColumnNames(described)
      BY <3>1 DEF BindInv
    <3>3. Planned'
      BY <3>1, <3>2 DEF Planned, Columns, Families
    <3> QED BY <3>1, <3>2, <3>3 DEF BindInv
  <2> QED BY <2>1, <2>2
<1>6. CASE PushFilters
  BY <1>0, <1>6 DEF PushFilters
<1>7. CASE InitGlobal
  BY <1>0, <1>7 DEF InitGlobal, Throws
<1>8. CASE NextUnit
  BY <1>0, <1>8 DEF NextUnit
<1>9. CASE Fetch
  BY <1>0, <1>9 DEF Fetch
<1>10. CASE OpenWriter
  <2>1. pc = "load" /\ pc' \in {"load", "error"} /\ UNCHANGED <<query, described, names, table, plan, loaded>>
    BY <1>10 DEF OpenWriter
  <2>2. Planned'
    BY <2>1, PlannedStays DEF BindInv
  <2> QED BY <2>1, <2>2 DEF BindInv
<1>11. CASE WriteChunk
  <2>1. pc = "load" /\ pc' = "next" /\ UNCHANGED <<query, described, names, table, plan>>
    BY <1>11 DEF WriteChunk
  <2>2. Planned'
    BY <2>1, PlannedStays DEF BindInv
  <2> QED BY <2>1, <2>2 DEF BindInv
<1>12. CASE UNCHANGED vars
  BY <1>0, <1>12 DEF vars
<1> QED BY <1>1, <1>2, <1>3, <1>4, <1>5, <1>6, <1>7, <1>8, <1>9, <1>10, <1>11, <1>12 DEF Next

(* The projection depends on the query and the description. *)
LEMMA ProjectionStays ==
  UNCHANGED <<query, described>> =>
    Ids' = Ids /\ Projected' = Projected /\ Outputs' = Outputs /\ Fetched' = Fetched /\ Asked' = Asked
BY DEF Ids, Projected, FirstAsked, AskedUpTo, IsOracleColumn, Outputs, Fetched, Asked

(* Once the scan runs, it fetches what the projection says. *)
LEMMA ProjectionStep == ProjectionInv /\ [Next]_vars => ProjectionInv'
<1> SUFFICES ASSUME ProjectionInv, [Next]_vars PROVE ProjectionInv'
  OBVIOUS
<1> USE DEF oracle, bound, global, local, load, Running
<1>0. ASSUME UNCHANGED <<query, described, input, outputs>>, pc' \in Running => pc \in Running
      PROVE ProjectionInv'
  BY <1>0, ProjectionStays DEF ProjectionInv
<1>1. CASE Ddl
  BY <1>0, <1>1 DEF Ddl
<1>2. CASE DescribeSource
  BY <1>2 DEF DescribeSource, ProjectionInv
<1>3. CASE BindScan
  BY <1>3 DEF BindScan, Throws, ProjectionInv
<1>4. CASE DescribeTarget
  BY <1>0, <1>4 DEF DescribeTarget, Throws
<1>5. CASE BindCopy
  BY <1>5 DEF BindCopy, Throws, ProjectionInv
<1>6. CASE PushFilters
  BY <1>6 DEF PushFilters, ProjectionInv
<1>7. CASE InitGlobal
  <2>1. CASE Throws
    BY <2>1 DEF Throws, ProjectionInv
  <2>2. CASE ~Throws
    <3>1. UNCHANGED <<query, described>> /\ outputs' = Outputs
      BY <1>7, <2>2 DEF InitGlobal
    <3>2. input'.columns = Fetched
      <4>1. PICK work \in Plans :
              input' = [columns |-> Fetched, filters |-> input.filters, snapshot_scn |-> work.scn]
        BY <1>7, <2>2 DEF InitGlobal
      <4> QED BY <4>1
    <3> QED BY <3>1, <3>2, ProjectionStays DEF ProjectionInv
  <2> QED BY <2>1, <2>2
<1>8. CASE NextUnit
  BY <1>0, <1>8 DEF NextUnit
<1>9. CASE Fetch
  BY <1>0, <1>9 DEF Fetch
<1>10. CASE OpenWriter
  BY <1>0, <1>10 DEF OpenWriter
<1>11. CASE WriteChunk
  BY <1>0, <1>11 DEF WriteChunk
<1>12. CASE UNCHANGED vars
  BY <1>0, <1>12 DEF vars
<1> QED BY <1>1, <1>2, <1>3, <1>4, <1>5, <1>6, <1>7, <1>8, <1>9, <1>10, <1>11, <1>12 DEF Next

(* A row read through the projection is the row that was asked for.           *)
LEMMA RowsAreAsAsked ==
  ASSUME TypeOK, outputs = Outputs, input.columns = Fetched
  PROVE  [i \in DOMAIN outputs |-> IF outputs[i] = 0 THEN Null ELSE input.columns[outputs[i]]] = Asked
<1>1. DOMAIN outputs = DOMAIN Ids
  BY DEF Outputs
<1>2. ASSUME NEW i \in DOMAIN Ids
      PROVE  (IF outputs[i] = 0 THEN Null ELSE input.columns[outputs[i]])
             = IF IsOracleColumn(Ids[i]) THEN described[Ids[i]].name ELSE Null
  <2>1. CASE IsOracleColumn(Ids[i])
    <3>1. outputs[i] # 0 /\ outputs[i] \in DOMAIN Projected /\ Projected[outputs[i]] = Ids[i]
      BY <2>1, OutputFindsItsColumn
    <3>2. Fetched[outputs[i]] = described[Ids[i]].name
      BY <3>1 DEF Fetched
    <3> QED BY <2>1, <3>1, <3>2
  <2>2. CASE ~IsOracleColumn(Ids[i])
    BY <2>2 DEF Outputs
  <2> QED BY <2>1, <2>2
<1> QED BY <1>1, <1>2 DEF Asked

(* A column the plan has is one of the query, and the row has its value. *)
LEMMA PlannedValues ==
  ASSUME TypeOK, Planned, NEW i \in DOMAIN plan
  PROVE  i \in DOMAIN query.select /\ query.select[i] \in DOMAIN described
         /\ Asked[i] = described[query.select[i]].name
<1>1. DOMAIN plan = DOMAIN query.select
  <2> DEFINE new == Columns(names, query.select)
             types == Families(Columns(described, query.select))
  <2>1. plan = BuildColumnPlan(new, types, table) /\ plan # NoPlan
    BY DEF Planned
  <2>2. DOMAIN new = DOMAIN query.select
    BY DEF Columns
  <2> HIDE DEF new, types
  <2> QED BY <2>1, <2>2, AcceptedPlan
<1>2. query.select # <<>> /\ Ids = query.select
  BY <1>1, IdFacts
<1>3. query.select[i] \in DOMAIN described
  BY <1>1 DEF Planned, Range
<1> QED BY <1>1, <1>2, <1>3 DEF Asked, IsOracleColumn

(* Rows and what was loaded stay what was asked for and planned. *)
LEMMA ValueStep == TypeOK /\ BindInv /\ ProjectionInv /\ ValueInv /\ [Next]_vars => ValueInv'
<1> SUFFICES ASSUME TypeOK, BindInv, ProjectionInv, ValueInv, [Next]_vars PROVE ValueInv'
  OBVIOUS
<1> USE DEF oracle, bound, global, local, load, Running
<1> DEFINE Loadable == {[from |-> described[query.select[i]].name, to |-> table[plan[i]].name] : i \in DOMAIN plan}
<1>0. ASSUME UNCHANGED <<query, described, table, plan, chunk, loaded>>,
             pc' \in Running \cup {"error"} \/ pc' = pc \/ (pc \notin Running \cup {"error"} /\ UNCHANGED <<writer, unit>>),
             pc' \notin Running \cup {"error"} => UNCHANGED <<writer, unit>>,
             pc' = "load" => pc = "load"
      PROVE ValueInv'
  <2>1. Loadable' = Loadable /\ Asked' = Asked
    BY <1>0, ProjectionStays
  <2> HIDE DEF Loadable
  <2>2. loaded \subseteq Loadable
    BY DEF ValueInv, Loadable
  <2>3. loaded' \subseteq Loadable'
    BY <1>0, <2>1, <2>2
  <2> QED BY <1>0, <2>1, <2>3 DEF ValueInv, Loadable
<1>1. CASE Ddl
  BY <1>0, <1>1 DEF Ddl
<1>e. ASSUME pc' \notin Running \cup {"error"}, pc \notin Running \cup {"error"}, UNCHANGED <<chunk, writer, loaded, unit>>
      PROVE ValueInv'
  BY <1>e DEF ValueInv
<1>t. CASE Throws
  BY <1>0, <1>t DEF Throws
<1>2. CASE DescribeSource
  BY <1>2, <1>e DEF DescribeSource
<1>3. CASE BindScan
  BY <1>3, <1>e, <1>t DEF BindScan
<1>4. CASE DescribeTarget
  BY <1>4, <1>e, <1>t DEF DescribeTarget
<1>5. CASE BindCopy
  BY <1>5, <1>e, <1>t DEF BindCopy
<1>6. CASE PushFilters
  BY <1>6, <1>e DEF PushFilters
<1>7. CASE InitGlobal
  BY <1>7, <1>0, <1>t DEF InitGlobal
<1>8. CASE NextUnit
  BY <1>8, <1>0 DEF NextUnit
<1>9. CASE Fetch
  <2>1. outputs = Outputs /\ input.columns = Fetched
    BY <1>9 DEF Fetch, ProjectionInv
  <2>2. chunk' = Asked
    BY <1>9, <2>1, RowsAreAsAsked DEF Fetch
  <2>3. UNCHANGED <<query, described, table, plan, loaded>> /\ pc' \in {"load", "next"}
    BY <1>9 DEF Fetch
  <2>4. Asked' = Asked /\ Loadable' = Loadable
    BY <2>3, ProjectionStays
  <2>5. loaded' \subseteq Loadable'
    BY <2>3, <2>4 DEF ValueInv
  <2> HIDE DEF Loadable
  <2> QED BY <2>2, <2>3, <2>4, <2>5 DEF ValueInv, Loadable
<1>10. CASE OpenWriter
  BY <1>10, <1>0 DEF OpenWriter
<1>11. CASE WriteChunk
  <2>1. UNCHANGED <<query, described, table, plan, chunk>> /\ pc = "load" /\ pc' = "next"
        /\ loaded' = loaded \cup {[from |-> chunk[i], to |-> table[plan[i]].name] : i \in DOMAIN plan}
    BY <1>11 DEF WriteChunk
  <2>2. Planned /\ chunk = Asked
    BY <2>1 DEF BindInv, ValueInv, Prepared
  <2>3. \A i \in DOMAIN plan : chunk[i] = described[query.select[i]].name
    BY <2>2, PlannedValues
  <2>4. {[from |-> chunk[i], to |-> table[plan[i]].name] : i \in DOMAIN plan} \subseteq Loadable
    BY <2>3
  <2>5. Asked' = Asked /\ Loadable' = Loadable
    BY <2>1, ProjectionStays
  <2>6. loaded' \subseteq Loadable'
    BY <2>1, <2>4, <2>5 DEF ValueInv
  <2> HIDE DEF Loadable
  <2> QED BY <2>1, <2>2, <2>5, <2>6 DEF ValueInv, Loadable
<1>12. CASE UNCHANGED vars
  BY <1>0, <1>12 DEF vars
<1> QED BY <1>1, <1>2, <1>3, <1>4, <1>5, <1>6, <1>7, <1>8, <1>9, <1>10, <1>11, <1>12 DEF Next

(* Until something is altered, the target is the one of the bind. *)
LEMMA UnalteredStep == TypeOK /\ UnalteredInv /\ BindInv /\ [Next]_vars => UnalteredInv'
<1> SUFFICES ASSUME TypeOK, UnalteredInv, BindInv, [Next]_vars PROVE UnalteredInv'
  OBVIOUS
<1> USE DEF oracle, bound, global, local, load, Prepared, UnalteredInv
<1>1. CASE Ddl
  <2>1. ddl' # 0
    BY <1>1, TransferAssumption DEF Ddl, TypeOK
  <2> QED BY <2>1
<1>2. CASE DescribeSource
  BY <1>2 DEF DescribeSource
<1>3. CASE BindScan
  BY <1>3 DEF BindScan, Throws
<1>4. CASE DescribeTarget
  BY <1>4 DEF DescribeTarget, Throws
<1>5. CASE BindCopy
  BY <1>5 DEF BindCopy, Throws
<1>6. CASE PushFilters
  BY <1>6 DEF PushFilters
<1>7. CASE InitGlobal
  BY <1>7 DEF InitGlobal, Throws
<1>8. CASE NextUnit
  BY <1>8 DEF NextUnit
<1>9. CASE Fetch
  BY <1>9 DEF Fetch
<1>10. CASE OpenWriter
  BY <1>10 DEF OpenWriter
<1>11. CASE WriteChunk
  BY <1>11 DEF WriteChunk
<1>12. CASE UNCHANGED vars
  BY <1>12 DEF vars
<1> QED BY <1>1, <1>2, <1>3, <1>4, <1>5, <1>6, <1>7, <1>8, <1>9, <1>10, <1>11, <1>12 DEF Next

(* The filters of a scan depend on its query and its description. *)
LEMMA PushedStays ==
  ASSUME UNCHANGED <<query, described>>, NEW filters \in {query.filters, <<>>}, input.filters = Pushed(filters),
         input'.filters = input.filters
  PROVE  \E pushed \in {query'.filters, <<>>} : input'.filters = Pushed(pushed)'
<1>1. Pushed(filters)' = Pushed(filters)
  BY DEF Pushed, Translated, NamedLeaf
<1>2. filters \in {query'.filters, <<>>}
  OBVIOUS
<1> QED BY <1>1, <1>2

(* A unit's statement is built from what was pushed and its own slice. *)
LEMMA TextStep == TypeOK /\ TextInv /\ [Next]_vars => TextInv'
<1> SUFFICES ASSUME TypeOK, TextInv, [Next]_vars PROVE TextInv'
  OBVIOUS
<1> USE DEF oracle, bound, global, local, load, Running
<1> DEFINE Compared == pc \notin {"describe", "error"} => ComparedColumns(query) \subseteq DOMAIN described
           Filters == pc \in Running \cup {"init"} => \E filters \in {query.filters, <<>>} : input.filters = Pushed(filters)
           Cursor == cursor = [sql |-> cursor.sql, binds |-> cursor.binds]
           Unit == pc = "fetch" => unit \in DOMAIN slices /\ cursor = BuildScanSql(input, slices[unit])
<1>a. ASSUME Compared', Filters', Cursor', Unit' PROVE TextInv'
  BY <1>a DEF TextInv
<1>b. Compared /\ Filters /\ Cursor /\ Unit
  BY DEF TextInv
<1>c. ASSUME UNCHANGED <<query, described>>, pc' \notin {"describe", "error"} => pc \notin {"describe", "error"}
      PROVE Compared'
  <2>1. ComparedColumns(query)' = ComparedColumns(query)
    BY <1>c DEF ComparedColumns
  <2> QED BY <1>b, <1>c, <2>1
<1>f. ASSUME UNCHANGED <<query, described>>, input'.filters = input.filters,
             pc' \in Running \cup {"init"} => pc \in Running \cup {"init"}
      PROVE Filters'
  BY <1>b, <1>f, PushedStays
<1> HIDE DEF Compared, Filters, Cursor, Unit
<1>u. ASSUME pc' # "fetch", UNCHANGED cursor PROVE Unit' /\ Cursor'
  BY <1>b, <1>u DEF Unit, Cursor
<1>0. ASSUME UNCHANGED <<query, described, input, slices, unit, cursor>>, pc' = pc \/ pc' = "error"
      PROVE TextInv'
  <2>1. Compared' /\ Filters'
    BY <1>0, <1>c, <1>f
  <2>2. Cursor' /\ Unit'
    BY <1>0, <1>b DEF Cursor, Unit
  <2> QED BY <1>a, <2>1, <2>2
<1>t. CASE Throws
  BY <1>0, <1>t DEF Throws
<1>1. CASE Ddl
  BY <1>0, <1>1 DEF Ddl
<1>2. CASE DescribeSource
  <2>1. pc' = "bind" /\ query' = query /\ described' = source /\ cursor' = cursor
        /\ ComparedColumns(query) \subseteq DOMAIN source
    BY <1>2 DEF DescribeSource
  <2>2. ComparedColumns(query)' = ComparedColumns(query)
    BY <2>1 DEF ComparedColumns
  <2>3. Compared'
    BY <2>1, <2>2 DEF Compared
  <2>4. Filters'
    BY <2>1 DEF Filters
  <2> QED BY <1>a, <1>u, <2>1, <2>3, <2>4
<1>3. CASE BindScan
  <2>1. CASE ~Throws
    <3>1. pc = "bind" /\ pc' \in {"copy", "optimize"} /\ UNCHANGED <<query, described, input, cursor>>
      BY <1>3, <2>1 DEF BindScan
    <3> QED BY <1>a, <1>c, <1>f, <1>u, <3>1
  <2> QED BY <1>t, <2>1
<1>4. CASE DescribeTarget
  <2>1. CASE ~Throws
    <3>1. pc = "copy" /\ pc' = "indexes" /\ UNCHANGED <<query, described, input, cursor>>
      BY <1>4, <2>1 DEF DescribeTarget
    <3> QED BY <1>a, <1>c, <1>f, <1>u, <3>1
  <2> QED BY <1>t, <2>1
<1>5. CASE BindCopy
  <2>1. CASE ~Throws
    <3>1. pc = "indexes" /\ pc' = "optimize" /\ UNCHANGED <<query, described, input, cursor>>
      BY <1>5, <2>1 DEF BindCopy
    <3> QED BY <1>a, <1>c, <1>f, <1>u, <3>1
  <2> QED BY <1>t, <2>1
<1>6. CASE PushFilters
  <2>1. pc = "optimize" /\ pc' = "init" /\ UNCHANGED <<query, described, cursor>>
    BY <1>6 DEF PushFilters
  <2>2. PICK pushed \in {query.filters, <<>>} :
          input' = [NoInput EXCEPT !.filters = [i \in DOMAIN pushed |-> Translated(pushed[i])]]
    BY <1>6 DEF PushFilters
  <2>3. input'.filters = Pushed(pushed)
    BY <2>2 DEF NoInput, Pushed
  <2>4. Pushed(pushed)' = Pushed(pushed)
    BY <2>1 DEF Pushed, Translated, NamedLeaf
  <2>5. Filters'
    BY <2>1, <2>3, <2>4 DEF Filters
  <2> QED BY <1>a, <1>c, <1>u, <2>1, <2>5
<1>7. CASE InitGlobal
  <2>1. CASE ~Throws
    <3>1. pc = "init" /\ pc' = "next" /\ UNCHANGED <<query, described, cursor>>
      BY <1>7, <2>1 DEF InitGlobal
    <3>2. PICK work \in Plans : input' = [columns |-> Fetched, filters |-> input.filters, snapshot_scn |-> work.scn]
      BY <1>7, <2>1 DEF InitGlobal
    <3>3. input'.filters = input.filters
      BY <3>2
    <3> QED BY <1>a, <1>c, <1>f, <1>u, <3>1, <3>3
  <2> QED BY <1>t, <2>1
<1>8. CASE NextUnit
  <2>1. pc = "next" /\ UNCHANGED <<query, described, input, slices>>
    BY <1>8 DEF NextUnit
  <2>2. Compared' /\ Filters'
    BY <2>1, <1>c, <1>f, <1>8 DEF NextUnit
  <2>3. CASE unit = Len(slices)
    <3>1. pc' = "end" /\ cursor' = cursor
      BY <1>8, <2>3 DEF NextUnit
    <3> QED BY <1>a, <1>u, <2>2, <3>1
  <2>4. CASE unit # Len(slices)
    <3>1. unit' = unit + 1 /\ cursor' = Run(BuildScanSql(input, slices[unit + 1]))
      BY <1>8, <2>4 DEF NextUnit
    <3>2. PICK statement : statement = BuildScanSql(input, slices[unit + 1])
      OBVIOUS
    <3>3. statement = [sql |-> statement.sql, binds |-> statement.binds]
      BY <3>2 DEF BuildScanSql
    <3>4. cursor' = statement
      <4>1. CASE cursor.sql = statement.sql
        <5>1. cursor' = [cursor EXCEPT !.binds = statement.binds]
          BY <3>1, <3>2, <4>1 DEF Run
        <5>2. PICK text, values : cursor = [sql |-> text, binds |-> values]
          BY <1>b DEF Cursor
        <5>3. cursor' = [sql |-> text, binds |-> statement.binds] /\ text = statement.sql
          BY <4>1, <5>1, <5>2
        <5> QED BY <3>3, <5>3
      <4>2. CASE cursor.sql # statement.sql
        BY <3>1, <3>2, <4>2 DEF Run
      <4> QED BY <4>1, <4>2
    <3>5. Cursor'
      BY <3>3, <3>4 DEF Cursor
    <3>6. unit + 1 \in DOMAIN slices
      <4>1. unit + 1 \in 1 .. Len(slices)
        BY <2>4, SlicesAreASequence DEF TypeOK
      <4>2. slices # <<>>
        BY <4>1
      <4>3. PICK work \in Plans : slices = work.slices
        BY <4>2 DEF TypeOK
      <4>4. slices \in Seq(Range(work.slices))
        BY <4>3, TransferAssumption
      <4> HIDE DEF Range
      <4> QED BY <4>1, <4>4
    <3>7. Unit'
      BY <2>1, <3>1, <3>2, <3>4, <3>6 DEF Unit
    <3> QED BY <1>a, <2>2, <3>5, <3>7
  <2> QED BY <2>3, <2>4
<1>9. CASE Fetch
  <2>1. pc = "fetch" /\ pc' \in {"load", "next"} /\ UNCHANGED <<query, described, input, cursor>>
    BY <1>9 DEF Fetch
  <2> QED BY <1>a, <1>c, <1>f, <1>u, <2>1
<1>10. CASE OpenWriter
  BY <1>0, <1>10 DEF OpenWriter
<1>11. CASE WriteChunk
  <2>1. pc = "load" /\ pc' = "next" /\ UNCHANGED <<query, described, input, cursor>>
    BY <1>11 DEF WriteChunk
  <2> QED BY <1>a, <1>c, <1>f, <1>u, <2>1
<1>12. CASE UNCHANGED vars
  BY <1>0, <1>12 DEF vars
<1> QED BY <1>1, <1>2, <1>3, <1>4, <1>5, <1>6, <1>7, <1>8, <1>9, <1>10, <1>11, <1>12 DEF Next

(* x *)

(* The invariant holds before the binds. *)
LEMMA InitIInv == Init => IInv
<1> SUFFICES ASSUME Init PROVE IInv
  OBVIOUS
<1>1. TypeOK
  <2>1. 0 \in 0 .. MaxDdl /\ 0 \in 0 .. Len(<<>>)
    BY TransferAssumption
  <2> QED BY <2>1 DEF Init, TypeOK
<1>2. BindInv /\ ProjectionInv /\ ValueInv /\ UnalteredInv
  BY DEF Init, BindInv, Prepared, ProjectionInv, Running, ValueInv, UnalteredInv
<1>3. TextInv
  BY DEF Init, TextInv, Running, NoStatement
<1> QED BY <1>1, <1>2, <1>3 DEF IInv

(* The invariant holds from the binds to the end of the load, whatever is     *)
(* altered in between.                                                        *)
THEOREM TransferInvariant == Spec => []IInv
<1>1. IInv /\ [Next]_vars => IInv'
  BY TypeStep, BindStep, ProjectionStep, ValueStep, UnalteredStep, TextStep DEF IInv
<1> QED BY InitIInv, <1>1, PTL DEF Spec

(* The variables of a transfer keep their types. *)
THEOREM TransferTypeCorrect == Spec => []TypeOK
<1>1. IInv => TypeOK
  BY DEF IInv
<1> QED BY TransferInvariant, <1>1, PTL

(* What was planned for a column of the query. *)
LEMMA PlannedColumn ==
  ASSUME TypeOK, Planned, NEW i \in DOMAIN plan
  PROVE  LET from == described[query.select[i]].name
             to   == table[plan[i]].name
         IN /\ plan[i] \in DOMAIN table /\ from \in Names(described)
            /\ Lower(to) = Lower(from) \/ Lower(to) \notin LowerNames(described)
            /\ Lower(to) = Lower(from) /\ from \in Names(table) => to = from
<1> DEFINE q == query.select[i]
           from == described[q].name
           to == table[plan[i]].name
           new == Columns(names, query.select)
           types == Families(Columns(described, query.select))
<1>1. i \in DOMAIN query.select /\ q \in DOMAIN described
  BY PlannedValues
<1>2. plan = BuildColumnPlan(new, types, table) /\ plan # NoPlan /\ names = DuckColumnNames(described)
  BY DEF Planned
<1>3. DOMAIN new = DOMAIN query.select /\ new[i] = names[q]
  BY <1>1 DEF Columns
<1>4. described # <<>>
  BY <1>1
<1>5. described \in Seq(Range(described)) /\ \A j \in DOMAIN described : described[j].name[3] \in Seq(Nat)
  BY <1>4, TransferAssumption DEF TypeOK
<1>6. names[q] = from \/ Lower(names[q]) \notin LowerNames(described)
  <2> HIDE DEF q
  <2> QED BY <1>1, <1>2, <1>5, DuckNames
<1>7. /\ plan[i] \in DOMAIN table
      /\ Lower(to) = Lower(names[q])
      /\ names[q] \in Names(table) => to = names[q]
  <2> HIDE DEF new, types
  <2> QED BY <1>1, <1>2, <1>3, AcceptedPlan
<1>8. from \in Names(described) /\ Lower(from) \in LowerNames(described)
  BY <1>1 DEF Names, LowerNames
<1> HIDE DEF q, from, to
<1>9. \/ names[q] = from
      \/ Lower(to) \notin LowerNames(described) /\ Lower(to) # Lower(from)
  BY <1>6, <1>7, <1>8
<1>10. /\ plan[i] \in DOMAIN table /\ from \in Names(described)
       /\ Lower(to) = Lower(from) \/ Lower(to) \notin LowerNames(described)
       /\ Lower(to) = Lower(from) /\ from \in Names(table) => to = from
  BY <1>7, <1>8, <1>9
<1> QED BY <1>10 DEF q, from, to

(* A value is loaded into the column of its own name, in the same case if the *)
(* target has it, or of a name no source column has; and each output of a     *)
(* scan is the column asked for (DuckColumnNames, BuildColumnPlan,            *)
(* OraduckScanInitGlobal, WriteChunk), whatever is altered in between.        *)
THEOREM EachValueKeepsItsColumn == Spec => []ValuesKeepTheirColumn
<1>1. IInv => ValuesKeepTheirColumn
  <2> SUFFICES ASSUME IInv PROVE ValuesKeepTheirColumn
    OBVIOUS
  <2>1. TypeOK /\ BindInv /\ ValueInv
    BY DEF IInv
  <2>2. ASSUME NEW v \in loaded
        PROVE  /\ Lower(v.to) = Lower(v.from) \/ Lower(v.to) \notin LowerNames(described)
               /\ Lower(v.to) = Lower(v.from) /\ v.from \in Names(table) => v.to = v.from
    <3>1. PICK i \in DOMAIN plan : v = [from |-> described[query.select[i]].name, to |-> table[plan[i]].name]
      BY <2>1 DEF ValueInv
    <3>2. Planned
      BY <2>1 DEF BindInv
    <3>3. v.from = described[query.select[i]].name /\ v.to = table[plan[i]].name
      BY <3>1
    <3> QED BY <2>1, <3>2, <3>3, PlannedColumn
  <2>3. chunk # <<>> => \A i \in DOMAIN Ids :
          chunk[i] = IF IsOracleColumn(Ids[i]) THEN described[Ids[i]].name ELSE Null
    BY <2>1 DEF ValueInv, Asked
  <2> QED BY <2>2, <2>3 DEF ValuesKeepTheirColumn
<1> QED BY TransferInvariant, <1>1, PTL

(* Each column of the target has one source, none that must not be NULL is    *)
(* left out, and what the bind accepted is accepted by the load unless a      *)
(* table was altered (BuildColumnPlan, OraduckBind).                          *)
THEOREM LoadsFillTheTarget == Spec => []LoadFillsTheTarget
<1>1. IInv => LoadFillsTheTarget
  <2> SUFFICES ASSUME IInv PROVE LoadFillsTheTarget
    OBVIOUS
  <2>1. TypeOK /\ BindInv /\ ValueInv /\ UnalteredInv
    BY DEF IInv
  <2> DEFINE new == Columns(names, query.select)
             types == Families(Columns(described, query.select))
  <2>2. ASSUME Planned
        PROVE  /\ DOMAIN plan = DOMAIN query.select
               /\ \A i \in DOMAIN plan : plan[i] \in DOMAIN table
               /\ \A i, j \in DOMAIN plan : plan[i] = plan[j] => i = j
               /\ \A c \in DOMAIN table : ~table[c].nullable => \E i \in DOMAIN plan : plan[i] = c
    <3>1. plan = BuildColumnPlan(new, types, table) /\ plan # NoPlan
      BY <2>2 DEF Planned
    <3>2. DOMAIN new = DOMAIN query.select
      BY DEF Columns
    <3> HIDE DEF new, types
    <3> QED BY <3>1, <3>2, AcceptedPlan
  <2>3. \A v, w \in loaded : v.to = w.to => v.from = w.from
    <3> SUFFICES ASSUME NEW v \in loaded, NEW w \in loaded, v.to = w.to PROVE v.from = w.from
      OBVIOUS
    <3>1. PICK i \in DOMAIN plan : v = [from |-> described[query.select[i]].name, to |-> table[plan[i]].name]
      BY <2>1 DEF ValueInv
    <3>2. PICK j \in DOMAIN plan : w = [from |-> described[query.select[j]].name, to |-> table[plan[j]].name]
      BY <2>1 DEF ValueInv
    <3>3. Planned
      BY <2>1 DEF BindInv
    <3>4. plan[i] \in DOMAIN table /\ plan[j] \in DOMAIN table
      BY <2>2, <3>3
    <3>5. table[plan[i]].name = table[plan[j]].name
      BY <3>1, <3>2
    <3>6. table \in Tables
      BY <2>1, <3>4 DEF TypeOK
    <3>7. plan[i] = plan[j]
      BY <3>4, <3>5, <3>6, TransferAssumption
    <3>8. i = j
      BY <2>2, <3>3, <3>7
    <3> QED BY <3>1, <3>2, <3>8
  <2>4. writer => \A c \in Range(table) : ~c.nullable => \E i \in DOMAIN plan : table[plan[i]] = c
    <3> SUFFICES ASSUME writer, NEW c \in Range(table), ~c.nullable PROVE \E i \in DOMAIN plan : table[plan[i]] = c
      OBVIOUS
    <3>1. Planned
      BY <2>1 DEF BindInv
    <3>2. PICK k \in DOMAIN table : c = table[k]
      BY DEF Range
    <3>3. PICK i \in DOMAIN plan : plan[i] = k
      BY <2>2, <3>1, <3>2
    <3> QED BY <3>2, <3>3
  <2>5. pc = "load" /\ ddl = 0 => OracleAccepts
    <3> SUFFICES ASSUME pc = "load", ddl = 0 PROVE OracleAccepts
      OBVIOUS
    <3>1. query.copy /\ Planned
      BY <2>1 DEF BindInv, Prepared
    <3>2. table = target /\ (indexes => query.skip_index_maintenance)
      BY <2>1, <3>1 DEF UnalteredInv, Prepared
    <3>3. {table[plan[i]].name : i \in DOMAIN plan} \subseteq Names(target)
      BY <2>2, <3>1, <3>2 DEF Names
    <3> QED BY <3>2, <3>3 DEF OracleAccepts
  <2> QED BY <2>3, <2>4, <2>5 DEF LoadFillsTheTarget
<1> QED BY TransferInvariant, <1>1, PTL

-----------------------------------------------------------------------------
(* The statements *)

(* A filter with the names of its columns. *)
Named(filter) == [i \in DOMAIN filter |-> NamedLeaf(filter[i])]

(* A comparison of the query, with the name of its column. *)
LEMMA NamedLeafFacts ==
  ASSUME NEW leaf, IsComparison(leaf), TypeOK, leaf.column \in DOMAIN described
  PROVE  IsNamedComparison(NamedLeaf(leaf)) /\ NamedLeaf(leaf).binds = leaf.binds
<1>1. PICK n : n = described[leaf.column].name
  OBVIOUS
<1>2. NamedLeaf(leaf) = [leaf EXCEPT !.column = n]
  BY <1>1 DEF NamedLeaf
<1>3. PICK new : new = [leaf EXCEPT !.column = n]
  OBVIOUS
<1>4. new.op = leaf.op /\ new.binds = leaf.binds /\ new.column = n /\ DOMAIN new = DOMAIN leaf
  BY <1>3 DEF IsComparison
<1>5. IsComparison(new)
  BY <1>4 DEF IsComparison
<1>6. described \in Tables
  BY DEF TypeOK
<1>7. IsSpelling(Spelling(n))
  BY <1>1, <1>6, TransferAssumption
<1> QED BY <1>2, <1>3, <1>4, <1>5, <1>7, SpellingIsName DEF IsNamedComparison

(* Each pushed filter is a sequence of comparisons with named columns, with   *)
(* the constants of the query.                                                *)
LEMMA NamedFilters ==
  ASSUME TypeOK, ComparedColumns(query) \subseteq DOMAIN described, NEW filters \in {query.filters, <<>>},
         NEW named, named = [i \in DOMAIN filters |-> Named(filters[i])]
  PROVE  /\ AreNamedFilters(named) /\ IsText(filters) /\ DOMAIN named = DOMAIN filters
         /\ \A i \in DOMAIN filters : \A j \in DOMAIN filters[i] : named[i][j].binds = filters[i][j].binds
<1>1. query.filters \in Seq(Range(query.filters))
  BY TransferAssumption DEF TypeOK
<1>2. \A filter \in Range(query.filters) :
        filter \in Seq(Range(filter)) /\ \A leaf \in Range(filter) : IsComparison(leaf)
  BY TransferAssumption DEF TypeOK
<1>3. IsText(filters)
  <2>1. IsText(query.filters)
    <3> HIDE DEF Range
    <3> QED BY <1>1, SeqIsText
  <2> QED BY <2>1, EmptyText
<1>4. DOMAIN filters = 1 .. Len(filters) /\ Len(filters) \in Nat
  BY <1>3 DEF IsText
<1>5. ASSUME NEW i \in DOMAIN filters
      PROVE  /\ IsText(filters[i])
             /\ \A j \in DOMAIN filters[i] :
                  IsNamedComparison(NamedLeaf(filters[i][j])) /\ NamedLeaf(filters[i][j]).binds = filters[i][j].binds
  <2>1. PICK filter : filter = filters[i]
    OBVIOUS
  <2>2. filters = query.filters
    <3>1. Len(filters) # 0
      BY <1>4
    <3> QED BY <3>1
  <2>3. filter \in Range(query.filters)
    BY <2>1, <2>2 DEF Range
  <2>4. filter \in Seq(Range(filter)) /\ \A leaf \in Range(filter) : IsComparison(leaf)
    BY <1>2, <2>3
  <2>5. IsText(filter)
    <3> HIDE DEF Range
    <3> QED BY <2>4, SeqIsText
  <2>6. ASSUME NEW j \in DOMAIN filter
        PROVE  IsNamedComparison(NamedLeaf(filter[j])) /\ NamedLeaf(filter[j]).binds = filter[j].binds
    <3>1. PICK leaf : leaf = filter[j]
      OBVIOUS
    <3>2. leaf \in Range(filter)
      BY <3>1 DEF Range
    <3>3. leaf.column \in DOMAIN described
      BY <2>3, <3>2 DEF ComparedColumns
    <3> QED BY <2>4, <3>1, <3>2, <3>3, NamedLeafFacts
  <2> QED BY <2>1, <2>5, <2>6
<1>6. IsText(named) /\ Len(named) = Len(filters) /\ DOMAIN named = DOMAIN filters
  BY <1>4 DEF IsText
<1>7. ASSUME NEW i \in DOMAIN filters PROVE IsNamedFilter(named[i])
  <2>1. named[i] = Named(filters[i])
    OBVIOUS
  <2>2. PICK filter : filter = filters[i]
    OBVIOUS
  <2>3. DOMAIN filter = 1 .. Len(filter) /\ Len(filter) \in Nat
    BY <1>5, <2>2 DEF IsText
  <2>4. IsText(Named(filter)) /\ Len(Named(filter)) = Len(filter)
    BY <2>3 DEF IsText, Named
  <2>5. \A j \in 1 .. Len(Named(filter)) : IsNamedComparison(Named(filter)[j])
    BY <1>5, <2>2, <2>3, <2>4 DEF Named
  <2> QED BY <2>1, <2>2, <2>4, <2>5 DEF IsNamedFilter
<1>8. AreNamedFilters(named)
  BY <1>4, <1>6, <1>7 DEF AreNamedFilters
<1>9. \A i \in DOMAIN filters : \A j \in DOMAIN filters[i] : named[i][j].binds = filters[i][j].binds
  BY <1>5 DEF Named
<1> QED BY <1>3, <1>6, <1>8, <1>9

(* What a unit's statement means, filter by filter. *)
LEMMA MeaningOfScan ==
  ASSUME NEW scn, NEW filters, NEW slice, NEW named, named = [i \in DOMAIN filters |-> Named(filters[i])],
         \A i \in DOMAIN filters : \A j \in DOMAIN filters[i] : named[i][j].binds = filters[i][j].binds
  PROVE  Meaning(scn, filters, slice) = ScanMeaning(input.columns, scn, named, slice)
<1>1. ASSUME NEW i \in DOMAIN filters
      PROVE  FilterText(Named(filters[i]), [j \in DOMAIN filters[i] |-> Operands(filters[i][j].binds)])
             = FilterMeaning(named[i])
  <2>1. DOMAIN named[i] = DOMAIN filters[i] /\ named[i] = Named(filters[i])
    BY DEF Named
  <2>2. [j \in DOMAIN filters[i] |-> Operands(filters[i][j].binds)] = [j \in DOMAIN named[i] |-> Operands(named[i][j].binds)]
    BY <2>1
  <2> QED BY <2>1, <2>2 DEF FilterMeaning
<1>2. DOMAIN named = DOMAIN filters
  OBVIOUS
<1>3. [i \in DOMAIN filters |-> FilterText(Named(filters[i]), [j \in DOMAIN filters[i] |-> Operands(filters[i][j].binds)])]
      = [i \in DOMAIN named |-> FilterMeaning(named[i])]
  BY <1>1, <1>2
<1>4. PICK conditions : conditions = [i \in DOMAIN named |-> FilterMeaning(named[i])]
  OBVIOUS
<1>5. Meaning(scn, filters, slice) =
        (SelectFrom(input.columns) \o (IF scn = NoScn THEN <<>> ELSE AsOf(Literal(scn))))
        \o Where(conditions \o SliceText(slice, Operands(SliceBinds(slice))))
  BY <1>3, <1>4 DEF Meaning, Named
<1> QED BY <1>4, <1>5 DEF ScanMeaning

(* The statement of a unit has the values that were meant for it: Oracle,     *)
(* which binds by position, and EXPLAIN ANALYZE, which goes by number, read   *)
(* the same text, whatever the names hold (BuildScanSql, TranslateFilter,     *)
(* ShiftPlaceholders, InlineBinds).                                           *)
THEOREM UnitsAreReadAsMeant == Spec => []StatementMeansItsParts
<1>1. TypeOK /\ ProjectionInv /\ TextInv => StatementMeansItsParts
  <2> SUFFICES ASSUME TypeOK, ProjectionInv, TextInv, pc = "fetch"
               PROVE  LET pushed == SubSeq(query.filters, 1, Len(input.filters))
                          meaning == Meaning(input.snapshot_scn, pushed, slices[unit])
                      IN /\ Cardinality(Positions(cursor.sql)) = Len(cursor.binds)
                         /\ OracleReads(cursor.sql, cursor.binds) = meaning
                         /\ InlineBinds(cursor) = meaning
    BY DEF StatementMeansItsParts
  <2>1. PICK filters \in {query.filters, <<>>} : input.filters = Pushed(filters)
    BY DEF TextInv, Running
  <2>2. ComparedColumns(query) \subseteq DOMAIN described /\ cursor = BuildScanSql(input, slices[unit]) /\ unit \in DOMAIN slices
    BY DEF TextInv
  <2>3. PICK named : named = [i \in DOMAIN filters |-> Named(filters[i])]
    OBVIOUS
  <2>4. /\ AreNamedFilters(named) /\ IsText(filters) /\ DOMAIN named = DOMAIN filters
        /\ \A i \in DOMAIN filters : \A j \in DOMAIN filters[i] : named[i][j].binds = filters[i][j].binds
    BY <2>2, <2>3, NamedFilters
  <2>5. input.filters = [i \in DOMAIN named |-> TranslateFilter(named[i])]
    BY <2>1, <2>3, <2>4 DEF Pushed, Translated, Named
  <2>6. AreNames(input.columns)
    BY FetchedAreNames DEF ProjectionInv, Running
  <2>7. PICK slice : slice = slices[unit]
    OBVIOUS
  <2>8. slice.kind \in {"none", "range", "hash"}
    <3>1. slices # <<>>
      BY <2>2
    <3>2. PICK work \in Plans : slices = work.slices
      BY <3>1 DEF TypeOK
    <3>3. slice \in Range(work.slices)
      BY <2>2, <2>7, <3>2 DEF Range
    <3> QED BY <3>2, <3>3, TransferAssumption
  <2>9. PICK scn : scn = input.snapshot_scn
    OBVIOUS
  <2>10. PICK meaning : meaning = ScanMeaning(input.columns, scn, named, slice)
    OBVIOUS
  <2>11. Fills(cursor.sql, 0, cursor.binds, meaning)
    BY <2>2, <2>4, <2>5, <2>6, <2>7, <2>8, <2>9, <2>10, ScanFills
  <2>12. Meaning(scn, filters, slice) = meaning
    BY <2>3, <2>4, <2>10, MeaningOfScan
  <2>13. SubSeq(query.filters, 1, Len(input.filters)) = filters
    <3>1. Len(input.filters) = Len(filters) /\ Len(filters) \in Nat
      BY <2>1, <2>4 DEF Pushed, IsText
    <3>2. query.filters \in Seq(Range(query.filters))
      BY TransferAssumption DEF TypeOK
    <3>3. PICK all, S : all = query.filters /\ S = Range(query.filters)
      OBVIOUS
    <3>4. all \in Seq(S)
      BY <3>2, <3>3
    <3>5. SubSeq(all, 1, Len(all)) = all /\ SubSeq(all, 1, 0) = <<>>
      BY <3>4
    <3>6. Len(<<>>) = 0
      OBVIOUS
    <3> QED BY <3>1, <3>3, <3>5, <3>6
  <2>14. Cardinality(Positions(cursor.sql)) = Len(cursor.binds) /\ OracleReads(cursor.sql, cursor.binds) = meaning
    BY <2>11, OracleFills
  <2>15. InlineBinds(cursor) = meaning
    BY <2>11, InlineFills
  <2> QED BY <2>7, <2>9, <2>12, <2>13, <2>14, <2>15
<1>2. IInv => TypeOK /\ ProjectionInv /\ TextInv
  BY DEF IInv
<1> QED BY TransferInvariant, <1>1, <1>2, PTL
=============================================================================
