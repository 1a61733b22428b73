---------------------------- MODULE ReportProofs ----------------------------
(***************************************************************************)
(* What a report lists, for any number of findings: the positions of a     *)
(* loop can be put in ascending order, and what a position is numbered     *)
(* with there is the number of those before it.                            *)
(***************************************************************************)
EXTENDS Reports, IntakeProofs

Increasing(order) == \A j, k \in DOMAIN order : j < k => order[j] < order[k]

----------------------------------------------------------------------------
(* Ascending *)

\* How many numbers of S are no greater than one of them tells their order.
LEMMA RanksAre ==
  ASSUME NEW S \in SUBSET Nat, IsFiniteSet(S), NEW rank,
         rank = [x \in S |-> Cardinality({y \in S : y <= x})]
  PROVE  /\ rank \in Surjection(S, 1 .. Cardinality(S))
         /\ \A x, z \in S : x < z => rank[x] < rank[z]
<1>1. Cardinality(S) \in Nat
  BY FS_CardinalityType
<1>2. ASSUME NEW x \in S PROVE rank[x] \in 1 .. Cardinality(S)
  <2> DEFINE T == {y \in S : y <= x}
  <2>1. T \in SUBSET S /\ x \in T OBVIOUS
  <2> HIDE DEF T
  <2>2. IsFiniteSet(T) /\ Cardinality(T) <= Cardinality(S) BY <2>1, FS_Subset
  <2>3. Cardinality(T) \in Nat /\ Cardinality(T) # 0
    BY <2>1, <2>2, FS_CardinalityType, FS_EmptySet
  <2>4. rank[x] = Cardinality(T) BY DEF T
  <2> QED BY <1>1, <2>2, <2>3, <2>4
<1>3. ASSUME NEW x \in S, NEW z \in S, x < z PROVE rank[x] < rank[z]
  <2> DEFINE T == {y \in S : y <= x}
             U == {y \in S : y <= z}
  <2>1. U \in SUBSET S /\ T \in SUBSET U /\ z \in U /\ z \notin T
    <3>1. \A y \in S : y <= x => y <= z BY <1>3
    <3>2. x \in Nat /\ z \in Nat /\ z <= z /\ ~(z <= x) BY <1>3
    <3> QED BY <3>1, <3>2
  <2>2. rank[x] = Cardinality(T) /\ rank[z] = Cardinality(U) OBVIOUS
  <2> HIDE DEF T, U
  <2>3. IsFiniteSet(U) BY <2>1, FS_Subset
  <2>4. IsFiniteSet(T) /\ Cardinality(T) <= Cardinality(U) /\ Cardinality(T) # Cardinality(U)
    BY <2>1, <2>3, FS_Subset
  <2>5. Cardinality(T) \in Nat /\ Cardinality(U) \in Nat
    BY <2>3, <2>4, FS_CardinalityType
  <2> QED BY <2>2, <2>4, <2>5
<1>4. rank \in Injection(S, 1 .. Cardinality(S))
  <2>1. rank \in [S -> 1 .. Cardinality(S)] BY <1>2
  <2>2. ASSUME NEW x \in S, NEW z \in S, rank[x] = rank[z] PROVE x = z
    <3>1. x \in Nat /\ z \in Nat /\ rank[x] \in Nat /\ rank[z] \in Nat BY <1>1, <1>2
    <3>2. ~(x < z) /\ ~(z < x) BY <1>3, <2>2, <3>1
    <3> QED BY <3>1, <3>2
  <2> QED BY <2>1, <2>2 DEF Injection, IsInjective
<1>5. IsFiniteSet(1 .. Cardinality(S)) /\ Cardinality(1 .. Cardinality(S)) = Cardinality(S)
  BY <1>1, FS_Interval
<1> QED BY <1>3, <1>4, <1>5, FS_Injection

\* Finitely many numbers can be put in ascending order.
LEMMA HasOrder ==
  ASSUME NEW S \in SUBSET Nat, IsFiniteSet(S)
  PROVE  \E order \in SetToSeqs(S) : Increasing(order)
<1> DEFINE n == Cardinality(S)
           rank == [x \in S |-> Cardinality({y \in S : y <= x})]
           order == [k \in 1 .. n |-> CHOOSE x \in S : rank[x] = k]
<1>1. rank \in Surjection(S, 1 .. n) /\ \A x, z \in S : x < z => rank[x] < rank[z]
  BY RanksAre
<1> HIDE DEF rank
<1>2. \A k \in 1 .. n : order[k] \in S /\ rank[order[k]] = k
  BY <1>1 DEF Surjection
<1>3. order \in [1 .. n -> S] /\ \A j, k \in 1 .. n : j # k => order[j] # order[k]
  BY <1>2
<1> HIDE DEF order
<1>4. ASSUME NEW j \in 1 .. n, NEW k \in 1 .. n, j < k PROVE order[j] < order[k]
  <2>1. n \in Nat BY FS_CardinalityType
  <2>2. order[j] \in Nat /\ order[k] \in Nat BY <1>2
  <2>3. CASE order[k] < order[j]
    <3>1. rank[order[k]] < rank[order[j]]
      <4>1. order[k] \in S /\ order[j] \in S BY <1>2
      <4> QED BY <1>1, <2>3, <4>1
    <3>2. rank[order[k]] = k /\ rank[order[j]] = j BY <1>2
    <3>3. k < j BY <3>1, <3>2
    <3> QED BY <1>4, <2>1, <3>3
  <2>4. order[j] # order[k] BY <1>3, <1>4, <2>1
  <2> QED BY <2>2, <2>3, <2>4
<1>5. DOMAIN order = 1 .. n BY <1>3
<1>6. order \in SetToSeqs(S) BY <1>3 DEF SetToSeqs
<1>7. Increasing(order) BY <1>4, <1>5 DEF Increasing
<1> QED BY <1>6, <1>7

\* Ascending lists each position once, and as many before it as are less.
LEMMA AscendingIs ==
  ASSUME NEW S \in SUBSET Nat, IsFiniteSet(S)
  PROVE  /\ DOMAIN Ascending(S) = 1 .. Cardinality(S)
         /\ \A n \in DOMAIN Ascending(S) : Ascending(S)[n] \in S
         /\ \A j, k \in DOMAIN Ascending(S) : Ascending(S)[j] = Ascending(S)[k] => j = k
         /\ \A x \in S : \E n \in DOMAIN Ascending(S) : Ascending(S)[n] = x
         /\ \A n \in DOMAIN Ascending(S) :
              Cardinality({y \in S : y < Ascending(S)[n]}) = n - 1
<1>1. PICK order \in SetToSeqs(S) : Increasing(order) /\ order = Ascending(S)
  <2>1. Ascending(S) = CHOOSE order \in SetToSeqs(S) : Increasing(order)
    BY DEF Ascending, Increasing
  <2> QED BY <2>1, HasOrder
<1>2. Cardinality(S) \in Nat
  BY FS_CardinalityType
<1>3. order \in [1 .. Cardinality(S) -> S]
      /\ \A j, k \in 1 .. Cardinality(S) : order[j] = order[k] => j = k
  BY <1>1 DEF SetToSeqs
<1>4. order \in Surjection(1 .. Cardinality(S), S)
  <2>1. order \in Injection(1 .. Cardinality(S), S)
    BY <1>3 DEF Injection, IsInjective
  <2>2. Cardinality(1 .. Cardinality(S)) = Cardinality(S)
    BY <1>2, FS_Interval
  <2> QED BY <2>1, <2>2, FS_Injection
<1>5. \A x \in S : \E n \in 1 .. Cardinality(S) : order[n] = x
  BY <1>4 DEF Surjection
<1>6. ASSUME NEW n \in 1 .. Cardinality(S)
      PROVE  Cardinality({y \in S : y < order[n]}) = n - 1
  <2> DEFINE T == {y \in S : y < order[n]}
             f == [k \in 1 .. n - 1 |-> order[k]]
  <2>1. n - 1 \in Nat /\ n \in Nat /\ \A k \in 1 .. n - 1 : k \in 1 .. Cardinality(S) /\ k < n
    BY <1>2
  <2>2. \A k \in 1 .. n - 1 : f[k] \in T
    BY <1>1, <1>3, <2>1 DEF Increasing
  <2>3. ASSUME NEW y \in T PROVE \E k \in 1 .. n - 1 : f[k] = y
    <3>1. PICK k \in 1 .. Cardinality(S) : order[k] = y BY <1>5
    <3>2. /\ k \in Nat /\ order[k] \in Nat /\ order[n] \in Nat
          /\ order[k] < order[n]
      <4>1. order[n] \in S /\ order[k] \in S BY <1>3
      <4>2. y < order[n] OBVIOUS
      <4>3. order[k] < order[n] BY <3>1, <4>2
      <4>4. k \in Nat BY <1>2
      <4> HIDE DEF T
      <4> QED BY <4>1, <4>3, <4>4
    <3>3. k # n BY <3>2
    <3>4. ~(n < k)
      <4>1. n < k => order[n] < order[k] BY <1>1, <1>3 DEF Increasing
      <4> QED BY <3>2, <4>1
    <3> QED BY <2>1, <3>1, <3>2, <3>3, <3>4
  <2>4. f \in Bijection(1 .. n - 1, T)
    <3>1. f \in [1 .. n - 1 -> T] BY <2>2
    <3>2. f \in Injection(1 .. n - 1, T)
      <4>1. ASSUME NEW j \in 1 .. n - 1, NEW k \in 1 .. n - 1, f[j] = f[k] PROVE j = k
        BY <1>3, <2>1, <4>1
      <4> HIDE DEF f
      <4> QED BY <3>1, <4>1 DEF Injection, IsInjective
    <3>3. f \in Surjection(1 .. n - 1, T) BY <2>3, <3>1 DEF Surjection
    <3> QED BY <3>2, <3>3 DEF Bijection
  <2> HIDE DEF T, f
  <2>5. ExistsBijection(1 .. n - 1, T) BY <2>4 DEF ExistsBijection
  <2>6. Cardinality(T) = n - 1 BY <2>1, <2>5, FS_CountingElements
  <2> QED BY <2>6 DEF T
<1> QED BY <1>1, <1>3, <1>5, <1>6

----------------------------------------------------------------------------
(* What is listed *)

LEMMA PositionsAre ==
  ASSUME NEW findings, NEW len \in Nat, DOMAIN findings = 1 .. len,
         NEW S \in SUBSET DOMAIN findings
  PROVE  /\ S \in SUBSET Nat /\ IsFiniteSet(S)
         /\ DOMAIN At(findings, S) = DOMAIN Ascending(S)
         /\ \A n \in DOMAIN Ascending(S) : At(findings, S)[n] = findings[Ascending(S)[n]]
<1>1. IsFiniteSet(1 .. len)
  BY FS_Interval
<1>2. IsFiniteSet(S)
  BY <1>1, FS_Subset
<1> QED BY <1>2 DEF At

\* A result carries the index at which the rules have its own (ReportBuilder._build_sarif).
LEMMA RuleIndexIs ==
  ASSUME NEW findings, NEW len \in Nat, DOMAIN findings = 1 .. len, NEW i \in DOMAIN findings
  PROVE  \E n \in DOMAIN SarifRules(findings) :
           /\ n = RuleIndex(findings, i) + 1
           /\ SarifRules(findings)[n] = findings[i].rule
<1> DEFINE same == {j \in DOMAIN findings : findings[j].rule = findings[i].rule}
           S == FirstOfItsRule(findings)
<1>1. Min(same) \in same /\ \A j \in same : Min(same) <= j
  <2>1. same \subseteq Nat /\ same # {} OBVIOUS
  <2> HIDE DEF same
  <2> QED BY <2>1, MinOf
<1>2. Min(same) \in S
  <2>1. Min(same) \in 1 .. len /\ findings[Min(same)].rule = findings[i].rule BY <1>1
  <2>2. ASSUME NEW j \in 1 .. Min(same) - 1 PROVE findings[j].rule # findings[Min(same)].rule
    <3>1. j \in DOMAIN findings /\ j \in Nat /\ ~(Min(same) <= j) BY <2>1
    <3>2. j \notin same BY <1>1, <3>1
    <3> QED BY <2>1, <3>1, <3>2
  <2> QED BY <2>1, <2>2 DEF FirstOfItsRule
<1>3. S \in SUBSET DOMAIN findings
  BY DEF FirstOfItsRule
<1>4. RuleIndex(findings, i) = Cardinality({j \in S : j < Min(same)})
  BY DEF RuleIndex
<1>5. findings[Min(same)].rule = findings[i].rule
  BY <1>1
<1> HIDE DEF same, S
<1>6. PICK n \in DOMAIN Ascending(S) : Ascending(S)[n] = Min(same)
  BY <1>2, <1>3, PositionsAre, AscendingIs
<1>7. Cardinality({j \in S : j < Min(same)}) = n - 1 /\ n \in Int
  <2>1. S \in SUBSET Nat /\ IsFiniteSet(S) BY <1>3, PositionsAre
  <2>2. Cardinality(S) \in Nat BY <2>1, FS_CardinalityType
  <2> QED BY <1>6, <2>1, <2>2, AscendingIs
<1>8. n \in DOMAIN SarifRules(findings) /\ SarifRules(findings)[n] = findings[i].rule
  <2>1. n \in DOMAIN At(findings, S) /\ At(findings, S)[n] = findings[Min(same)]
    BY <1>3, <1>6, PositionsAre
  <2> QED BY <1>5, <2>1 DEF SarifRules, S
<1>9. n = RuleIndex(findings, i) + 1
  <2> HIDE DEF S
  <2> QED BY <1>4, <1>7
<1> QED BY <1>8, <1>9

\* A finding is listed once, in the group of its heading (ReportBuilder._build_markdown).
LEMMA GroupsAre ==
  ASSUME NEW findings, NEW len \in Nat, DOMAIN findings = 1 .. len,
         \A j, k \in DOMAIN findings : findings[j] = findings[k] => j = k,
         NEW i \in DOMAIN findings, NEW groups, groups = MarkdownGroups(findings)
  PROVE  \E h \in DOMAIN groups : \E n \in DOMAIN groups[h] :
           \A g \in DOMAIN groups : \A m \in DOMAIN groups[g] :
             groups[g][m] = findings[i] <=> g = h /\ m = n
<1> DEFINE S(g) == {j \in DOMAIN findings : Heading(findings[j]) = g}
           h == Heading(findings[i])
<1>1. /\ h \in DOMAIN groups
      /\ \A g \in DOMAIN groups : groups[g] = At(findings, S(g))
  BY DEF MarkdownGroups
<1>2. i \in S(h) /\ \A g : S(g) \in SUBSET DOMAIN findings
  OBVIOUS
<1>3. ASSUME NEW g \in DOMAIN groups
      PROVE  /\ DOMAIN groups[g] = DOMAIN Ascending(S(g))
             /\ \A m \in DOMAIN groups[g] : /\ Ascending(S(g))[m] \in S(g)
                                            /\ groups[g][m] = findings[Ascending(S(g))[m]]
             /\ \A m, k \in DOMAIN groups[g] :
                  Ascending(S(g))[m] = Ascending(S(g))[k] => m = k
             /\ \A x \in S(g) : \E m \in DOMAIN groups[g] : Ascending(S(g))[m] = x
  <2> DEFINE T == S(g)
  <2>1. T \in SUBSET DOMAIN findings /\ groups[g] = At(findings, T) BY <1>1
  <2> HIDE DEF T
  <2>2. /\ T \in SUBSET Nat /\ IsFiniteSet(T)
        /\ DOMAIN At(findings, T) = DOMAIN Ascending(T)
        /\ \A m \in DOMAIN Ascending(T) : At(findings, T)[m] = findings[Ascending(T)[m]]
    BY <2>1, PositionsAre
  <2>3. /\ \A m \in DOMAIN Ascending(T) : Ascending(T)[m] \in T
        /\ \A m, k \in DOMAIN Ascending(T) : Ascending(T)[m] = Ascending(T)[k] => m = k
        /\ \A x \in T : \E m \in DOMAIN Ascending(T) : Ascending(T)[m] = x
    BY <2>2, AscendingIs
  <2> QED BY <2>1, <2>2, <2>3 DEF T
<1>4. PICK n \in DOMAIN groups[h] : Ascending(S(h))[n] = i
  BY <1>1, <1>2, <1>3
<1>5. ASSUME NEW g \in DOMAIN groups, NEW m \in DOMAIN groups[g], groups[g][m] = findings[i]
      PROVE  g = h /\ m = n
  <2>1. Ascending(S(g))[m] \in S(g) /\ findings[Ascending(S(g))[m]] = findings[i]
    BY <1>3, <1>5
  <2>2. Ascending(S(g))[m] \in DOMAIN findings /\ Heading(findings[Ascending(S(g))[m]]) = g
    BY <2>1
  <2>3. Ascending(S(g))[m] = i BY <2>1, <2>2
  <2>4. g = h BY <2>2, <2>3
  <2> QED BY <1>3, <1>4, <2>3, <2>4
<1>6. groups[h][n] = findings[i]
  BY <1>1, <1>3, <1>4
<1> QED BY <1>1, <1>4, <1>5, <1>6

=============================================================================
