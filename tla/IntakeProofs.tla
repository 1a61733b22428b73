---------------------------- MODULE IntakeProofs ----------------------------
(***************************************************************************)
(* What the readers of Intake compute, for inputs of any size.  Neither    *)
(* the text scan of a compose file nor the triage is recursive here: each  *)
(* is a set of lines or of CWEs, and of such a set the first.              *)
(***************************************************************************)
EXTENDS Intake, SequenceTheorems, FiniteSetTheorems, WellFoundedInduction, TLAPS

----------------------------------------------------------------------------
(* The first and the last of some numbers *)

Less == {p \in Nat \X Nat : p[1] < p[2]}

\* Some naturals, if there are any, have a least one.
LEMMA HasLeast ==
  ASSUME NEW S, S \subseteq Nat, S # {}
  PROVE  \E x \in S : \A y \in S : x <= y
<1>1. OpToRel(<, Nat) = Less
  BY DEF OpToRel, Less
<1>2. IsWellFoundedOn(Less, Nat)
  BY <1>1, NatLessThanWellFounded
<1>3. PICK x \in S : \A y \in S : <<y, x>> \notin Less
  BY <1>2, WFMin
<1>4. ASSUME NEW y \in S PROVE x <= y
  <2>1. x \in Nat /\ y \in Nat OBVIOUS
  <2>2. <<y, x>> \in Nat \X Nat /\ <<y, x>>[1] = y /\ <<y, x>>[2] = x BY <2>1
  <2>3. ~(y < x) BY <1>3, <2>2 DEF Less
  <2> QED BY <2>1, <2>3
<1> QED
  BY <1>4

\* Some of the numbers up to n have a greatest one: the least distance from n.
LEMMA HasGreatest ==
  ASSUME NEW n \in Nat, NEW S, S \subseteq 0 .. n, S # {}
  PROVE  \E x \in S : \A y \in S : y <= x
<1> DEFINE T == {m \in 0 .. n : n - m \in S}
<1>1. ASSUME NEW y \in S PROVE y \in 0 .. n /\ n - y \in T
  <2>1. y \in 0 .. n /\ n - y \in 0 .. n /\ n - (n - y) = y OBVIOUS
  <2> QED BY <2>1 DEF T
<1>2. T \subseteq Nat /\ T # {}
  <2>1. T \subseteq 0 .. n BY DEF T
  <2>2. PICK y \in S : TRUE OBVIOUS
  <2>3. T # {} BY <2>2, <1>1
  <2> HIDE DEF T
  <2> QED BY <2>1, <2>3
<1>3. PICK m \in T : \A k \in T : m <= k
  BY <1>2, HasLeast
<1>4. m \in 0 .. n /\ n - m \in S
  BY <1>3 DEF T
<1>5. ASSUME NEW y \in S PROVE y <= n - m
  <2>1. y \in 0 .. n /\ m <= n - y BY <1>1, <1>3
  <2> QED BY <2>1, <1>4
<1> QED BY <1>4, <1>5

\* Min is the least of a set of naturals.
LEMMA MinOf ==
  ASSUME NEW S, S \subseteq Nat, S # {}
  PROVE  Min(S) \in S /\ \A y \in S : Min(S) <= y
BY HasLeast DEF Min

\* Max is the greatest of a bounded set of naturals.
LEMMA MaxOf ==
  ASSUME NEW n \in Nat, NEW S, S \subseteq 0 .. n, S # {}
  PROVE  Max(S) \in S /\ \A y \in S : y <= Max(S)
BY HasGreatest DEF Max

----------------------------------------------------------------------------
(* The compose file *)

Lines == Seq([indent : Nat, name : STRING, form : STRING])

LEMMA LineType ==
  ASSUME NEW lines \in Lines, NEW k \in 1 .. Len(lines)
  PROVE  Len(lines) \in Nat /\ lines[k].indent \in Nat
<1>1. lines[k] \in [indent : Nat, name : STRING, form : STRING]
  BY ElementOfSeq DEF Lines
<1> QED BY <1>1, LenProperties DEF Lines

\* The parent of a line is the nearest line before it that is less indented, if any.
LEMMA ParentIs ==
  ASSUME NEW lines \in Lines, NEW j \in 1 .. Len(lines)
  PROVE  /\ Parent(lines, j) \in 0 .. j - 1
         /\ Parent(lines, j) # 0 => lines[Parent(lines, j)].indent < lines[j].indent
         /\ \A k \in Parent(lines, j) + 1 .. j - 1 : lines[k].indent >= lines[j].indent
<1> DEFINE S == {0} \union {i \in 1 .. j - 1 : lines[i].indent < lines[j].indent}
<1>1. Parent(lines, j) = Max(S)
  BY DEF Parent
<1>2. j - 1 \in Nat /\ S \subseteq 0 .. j - 1 /\ S # {}
  BY DEF Lines
<1>3. Max(S) \in S /\ \A i \in S : i <= Max(S)
  BY <1>2, MaxOf
<1>4. \A k \in 1 .. Len(lines) : lines[k].indent \in Nat
  BY LineType
<1>5. ASSUME NEW k \in Max(S) + 1 .. j - 1 PROVE lines[k].indent >= lines[j].indent
  <2>1. k \in 1 .. j - 1 /\ k \notin S BY <1>2, <1>3
  <2> QED BY <2>1, <1>4
<1> HIDE DEF S
<1> QED
  BY <1>1, <1>2, <1>3, <1>5 DEF S

\* Where the code and YAML look for "services:".
LEMMA ServicesLineIs ==
  ASSUME NEW lines \in Lines
  PROVE  /\ ServicesLine(lines) # 0 =>
              /\ ServicesLine(lines) \in 1 .. Len(lines)
              /\ lines[ServicesLine(lines)].name = "services"
              /\ lines[ServicesLine(lines)].form = "block"
         /\ ServicesLine(lines) = 0 =>
              \A i \in 1 .. Len(lines) : ~(lines[i].name = "services" /\ lines[i].form = "block")
<1> DEFINE I == {i \in 1 .. Len(lines) : lines[i].name = "services" /\ lines[i].form = "block"}
<1>1. ServicesLine(lines) = IF I # {} THEN Min(I) ELSE 0
  BY DEF ServicesLine, SelectInSeq
<1>2. I \subseteq Nat
  OBVIOUS
<1>3. I # {} => Min(I) \in I
  BY <1>2, MinOf
<1>4. \A i \in I : i \in 1 .. Len(lines) /\ lines[i].name = "services" /\ lines[i].form = "block"
  OBVIOUS
<1>5. \A i \in 1 .. Len(lines) :
         lines[i].name = "services" /\ lines[i].form = "block" => i \in I
  OBVIOUS
<1> HIDE DEF I
<1> QED BY <1>1, <1>3, <1>4, <1>5

LEMMA TopServicesIs ==
  ASSUME NEW lines \in Lines
  PROVE  TopServices(lines) # 0 =>
           /\ TopServices(lines) \in 1 .. Len(lines)
           /\ lines[TopServices(lines)].name = "services"
           /\ lines[TopServices(lines)].indent = 0
<1> DEFINE I == {i \in 1 .. Len(lines) : lines[i].name = "services" /\ lines[i].indent = 0}
<1>1. TopServices(lines) = IF I # {} THEN Min(I) ELSE 0
  BY DEF TopServices, SelectInSeq
<1>2. I \subseteq Nat
  OBVIOUS
<1>3. I # {} => Min(I) \in I
  BY <1>2, MinOf
<1>4. \A i \in I : i \in 1 .. Len(lines) /\ lines[i].name = "services" /\ lines[i].indent = 0
  OBVIOUS
<1> HIDE DEF I
<1> QED BY <1>1, <1>3, <1>4

\* In a plain file both find the same line.
LEMMA SameServicesLine ==
  ASSUME NEW lines \in Lines, PlainCompose(lines)
  PROVE  ServicesLine(lines) = TopServices(lines)
<1>1. CASE ServicesLine(lines) # 0
  BY <1>1, ServicesLineIs DEF PlainCompose
<1>2. CASE ServicesLine(lines) = 0
  <2>1. TopServices(lines) # 0 => lines[TopServices(lines)].form = "block"
    BY TopServicesIs DEF PlainCompose
  <2> QED BY <1>2, <2>1, ServicesLineIs, TopServicesIs
<1> QED BY <1>1, <1>2

\* What belongs to a key at the left margin lies below it.
LEMMA ChildrenLieBelow ==
  ASSUME NEW lines \in Lines, NEW t \in 1 .. Len(lines), lines[t].indent = 0,
         NEW k \in 1 .. Len(lines), Parent(lines, k) = t
  PROVE  k \in Below(lines, t)
<1>1. /\ t \in 0 .. k - 1 /\ lines[t].indent < lines[k].indent
      /\ \A m \in t + 1 .. k - 1 : lines[m].indent >= lines[k].indent
  BY ParentIs
<1>2. Len(lines) \in Nat /\ \A m \in 1 .. Len(lines) : lines[m].indent \in Nat
  BY LineType
<1>3. ASSUME NEW m \in t + 1 .. k PROVE lines[m].indent > lines[t].indent
  <2>1. m \in 1 .. Len(lines) BY <1>2
  <2>2. m = k \/ m \in t + 1 .. k - 1 OBVIOUS
  <2> QED BY <1>1, <1>2, <2>1, <2>2
<1> QED BY <1>1, <1>2, <1>3 DEF Below

\* The line after such a key, when it is deeper, belongs to the key.
LEMMA FirstBelowIsChild ==
  ASSUME NEW lines \in Lines, NEW t \in 1 .. Len(lines), lines[t].indent = 0,
         Below(lines, t) # {}
  PROVE  t + 1 \in Below(lines, t) /\ Parent(lines, t + 1) = t
<1>1. PICK k \in Below(lines, t) : TRUE
  OBVIOUS
<1>2. Len(lines) \in Nat /\ \A m \in 1 .. Len(lines) : lines[m].indent \in Nat
  BY LineType
<1>3. k \in t + 1 .. Len(lines) /\ \A m \in t + 1 .. k : lines[m].indent > lines[t].indent
  BY <1>1 DEF Below
<1>4. t + 1 \in 1 .. Len(lines) /\ lines[t + 1].indent > 0
  BY <1>2, <1>3
<1>5. t + 1 \in Below(lines, t)
  BY <1>2, <1>3, <1>4 DEF Below
<1>6. /\ Parent(lines, t + 1) \in 0 .. t
      /\ \A m \in Parent(lines, t + 1) + 1 .. t : lines[m].indent >= lines[t + 1].indent
  BY <1>4, ParentIs
<1>7. ASSUME Parent(lines, t + 1) # t PROVE FALSE
  <2>1. t \in Parent(lines, t + 1) + 1 .. t BY <1>6, <1>7
  <2> QED BY <1>2, <1>4, <1>6, <2>1
<1> QED BY <1>5, <1>7

\* Nothing between a key at the left margin and what lies below it is its parent, other
\* than the key, or is deeper than the key.
LEMMA ParentsLieBelow ==
  ASSUME NEW lines \in Lines, NEW t \in 1 .. Len(lines), lines[t].indent = 0,
         NEW k \in Below(lines, t)
  PROVE  /\ k \in 1 .. Len(lines) /\ t < k
         /\ Parent(lines, k) = t \/ (/\ Parent(lines, k) \in t + 1 .. k - 1
                                     /\ Parent(lines, k) \in Below(lines, t)
                                     /\ lines[Parent(lines, k)].indent < lines[k].indent)
<1>1. Len(lines) \in Nat /\ \A m \in 1 .. Len(lines) : lines[m].indent \in Nat
  BY LineType
<1>2. k \in t + 1 .. Len(lines) /\ \A m \in t + 1 .. k : lines[m].indent > lines[t].indent
  BY DEF Below
<1>3. k \in 1 .. Len(lines) /\ t < k
  BY <1>1, <1>2
<1>4. /\ Parent(lines, k) \in 0 .. k - 1
      /\ Parent(lines, k) # 0 => lines[Parent(lines, k)].indent < lines[k].indent
      /\ \A m \in Parent(lines, k) + 1 .. k - 1 : lines[m].indent >= lines[k].indent
  BY <1>3, ParentIs
<1>5. ~(Parent(lines, k) < t)
  <2> SUFFICES ASSUME Parent(lines, k) < t PROVE FALSE OBVIOUS
  <2>1. t \in Parent(lines, k) + 1 .. k - 1 BY <1>3, <1>4
  <2>2. lines[t].indent >= lines[k].indent BY <1>4, <2>1
  <2>3. lines[k].indent > lines[t].indent BY <1>2
  <2> QED BY <1>1, <1>3, <2>2, <2>3
<1>6. CASE Parent(lines, k) # t
  <2>1. Parent(lines, k) \in t + 1 .. k - 1 BY <1>4, <1>5, <1>6
  <2>2. Parent(lines, k) \in Below(lines, t) BY <1>1, <1>2, <2>1 DEF Below
  <2> QED BY <1>3, <1>4, <2>1, <2>2
<1> QED BY <1>3, <1>6

\* Below a key at the left margin, what has the indentation of the first line there
\* belongs to the key: else the first line that is less deep would, and could not.
LEMMA SameIndentIsChild ==
  ASSUME NEW lines \in Lines, Aligned(lines),
         NEW t \in 1 .. Len(lines), lines[t].indent = 0,
         NEW k \in Below(lines, t), lines[k].indent = lines[t + 1].indent
  PROVE  Parent(lines, k) = t
<1>1. Len(lines) \in Nat /\ \A m \in 1 .. Len(lines) : lines[m].indent \in Nat
  BY LineType
<1>2. t + 1 \in 1 .. Len(lines) /\ Parent(lines, t + 1) = t
  BY FirstBelowIsChild, ParentsLieBelow
<1>3. SUFFICES ASSUME Parent(lines, k) # t PROVE FALSE
  OBVIOUS
<1> DEFINE S == {m \in Below(lines, t) : lines[m].indent < lines[t + 1].indent}
<1>4. Parent(lines, k) \in S
  BY <1>3, ParentsLieBelow
<1>5. S \subseteq Nat
  BY <1>1 DEF Below
<1>6. Min(S) \in S /\ \A m \in S : Min(S) <= m
  BY <1>4, <1>5, MinOf
<1>7. PICK m \in S : \A n \in S : m <= n
  BY <1>6
<1>8. m \in Below(lines, t) /\ lines[m].indent < lines[t + 1].indent /\ m \in 1 .. Len(lines)
  BY <1>7, ParentsLieBelow
<1>9. CASE Parent(lines, m) = t
  BY <1>1, <1>2, <1>8, <1>9 DEF Aligned
<1>10. CASE Parent(lines, m) # t
  <2>1. /\ Parent(lines, m) \in t + 1 .. m - 1 /\ Parent(lines, m) \in Below(lines, t)
        /\ lines[Parent(lines, m)].indent < lines[m].indent
    BY <1>8, <1>10, ParentsLieBelow
  <2>2. Parent(lines, m) \in 1 .. Len(lines) BY <2>1, ParentsLieBelow
  <2>3. Parent(lines, m) \in S BY <1>1, <1>2, <1>8, <2>1, <2>2
  <2> QED BY <1>7, <1>8, <2>1, <2>3
<1> QED BY <1>9, <1>10

\* The text scan finds what YAML means by the services of a compose file, for every file
\* that gives each service a block of its own (_extract_compose_service_names).
THEOREM ServicesFound ==
  ASSUME NEW lines \in Lines, Aligned(lines), PlainCompose(lines)
  PROVE  ComposeServiceNames(lines) = Declared(lines)
<1> DEFINE t == TopServices(lines)
           keys == {j \in Below(lines, t) : lines[j].form = "block"}
           kids == {k \in 1 .. Len(lines) : Parent(lines, k) = t}
<1>1. ServicesLine(lines) = t
  BY SameServicesLine
<1>2. CASE t = 0
  BY <1>1, <1>2 DEF ComposeServiceNames, Declared
<1>3. CASE t # 0
  <2>1. t \in 1 .. Len(lines) /\ lines[t].indent = 0
    BY <1>3, TopServicesIs
  <2>2. Declared(lines) = {lines[j].name : j \in kids}
    BY <1>3 DEF Declared
  <2>3. \A k \in kids : k \in keys
    <3> TAKE k \in kids
    <3>1. k \in Below(lines, t) BY <2>1, ChildrenLieBelow
    <3>2. lines[k].form = "block" BY DEF PlainCompose
    <3> QED BY <3>1, <3>2
  <2>4. CASE Below(lines, t) = {}
    <3>1. keys = {} /\ kids = {} BY <2>3, <2>4
    <3>2. Declared(lines) = {} BY <2>2, <3>1
    <3> QED BY <1>1, <3>1, <3>2 DEF ComposeServiceNames
  <2>5. CASE Below(lines, t) # {}
    <3>1. t + 1 \in Below(lines, t) /\ Parent(lines, t + 1) = t
      BY <2>1, <2>5, FirstBelowIsChild
    <3>2. t + 1 \in kids /\ t + 1 \in keys
      BY <2>1, <2>3, <3>1, ParentsLieBelow
    <3>3. keys \subseteq Nat /\ \A k \in keys : t + 1 <= k
      BY <2>1, LineType DEF Below
    <3>4. Min(keys) = t + 1
      <4>1. Min(keys) \in keys /\ Min(keys) <= t + 1 BY <3>2, <3>3, MinOf
      <4> QED BY <2>1, <3>3, <4>1
    <3>5. {k \in keys : lines[k].indent = lines[Min(keys)].indent} = kids
      <4>1. ASSUME NEW k \in keys, lines[k].indent = lines[t + 1].indent PROVE k \in kids
        BY <2>1, <4>1, SameIndentIsChild, ParentsLieBelow
      <4>2. ASSUME NEW k \in kids PROVE lines[k].indent = lines[t + 1].indent
        BY <3>2 DEF Aligned
      <4> HIDE DEF keys, kids
      <4> QED BY <2>3, <3>4, <4>1, <4>2
    <3>6. ComposeServiceNames(lines) = {lines[j].name : j \in kids}
      BY <1>1, <1>3, <3>2, <3>5 DEF ComposeServiceNames
    <3> QED BY <2>2, <3>6
  <2> QED BY <2>4, <2>5
<1> QED BY <1>2, <1>3

\* The services are finitely many.
LEMMA NamesAreFinite ==
  ASSUME NEW lines \in Lines
  PROVE  IsFiniteSet(ComposeServiceNames(lines))
<1>1. Len(lines) \in Nat
  BY LenProperties DEF Lines
<1> DEFINE i == ServicesLine(lines)
           keys == {j \in Below(lines, i) : lines[j].form = "block"}
           named == {k \in keys : lines[k].indent = lines[Min(keys)].indent}
<1>2. named \subseteq i + 1 .. Len(lines)
  BY DEF Below
<1>3. i \in Nat
  BY <1>1, ServicesLineIs
<1> HIDE DEF i, keys, named
<1>4. IsFiniteSet(named)
  <2>1. i + 1 \in Int /\ Len(lines) \in Int BY <1>1, <1>3
  <2>2. IsFiniteSet(i + 1 .. Len(lines)) BY <2>1, FS_Interval
  <2> QED BY <1>2, <2>2, FS_Subset
<1>5. IsFiniteSet({lines[j].name : j \in named})
  <2> DEFINE T == {lines[j].name : j \in named}
             f == [j \in named |-> lines[j].name]
  <2>1. f \in Surjection(named, T)
    BY DEF Surjection
  <2> HIDE DEF T, f
  <2>2. IsFiniteSet(T) BY <1>4, <2>1, FS_Surjection
  <2> QED BY <2>2 DEF T
<1> QED BY <1>5, FS_EmptySet DEF ComposeServiceNames, i, keys, named

----------------------------------------------------------------------------
(* Triage *)

\* Only a finding none of whose CWEs the table makes static is verifiable, wherever in
\* the list it has them, and no rule that is out of scope (classify).
THEOREM TriageIsConservative ==
  ASSUME NEW table, NEW f, Classify(table, f) = "DYNAMICALLY_VERIFIABLE"
  PROVE  /\ f.rule \notin OutOfScope
         /\ \A i \in DOMAIN f.cwe :
              f.cwe[i] \in DOMAIN table => table[f.cwe[i]] # "STATIC_ONLY"
BY DEF Classify, MappedCwes

=============================================================================
