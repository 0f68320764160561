------------------------ MODULE MapStoreSummaryNames ------------------------
(***************************************************************************)
(* For any folders and names: what the operators of MapStoreSummary do.    *)
(*                                                                         *)
(* The recursive functions (the ancestors of a folder, its full name, the  *)
(* loops over folders) exist and unfold as they are written; each fact is  *)
(* proved by the least natural number for which it could fail.  From that: *)
(* without a cycle the parents of a folder come to an end, and its full    *)
(* name is that of its parent with its own name after it; a change of one  *)
(* folder changes the full names of the folders under it and of no other,  *)
(* and none of the new names is one that another folder had.  So the loop  *)
(* over the subfolders may come to them in any order, and the two hash     *)
(* tables stay inverse to one another all the way.                         *)
(***************************************************************************)
EXTENDS MapStoreSummary, FiniteSetTheorems, SequenceTheorems,
        WellFoundedInduction, TLAPS

\* The number of folder ids bounds the length of every chain of parents.
MaxDepth == Cardinality(Ids)

\* The bound is a number, as there are finitely many folder ids.
LEMMA DepthIsNat == MaxDepth \in Nat
BY IdsAreFinite, FS_CardinalityType DEF MaxDepth

\* A set of natural numbers has a least one: what the proofs by induction below
\* come down to.
LEMMA LeastOf ==
  ASSUME NEW S, S \subseteq Nat, S # {}
  PROVE  \E x \in S : \A y \in S : x <= y
<1> DEFINE less == OpToRel(<, Nat)
<1>1. \A x, y \in Nat : <<y, x>> \in less <=> y < x
    BY DEF OpToRel
<1>2. IsWellFoundedOn(less, Nat)
    BY NatLessThanWellFounded
<1> HIDE DEF less
<1>3. PICK x \in S : \A y \in S : ~ (<<y, x>> \in less)
    BY <1>2, WFMin
<1>4. \A y \in S : x \in Nat /\ y \in Nat /\ ~ (y < x)
    BY <1>1, <1>3
<1>5. \A y \in S : x <= y
    BY <1>4
<1> QED
    BY <1>3, <1>5

----------------------------------------------------------------------------
(* The recursive functions of the model and what they satisfy.             *)

\* up of Ancestors: the n-th parents of i, one or none.
Ups(groups, i) ==
    LET up[n \in 0..Cardinality(Ids)] ==
            IF n = 0 THEN {i}
            ELSE {ParentOf(groups, j) : j \in up[n - 1]} \ {NoId}
    IN up

\* f has the parents of i up to the m-th.
UpsTo(groups, i, m, f) ==
    f = [n \in 0..m |->
            IF n = 0 THEN {i}
            ELSE {ParentOf(groups, j) : j \in f[n - 1]} \ {NoId}]

\* Ancestors is what up gives for the first parents, the second ones and so on.
LEMMA AncestorsAre ==
  ASSUME NEW groups, NEW i
  PROVE  Ancestors(groups, i) = UNION {Ups(groups, i)[n] : n \in 1..MaxDepth}
BY DEF Ancestors, Ups, MaxDepth

\* The recursion that looks for the parents has a result.
LEMMA UpsExist ==
  ASSUME NEW groups, NEW i, NEW m \in Nat
  PROVE  \E f : UpsTo(groups, i, m, f)
<1> DEFINE Bad == {k \in Nat : ~ \E f : UpsTo(groups, i, k, f)}
<1>1. SUFFICES ASSUME Bad # {} PROVE FALSE
    OBVIOUS
<1>2. Bad \subseteq Nat
    OBVIOUS
<1>3. PICK k \in Bad : \A y \in Bad : k <= y
    <2> HIDE DEF Bad
    <2> QED
        BY <1>1, <1>2, LeastOf
<1>4. CASE k = 0
  <2>1. UpsTo(groups, i, 0, [n \in 0..0 |-> {i}])
      BY DEF UpsTo
  <2> QED
      BY <1>3, <1>4, <2>1
<1>5. CASE k # 0
  <2>1. k \in Nat
      BY <1>3
  <2>2. k - 1 \in Nat /\ k - 1 \notin Bad
    <3> HIDE DEF Bad
    <3> QED
        BY <1>3, <1>5, <2>1
  <2>3. PICK f : UpsTo(groups, i, k - 1, f)
      BY <2>2
  <2> DEFINE g == [n \in 0..k |->
                      IF n = k
                      THEN {ParentOf(groups, j) : j \in f[k - 1]} \ {NoId}
                      ELSE f[n]]
  <2>4. \A n \in 0..(k - 1) :
           f[n] = IF n = 0 THEN {i}
                  ELSE {ParentOf(groups, j) : j \in f[n - 1]} \ {NoId}
      BY <2>1, <2>3 DEF UpsTo
  <2>5. ASSUME NEW n \in 0..k
        PROVE  g[n] = IF n = 0 THEN {i}
                      ELSE {ParentOf(groups, j) : j \in g[n - 1]} \ {NoId}
    <3>1. CASE n = k
      <4>1. g[n] = {ParentOf(groups, j) : j \in f[k - 1]} \ {NoId}
          BY <2>1, <3>1
      <4>2. g[n - 1] = f[k - 1] /\ n # 0
          BY <1>5, <2>1, <3>1
      <4> HIDE DEF g
      <4> QED
          BY <3>1, <4>1, <4>2
    <3>2. CASE n # k
      <4>1. n \in 0..(k - 1) /\ (n # 0 => n - 1 \in 0..k /\ n - 1 # k)
          BY <2>1, <3>2
      <4> QED
          BY <2>4, <4>1, <3>2
    <3> QED
        BY <3>1, <3>2
  <2>6. g = [n \in 0..k |-> g[n]]
      OBVIOUS
  <2> HIDE DEF g
  <2>7. UpsTo(groups, i, k, g)
      BY <2>5, <2>6 DEF UpsTo
  <2> QED
      BY <1>3, <2>7
<1> QED
    BY <1>4, <1>5

\* The parents of a set of folders.
Parents(groups, S) == {ParentOf(groups, j) : j \in S} \ {NoId}

\* The next parents of i are the parents of the n-th.
LEMMA UpsRec ==
  ASSUME NEW groups, NEW i
  PROVE  /\ Ups(groups, i)[0] = {i}
         /\ \A n \in 0..MaxDepth :
               n + 1 <= MaxDepth
               => Ups(groups, i)[n + 1] = Parents(groups, Ups(groups, i)[n])
<1>1. \E f : UpsTo(groups, i, MaxDepth, f)
    BY DepthIsNat, UpsExist
<1>2. Ups(groups, i) = CHOOSE f : UpsTo(groups, i, MaxDepth, f)
    BY DEF Ups, UpsTo, MaxDepth
<1>3. UpsTo(groups, i, MaxDepth, Ups(groups, i))
    BY <1>1, <1>2
<1> DEFINE up == Ups(groups, i)
<1>4. MaxDepth \in Nat
    BY DepthIsNat
<1>5. up = [n \in 0..MaxDepth |->
               IF n = 0 THEN {i}
               ELSE {ParentOf(groups, j) : j \in up[n - 1]} \ {NoId}]
    BY <1>3 DEF UpsTo
<1> HIDE DEF up
<1>6. up[0] = {i}
    BY <1>4, <1>5
<1>7. ASSUME NEW n \in 0..MaxDepth, n + 1 <= MaxDepth
      PROVE  up[n + 1] = Parents(groups, up[n])
  <2>1. n + 1 \in 0..MaxDepth /\ n + 1 # 0 /\ n + 1 - 1 = n
      BY <1>4, <1>7
  <2>2. up[n + 1] = {ParentOf(groups, j) : j \in up[n + 1 - 1]} \ {NoId}
      BY <1>5, <2>1
  <2> QED
      BY <2>1, <2>2 DEF Parents
<1> QED
    BY <1>6, <1>7 DEF up

\* The full names when at most n parents are looked at; f has those for n - 1.
Spell(groups, f, n) ==
    [j \in Ids |->
        IF NameOf(groups, j) = NoName THEN NoName
        ELSE LET p == ParentOf(groups, j)
                 above == IF p = NoId \/ n = 0 THEN NoName ELSE f[p]
             IN IF above = NoName THEN <<NameOf(groups, j)>>
                                  ELSE Append(above, NameOf(groups, j))]

\* path of BuildFullName.
Paths(groups) ==
    LET path[n \in 0..Cardinality(Ids)] ==
            [j \in Ids |->
                IF NameOf(groups, j) = NoName THEN NoName
                ELSE LET p == ParentOf(groups, j)
                         above == IF p = NoId \/ n = 0 THEN NoName
                                                      ELSE path[n - 1][p]
                     IN IF above = NoName THEN <<NameOf(groups, j)>>
                                          ELSE Append(above, NameOf(groups, j))]
    IN path

\* f has the full names for up to m parents looked at.
PathsTo(groups, m, f) ==
    f = [n \in 0..m |-> Spell(groups, f[n - 1], n)]

\* BuildFullName looks at as many parents as there are ids.
LEMMA FullNameIsPath ==
  ASSUME NEW groups, NEW i
  PROVE  BuildFullName(groups, i) = Paths(groups)[MaxDepth][i]
BY DEF BuildFullName, Paths, MaxDepth

\* The recursion that spells the full names has a result.
LEMMA PathsExist ==
  ASSUME NEW groups, NEW m \in Nat
  PROVE  \E f : PathsTo(groups, m, f)
<1> DEFINE Bad == {k \in Nat : ~ \E f : PathsTo(groups, k, f)}
<1>1. SUFFICES ASSUME Bad # {} PROVE FALSE
    OBVIOUS
<1>2. Bad \subseteq Nat
    OBVIOUS
<1>3. PICK k \in Bad : \A y \in Bad : k <= y
    <2> HIDE DEF Bad
    <2> QED
        BY <1>1, <1>2, LeastOf
<1>4. \A f, h : Spell(groups, f, 0) = Spell(groups, h, 0)
    BY DEF Spell
<1>5. CASE k = 0
  <2> DEFINE g == [n \in 0..0 |-> Spell(groups, {}, 0)]
  <2>1. \A n \in 0..0 : Spell(groups, g[n - 1], n) = g[n]
    <3>1. \A n \in 0..0 : n = 0 /\ g[n] = Spell(groups, {}, 0)
        OBVIOUS
    <3> HIDE DEF g
    <3> QED
        BY <1>4, <3>1
  <2>2. PathsTo(groups, 0, g)
    <3>1. g = [n \in 0..0 |-> g[n]]
        OBVIOUS
    <3> HIDE DEF g
    <3> QED
        BY <2>1, <3>1 DEF PathsTo
  <2> QED
      BY <1>3, <1>5, <2>2
<1>6. CASE k # 0
  <2>1. k \in Nat
      BY <1>3
  <2>2. k - 1 \in Nat /\ k - 1 \notin Bad
    <3> HIDE DEF Bad
    <3> QED
        BY <1>3, <1>6, <2>1
  <2>3. PICK f : PathsTo(groups, k - 1, f)
      BY <2>2
  <2> DEFINE g == [n \in 0..k |->
                      IF n = k THEN Spell(groups, f[k - 1], k) ELSE f[n]]
  <2>4. \A n \in 0..(k - 1) : f[n] = Spell(groups, f[n - 1], n)
      BY <2>1, <2>3 DEF PathsTo
  <2>5. \A n \in 0..(k - 1) : g[n] = f[n]
    <3>1. \A n \in 0..(k - 1) : n \in 0..k /\ n # k
        BY <2>1
    <3> QED
        BY <3>1
  <2>6. g[k] = Spell(groups, f[k - 1], k)
      BY <2>1
  <2>7. g = [n \in 0..k |-> g[n]]
      OBVIOUS
  <2> HIDE DEF g
  <2>8. ASSUME NEW n \in 0..k
        PROVE  g[n] = Spell(groups, g[n - 1], n)
    <3>1. CASE n = 0
      <4>1. 0 \in 0..(k - 1)
          BY <1>6, <2>1
      <4>2. g[0] = Spell(groups, f[0 - 1], 0)
          BY <2>4, <2>5, <4>1
      <4>3. Spell(groups, f[0 - 1], 0) = Spell(groups, g[n - 1], 0)
          BY <1>4
      <4> QED
          BY <3>1, <4>2, <4>3
    <3>2. CASE n # 0
      <4>1. n - 1 \in 0..(k - 1) /\ (n = k \/ n \in 0..(k - 1))
          BY <2>1, <3>2
      <4> QED
          BY <2>4, <2>5, <2>6, <3>2, <4>1
    <3> QED
        BY <3>1, <3>2
  <2>9. PathsTo(groups, k, g)
      BY <2>7, <2>8 DEF PathsTo
  <2> QED
      BY <1>3, <2>9
<1> QED
    BY <1>5, <1>6

\* The full names are spelled along the parents.
LEMMA PathsRec ==
  ASSUME NEW groups
  PROVE  \A n \in 0..MaxDepth :
            Paths(groups)[n] = Spell(groups, Paths(groups)[n - 1], n)
<1>1. \E f : PathsTo(groups, MaxDepth, f)
    BY DepthIsNat, PathsExist
<1>2. Paths(groups) = CHOOSE f : PathsTo(groups, MaxDepth, f)
  <2>1. \A f : PathsTo(groups, MaxDepth, f)
               <=> f = [n \in 0..Cardinality(Ids) |->
                          [j \in Ids |->
                IF NameOf(groups, j) = NoName THEN NoName
                ELSE LET p == ParentOf(groups, j)
                         above == IF p = NoId \/ n = 0 THEN NoName
                                                      ELSE f[n - 1][p]
                     IN IF above = NoName THEN <<NameOf(groups, j)>>
                                          ELSE Append(above, NameOf(groups, j))]]
      BY DEF PathsTo, Spell, MaxDepth
  <2> QED
      BY <2>1 DEF Paths
<1>3. PathsTo(groups, MaxDepth, Paths(groups))
    BY <1>1, <1>2
<1> QED
    BY <1>3 DEF PathsTo

\* Induction over an interval, for a set of numbers.
LEMMA Induct ==
  ASSUME NEW a \in Nat, NEW b \in Nat, NEW S,
         a \in S, \A n \in a..b : n \in S /\ n + 1 <= b => n + 1 \in S
  PROVE  a..b \subseteq S
<1> DEFINE Bad == (a..b) \ S
<1>1. SUFFICES ASSUME Bad # {} PROVE FALSE
    OBVIOUS
<1>2. Bad \subseteq Nat
    OBVIOUS
<1>3. PICK k \in Bad : \A y \in Bad : k <= y
    <2> HIDE DEF Bad
    <2> QED
        BY <1>1, <1>2, LeastOf
<1>4. k \in a..b /\ k \notin S /\ k # a
    BY <1>3
<1>5. k - 1 \in a..b /\ k - 1 \notin Bad /\ k - 1 + 1 = k
    <2>1. k - 1 \in a..b /\ k - 1 + 1 = k /\ ~ (k <= k - 1)
        BY <1>4
    <2> HIDE DEF Bad
    <2> QED
        BY <1>3, <2>1
<1> QED
    BY <1>4, <1>5

----------------------------------------------------------------------------
(* The parents of a folder.                                                *)

\* Every parent is an id or NoId.
ParentsTyped(groups) == \A j \in Ids : ParentOf(groups, j) \in Ids \cup {NoId}

\* c is the n-th parent of i.
Nth(groups, i, n, c) == Ups(groups, i)[n] = {c}

\* An id has one n-th parent, or none.
LEMMA UpsOne ==
  ASSUME NEW groups, ParentsTyped(groups), NEW i \in Ids
  PROVE  \A n \in 0..MaxDepth :
            \/ Ups(groups, i)[n] = {}
            \/ \E c \in Ids : Ups(groups, i)[n] = {c}
<1> DEFINE up == Ups(groups, i)
           S == {n \in Nat : up[n] = {} \/ \E c \in Ids : up[n] = {c}}
<1>1. /\ up[0] = {i}
      /\ \A n \in 0..MaxDepth :
            n + 1 <= MaxDepth => up[n + 1] = Parents(groups, up[n])
    BY UpsRec
<1>2. MaxDepth \in Nat
    BY DepthIsNat
<1> HIDE DEF up
<1>3. 0 \in S
    BY <1>1, <1>2
<1>4. ASSUME NEW n \in 0..MaxDepth, n \in S, n + 1 <= MaxDepth
      PROVE  n + 1 \in S
  <2>1. up[n + 1] = {ParentOf(groups, j) : j \in up[n]} \ {NoId}
      BY <1>1, <1>4 DEF Parents
  <2>2. CASE up[n] = {}
      BY <2>1, <2>2
  <2>3. CASE \E c \in Ids : up[n] = {c}
    <3>1. PICK c \in Ids : up[n] = {c}
        BY <2>3
    <3>2. up[n + 1] = {ParentOf(groups, c)} \ {NoId}
        BY <2>1, <3>1
    <3>3. CASE ParentOf(groups, c) = NoId
        BY <3>2, <3>3
    <3>4. CASE ParentOf(groups, c) # NoId
      <4>1. up[n + 1] = {ParentOf(groups, c)} /\ ParentOf(groups, c) \in Ids
          BY <3>2, <3>4 DEF ParentsTyped
      <4> QED
          BY <4>1
    <3> QED
        BY <3>3, <3>4
  <2> QED
      BY <1>4, <2>2, <2>3
<1> HIDE DEF S
<1>5. 0..MaxDepth \subseteq S
    BY <1>2, <1>3, <1>4, Induct
<1> QED
    BY <1>5 DEF S, up

\* The parents of a parent are the ones that follow it.
LEMMA UpsShift ==
  ASSUME NEW groups, NEW i, NEW c, NEW m \in 0..MaxDepth,
         Nth(groups, i, m, c)
  PROVE  \A k \in 0..(MaxDepth - m) : Ups(groups, c)[k] = Ups(groups, i)[m + k]
<1> DEFINE S == {k \in Nat : Ups(groups, c)[k] = Ups(groups, i)[m + k]}
<1>1. MaxDepth \in Nat /\ MaxDepth - m \in Nat
    BY DepthIsNat
<1>2. 0 \in S
  <2>1. m + 0 = m /\ 0 \in 0..MaxDepth
      BY <1>1
  <2>2. Ups(groups, c)[0] = {c}
      BY <2>1, UpsRec
  <2>3. Ups(groups, i)[m] = {c}
      BY DEF Nth
  <2> QED
      BY <2>1, <2>2, <2>3
<1>3. ASSUME NEW k \in 0..(MaxDepth - m), k \in S, k + 1 <= MaxDepth - m
      PROVE  k + 1 \in S
  <2>1. k + 1 \in Nat /\ k \in 0..MaxDepth /\ k + 1 <= MaxDepth
      BY <1>1, <1>3
  <2>2. Ups(groups, c)[k + 1] = Parents(groups, Ups(groups, c)[k])
      BY <2>1, UpsRec
  <2>3. Ups(groups, i)[m + (k + 1)] = Parents(groups, Ups(groups, i)[m + k])
    <3>1. /\ m + k \in 0..MaxDepth /\ m + k + 1 <= MaxDepth
          /\ m + (k + 1) = m + k + 1
        BY <1>1, <1>3
    <3> QED
        BY <3>1, UpsRec
  <2> QED
      BY <1>3, <2>1, <2>2, <2>3
<1> HIDE DEF S
<1>4. 0..(MaxDepth - m) \subseteq S
    BY <1>1, <1>2, <1>3, Induct
<1> QED
    BY <1>4 DEF S

\* Without a cycle the parents come to an end.
LEMMA Rooted ==
  ASSUME NEW groups, ParentsTyped(groups), NEW i \in Ids, ~Cyclic(groups, i)
  PROVE  \E m \in 1..MaxDepth : Ups(groups, i)[m] = {}
<1> SUFFICES ASSUME \A m \in 1..MaxDepth : Ups(groups, i)[m] # {}
             PROVE  FALSE
    OBVIOUS
<1> DEFINE nth(n) == CHOOSE x \in Ids : Ups(groups, i)[n] = {x}
           c == [n \in 0..MaxDepth |-> nth(n)]
<1>1. MaxDepth \in Nat /\ 0 \in 0..MaxDepth
    BY DepthIsNat
<1>2. Ups(groups, i)[0] = {i}
    BY <1>1, UpsRec
<1>3. \A n \in 0..MaxDepth : nth(n) \in Ids /\ Ups(groups, i)[n] = {nth(n)}
  <2> TAKE n \in 0..MaxDepth
  <2>1. n = 0 \/ n \in 1..MaxDepth
      BY <1>1
  <2>2. \E x \in Ids : Ups(groups, i)[n] = {x}
      BY <1>2, <2>1, UpsOne
  <2> QED
      BY <2>2
<1> HIDE DEF nth
<1>4. c \in [0..MaxDepth -> Ids]
    BY <1>3
<1>5. IsFiniteSet(0..MaxDepth) /\ Cardinality(0..MaxDepth) = MaxDepth + 1
    BY <1>1, FS_Interval
<1>6. Cardinality(Ids) < Cardinality(0..MaxDepth)
    BY <1>1, <1>5 DEF MaxDepth
<1> HIDE DEF c
<1>7. \E x, y \in 0..MaxDepth : x # y /\ c[x] = c[y]
    BY <1>4, <1>5, <1>6, IdsAreFinite, FS_PigeonHole
<1>8. PICK x \in 0..MaxDepth, y \in 0..MaxDepth : x < y /\ c[x] = c[y]
    BY <1>1, <1>7
<1>9. PICK a : Nth(groups, i, x, a) /\ Nth(groups, i, y, a)
    BY <1>3, <1>8 DEF c, Nth
<1>10. a \in Ancestors(groups, a)
  <2>1. y - x \in 0..(MaxDepth - x) /\ y - x \in 1..MaxDepth /\ x + (y - x) = y
      BY <1>1, <1>8
  <2>2. \A k \in 0..(MaxDepth - x) : Ups(groups, a)[k] = Ups(groups, i)[x + k]
      BY <1>9, UpsShift
  <2> QED
      BY <1>9, <2>1, <2>2, AncestorsAre DEF Nth
<1>11. a \in {i} \cup Ancestors(groups, i)
  <2>1. CASE x = 0
      BY <1>2, <1>9, <2>1 DEF Nth
  <2>2. CASE x # 0
    <3>1. x \in 1..MaxDepth
        BY <1>1, <2>2
    <3> QED
        BY <1>9, <3>1, AncestorsAre DEF Nth
  <2> QED
      BY <2>1, <2>2
<1> QED
    BY <1>10, <1>11 DEF Cyclic

----------------------------------------------------------------------------
(* What BuildFullName gives.                                               *)

\* The groups of a key file.
Groups(groups) ==
    /\ DOMAIN groups \subseteq Ids
    /\ \A i \in DOMAIN groups :
          groups[i] \in [parent : Ids \cup {NoId}, name : Names \cup {NoName},
                         value : Values]

\* A sequence of at least one name and at most m.
IsPath(x, m) == x \in Seq(Names) /\ Len(x) \in 1..m

\* Parents and names read from well-typed groups are ids and names, or none.
LEMMA GroupTypes ==
  ASSUME NEW groups, Groups(groups)
  PROVE  /\ ParentsTyped(groups)
         /\ \A j \in Ids : NameOf(groups, j) \in Names \cup {NoName}
BY DEF Groups, ParentsTyped, ParentOf, NameOf

\* A full name of at most as many names as there are ids is not NULL.
LEMMA PathNotNone ==
  ASSUME NEW x, NEW m \in 0..MaxDepth, IsPath(x, m)
  PROVE  x # NoName /\ x \in FullNames
<1>1. Len(x) \in 1..MaxDepth /\ x \in [1..Len(x) -> Names]
    BY DepthIsNat, LenProperties DEF IsPath
<1> QED
    BY <1>1, NoNameIsNone DEF MaxDepth, FullNames

\* A full name and one name more.
LEMMA OneMoreName ==
  ASSUME NEW m \in Nat, NEW s, IsPath(s, m), NEW x \in Names
  PROVE  IsPath(Append(s, x), m + 1)
BY DEF IsPath

\* The name of j with n parents looked at.
LEMMA SpellAt ==
  ASSUME NEW groups, NEW n \in 0..MaxDepth, NEW j \in Ids,
         NEW name, name = NameOf(groups, j), NEW p, p = ParentOf(groups, j)
  PROVE  /\ name = NoName => Paths(groups)[n][j] = NoName
         /\ name # NoName /\ (p = NoId \/ n = 0) => Paths(groups)[n][j] = <<name>>
         /\ name # NoName /\ p # NoId /\ n # 0 =>
               Paths(groups)[n][j] = IF Paths(groups)[n - 1][p] = NoName
                                     THEN <<name>>
                                     ELSE Append(Paths(groups)[n - 1][p], name)
<1> DEFINE f == Paths(groups)[n - 1]
<1>1. Paths(groups)[n] = Spell(groups, f, n)
    BY PathsRec
<1> HIDE DEF f
<1>2. Spell(groups, f, n)[j]
      = IF name = NoName THEN NoName
        ELSE LET above == IF p = NoId \/ n = 0 THEN NoName ELSE f[p]
             IN IF above = NoName THEN <<name>> ELSE Append(above, name)
    BY DEF Spell
<1> QED
    BY <1>1, <1>2 DEF f

\* The name of a folder without a parent.
LEMMA SpellRoot ==
  ASSUME NEW groups, NEW n \in 0..MaxDepth, NEW j \in Ids,
         NameOf(groups, j) # NoName, ParentOf(groups, j) = NoId
  PROVE  Paths(groups)[n][j] = <<NameOf(groups, j)>>
<1>1. Paths(groups)[n] = Spell(groups, Paths(groups)[n - 1], n)
    BY PathsRec
<1> QED
    BY <1>1 DEF Spell

\* A folder whose parents come to an end after m steps.
LEMMA NextUp ==
  ASSUME NEW groups, NEW j \in Ids, NEW m \in 1..MaxDepth,
         Ups(groups, j)[m] = {}, NEW p, p = ParentOf(groups, j)
  PROVE  p = NoId \/ (m # 1 /\ Ups(groups, p)[m - 1] = {})
<1>1. MaxDepth \in Nat
    BY DepthIsNat
<1>2. 0 \in 0..MaxDepth /\ 0 + 1 <= MaxDepth /\ 0 + 1 = 1
    BY <1>1
<1>3. Ups(groups, j)[1] = Parents(groups, Ups(groups, j)[0])
    BY <1>2, UpsRec
<1>4. Parents(groups, Ups(groups, j)[0]) = {p} \ {NoId}
    BY UpsRec DEF Parents
<1>5. CASE p # NoId
  <2>1. Nth(groups, j, 1, p)
      BY <1>3, <1>4, <1>5 DEF Nth
  <2>2. m # 1
      BY <1>3, <1>4, <1>5
  <2>3. 1 \in 0..MaxDepth /\ m - 1 \in 0..(MaxDepth - 1) /\ 1 + (m - 1) = m
      BY <1>1
  <2>4. Ups(groups, p)[m - 1] = Ups(groups, j)[1 + (m - 1)]
      BY <2>1, <2>3, UpsShift
  <2> QED
      BY <2>2, <2>3, <2>4
<1> QED
    BY <1>5

\* Looking at more parents than there are changes nothing.
Settled(groups, j, m) ==
    LET full == Paths(groups)[MaxDepth][j]
    IN /\ \A n \in (m - 1)..MaxDepth : Paths(groups)[n][j] = full
       /\ IF NameOf(groups, j) = NoName THEN full = NoName ELSE IsPath(full, m)

\* When the parents of j come to an end after m steps, looking at m - 1 of them
\* gives the full name, and looking at more gives the same.
LEMMA PathsSettle ==
  ASSUME NEW groups, Groups(groups)
  PROVE  \A m \in 1..MaxDepth : \A j \in Ids :
            Ups(groups, j)[m] = {} => Settled(groups, j, m)
<1> DEFINE S == {m \in Nat : \A j \in Ids :
                    Ups(groups, j)[m] = {} => Settled(groups, j, m)}
           P == Paths(groups)
<1>1. MaxDepth \in Nat
    BY DepthIsNat
<1>2. ASSUME NEW m \in 1..MaxDepth, NEW j \in Ids, ParentOf(groups, j) = NoId
      PROVE  Settled(groups, j, m)
  <2> DEFINE name == NameOf(groups, j)
  <2>1. \A n \in 0..MaxDepth :
           P[n][j] = IF name = NoName THEN NoName ELSE <<name>>
      BY <1>2, SpellAt
  <2>2. MaxDepth \in 0..MaxDepth /\ (m - 1)..MaxDepth \subseteq 0..MaxDepth
      BY <1>1
  <2>3. name # NoName => IsPath(<<name>>, m)
      BY <1>1, GroupTypes DEF IsPath
  <2> HIDE DEF P, name
  <2>4. \A n \in (m - 1)..MaxDepth : P[n][j] = P[MaxDepth][j]
      BY <2>1, <2>2
  <2>5. IF name = NoName THEN P[MaxDepth][j] = NoName
                         ELSE IsPath(P[MaxDepth][j], m)
      BY <2>1, <2>2, <2>3
  <2> QED
      BY <2>4, <2>5 DEF Settled, P, name
<1>3. 1..MaxDepth \subseteq S
  <2>1. CASE MaxDepth = 0
      BY <2>1
  <2>2. CASE MaxDepth # 0
    <3>1. 1 \in S
      <4>1. 1 \in 1..MaxDepth
          BY <1>1, <2>2
      <4>2. \A j \in Ids : Ups(groups, j)[1] = {} => ParentOf(groups, j) = NoId
          BY <4>1, NextUp
      <4> QED
          BY <1>2, <4>1, <4>2
    <3>2. ASSUME NEW m \in 1..MaxDepth, m \in S, m + 1 <= MaxDepth
          PROVE  m + 1 \in S
      <4> SUFFICES ASSUME NEW j \in Ids, Ups(groups, j)[m + 1] = {}
                   PROVE  Settled(groups, j, m + 1)
          BY <1>1, <3>2
      <4>1. m + 1 \in 1..MaxDepth /\ m + 1 - 1 = m /\ m \in Nat
          BY <1>1, <3>2
      <4> DEFINE p == ParentOf(groups, j)
                 name == NameOf(groups, j)
      <4>2. CASE p = NoId
          BY <1>2, <4>1, <4>2
      <4>3. CASE p # NoId
        <5>1. p \in Ids
            BY <4>3, GroupTypes DEF ParentsTyped
        <5>2. Ups(groups, p)[m] = {}
            BY <4>1, <4>3, NextUp
        <5>3. Settled(groups, p, m)
            BY <3>2, <5>1, <5>2
        <5> DEFINE above == P[MaxDepth][p]
        <5>4. \A n \in (m - 1)..MaxDepth : P[n][p] = above
            BY <5>3 DEF Settled
        <5>5. above = NoName \/ IsPath(above, m)
            BY <5>3 DEF Settled
        <5> DEFINE full == IF name = NoName THEN NoName
                           ELSE IF above = NoName THEN <<name>>
                           ELSE Append(above, name)
        <5>6. ASSUME NEW n \in m..MaxDepth
              PROVE  P[n][j] = full
          <6>1. /\ n \in 0..MaxDepth /\ n # 0
                /\ n - 1 \in (m - 1)..MaxDepth
              BY <1>1, <3>2
          <6>2. P[n - 1][p] = above
              BY <5>4, <6>1
          <6>3. /\ name = NoName => P[n][j] = NoName
                /\ name # NoName => P[n][j] = IF P[n - 1][p] = NoName
                                              THEN <<name>>
                                              ELSE Append(P[n - 1][p], name)
              BY <4>3, <6>1, SpellAt
          <6> QED
              BY <6>2, <6>3
        <5>7. name # NoName => IsPath(full, m + 1)
          <6> SUFFICES ASSUME name # NoName
                       PROVE  IsPath(full, m + 1)
              OBVIOUS
          <6>1. name \in Names
              BY GroupTypes
          <6>2. CASE above = NoName
            <7>1. IsPath(<<name>>, m + 1)
                BY <4>1, <6>1 DEF IsPath
            <7> QED
                BY <6>2, <7>1
          <6>3. CASE above # NoName
            <7>1. IsPath(above, m)
                BY <5>5, <6>3
            <7>2. IsPath(Append(above, name), m + 1)
                BY <4>1, <6>1, <7>1, OneMoreName
            <7> QED
                BY <6>3, <7>2
          <6> QED
              BY <6>2, <6>3
        <5>8. MaxDepth \in m..MaxDepth
            BY <1>1, <3>2
        <5> HIDE DEF full, above, P
        <5>9. P[MaxDepth][j] = full
            BY <5>6, <5>8
        <5>10. name = NoName => full = NoName
            BY DEF full
        <5> QED
            BY <4>1, <5>6, <5>7, <5>9, <5>10 DEF Settled, P
      <4> QED
          BY <4>2, <4>3
    <3> HIDE DEF S
    <3> QED
        BY <1>1, <3>1, <3>2, Induct
  <2> QED
      BY <2>1, <2>2
<1> QED
    BY <1>3

\* The full name of a folder that is not among its own ancestors, and of its
\* ancestors.
LEMMA FullNameIs ==
  ASSUME NEW groups, Groups(groups), NEW j \in Ids, ~Cyclic(groups, j),
         NEW name, name = NameOf(groups, j), NEW p, p = ParentOf(groups, j)
  PROVE  /\ name = NoName => BuildFullName(groups, j) = NoName
         /\ name # NoName =>
               /\ IsPath(BuildFullName(groups, j), MaxDepth)
               /\ BuildFullName(groups, j) # NoName
               /\ BuildFullName(groups, j)
                  = IF p = NoId \/ BuildFullName(groups, p) = NoName
                    THEN <<name>>
                    ELSE Append(BuildFullName(groups, p), name)
<1> DEFINE P == Paths(groups)
           full == P[MaxDepth][j]
<1>1. MaxDepth \in Nat /\ MaxDepth \in 0..MaxDepth
    BY DepthIsNat
<1>2. PICK m \in 1..MaxDepth : Ups(groups, j)[m] = {}
    BY GroupTypes, Rooted
<1>3. Settled(groups, j, m)
    BY <1>2, PathsSettle
<1>4. /\ name = NoName => full = NoName
      /\ name # NoName => IsPath(full, m)
    BY <1>3 DEF Settled
<1>5. name # NoName => IsPath(full, MaxDepth) /\ full # NoName
  <2>1. name # NoName => IsPath(full, MaxDepth)
      BY <1>1, <1>4 DEF IsPath
  <2> QED
      BY <1>1, <2>1, PathNotNone
<1>6. ASSUME name # NoName
      PROVE  full = IF p = NoId \/ P[MaxDepth][p] = NoName THEN <<name>>
                    ELSE Append(P[MaxDepth][p], name)
  <2>1. CASE p = NoId
    <3>1. Paths(groups)[MaxDepth][j] = <<name>>
        BY <1>1, <1>6, <2>1, SpellRoot
    <3> QED
        BY <2>1, <3>1
  <2>2. CASE p # NoId
    <3>1. m # 1 /\ Ups(groups, p)[m - 1] = {} /\ p \in Ids
        BY <1>2, <2>2, NextUp, GroupTypes DEF ParentsTyped
    <3>2. m - 1 \in 1..MaxDepth /\ MaxDepth - 1 \in (m - 1 - 1)..MaxDepth
          /\ MaxDepth # 0
        BY <1>1, <1>2, <3>1
    <3>3. Settled(groups, p, m - 1)
        BY <3>1, <3>2, PathsSettle
    <3>4. P[MaxDepth - 1][p] = P[MaxDepth][p]
        BY <3>2, <3>3 DEF Settled
    <3>5. full = IF P[MaxDepth - 1][p] = NoName THEN <<name>>
                 ELSE Append(P[MaxDepth - 1][p], name)
        BY <1>1, <1>6, <2>2, <3>2, SpellAt
    <3> QED
        BY <2>2, <3>4, <3>5
  <2> QED
      BY <2>1, <2>2
<1>7. /\ BuildFullName(groups, j) = full
      /\ BuildFullName(groups, p) = P[MaxDepth][p]
    BY FullNameIsPath
<1> HIDE DEF P, full
<1> QED
    BY <1>4, <1>5, <1>6, <1>7

----------------------------------------------------------------------------
(* Trees of folders.                                                       *)

\* What Tidy gives of the full names F of groups: each extends that of the
\* parent, and no two are the same.
IsTree(groups, F) ==
    \A i \in DOMAIN groups :
        /\ i \in Ids /\ IsPath(F[i], MaxDepth)
        /\ groups[i].name \in Names /\ groups[i].parent \in DOMAIN groups \cup {NoId}
        /\ F[i] = IF groups[i].parent = NoId THEN <<groups[i].name>>
                  ELSE Append(F[groups[i].parent], groups[i].name)
        /\ \A j \in DOMAIN groups : F[i] = F[j] => i = j

\* The full names of the folders.
FullNamesOf(groups) == [i \in DOMAIN groups |-> BuildFullName(groups, i)]

\* A tidy key file is a tree.
LEMMA TidyIsTree ==
  ASSUME NEW groups, Groups(groups), Tidy(groups)
  PROVE  IsTree(groups, FullNamesOf(groups))
<1> DEFINE F == FullNamesOf(groups)
<1> SUFFICES ASSUME NEW i \in DOMAIN groups
             PROVE  /\ i \in Ids /\ IsPath(F[i], MaxDepth)
                    /\ groups[i].name \in Names
                    /\ groups[i].parent \in DOMAIN groups \cup {NoId}
                    /\ F[i] = IF groups[i].parent = NoId
                              THEN <<groups[i].name>>
                              ELSE Append(F[groups[i].parent], groups[i].name)
                    /\ \A j \in DOMAIN groups : F[i] = F[j] => i = j
    BY DEF IsTree
<1>0. PICK name, p : name = groups[i].name /\ p = groups[i].parent
    OBVIOUS
<1>1. /\ i \in Ids /\ name # NoName /\ name \in Names /\ ~Cyclic(groups, i)
      /\ p \in DOMAIN groups \cup {NoId}
      /\ name = NameOf(groups, i) /\ p = ParentOf(groups, i)
    BY <1>0 DEF Groups, Tidy, NameOf, ParentOf
<1>2. \A j \in DOMAIN groups : F[j] = BuildFullName(groups, j)
    BY DEF FullNamesOf
<1>3. /\ IsPath(F[i], MaxDepth)
      /\ F[i] = IF p = NoId \/ BuildFullName(groups, p) = NoName
                THEN <<name>> ELSE Append(BuildFullName(groups, p), name)
  <2>1. IsPath(BuildFullName(groups, i), MaxDepth)
      BY <1>1, FullNameIs
  <2>2. BuildFullName(groups, i)
        = IF p = NoId \/ BuildFullName(groups, p) = NoName
          THEN <<name>> ELSE Append(BuildFullName(groups, p), name)
      BY <1>1, FullNameIs
  <2> HIDE DEF F
  <2> QED
      BY <1>2, <2>1, <2>2
<1>4. p # NoId => BuildFullName(groups, p) # NoName /\ BuildFullName(groups, p) = F[p]
  <2> SUFFICES ASSUME p # NoId
               PROVE  BuildFullName(groups, p) # NoName
      BY <1>1, <1>2
  <2> DEFINE q == ParentOf(groups, p)
             n == NameOf(groups, p)
  <2>1. p \in Ids /\ ~Cyclic(groups, p) /\ n # NoName
      BY <1>1 DEF Groups, Tidy, NameOf
  <2> QED
      BY <2>1, FullNameIs
<1>5. \A j \in DOMAIN groups : F[i] = F[j] => i = j
    BY <1>2 DEF Tidy
<1> HIDE DEF F
<1> QED
    BY <1>0, <1>1, <1>3, <1>4, <1>5

----------------------------------------------------------------------------
(* Prefixes.                                                               *)

\* A prefix of t is not longer than t and agrees with it.
LEMMA PrefixMeans ==
  ASSUME NEW s \in Seq(Names), NEW t \in Seq(Names)
  PROVE  IsPrefix(s, t) <=> /\ Len(s) <= Len(t)
                            /\ \A k \in 1..Len(s) : s[k] = t[k]
<1>1. Len(s) \in Nat /\ Len(t) \in Nat
    BY LenProperties
<1>2. SubSeq(s, 1, Len(s)) = s
    BY SubSeqFull
<1>3. ASSUME Len(s) <= Len(t)
      PROVE  SubSeq(s, 1, Len(s)) = SubSeq(t, 1, Len(s))
             <=> \A k \in 1..Len(s) : s[k] = t[k]
  <2> DEFINE u == SubSeq(t, 1, Len(s))
  <2>1. \A k \in 1..Len(s) : t[k] \in Names
      BY <1>1, <1>3, ElementOfSeq
  <2>2. u \in Seq(Names) /\ Len(u) = Len(s) /\ \A k \in 1..Len(s) : u[k] = t[k]
    <3>1. /\ u \in Seq(Names)
          /\ Len(u) = IF 1 <= Len(s) THEN Len(s) - 1 + 1 ELSE 0
          /\ \A k \in 1..(Len(s) - 1 + 1) : u[k] = t[1 + k - 1]
        BY <1>1, <2>1, SubSeqProperties
    <3> HIDE DEF u
    <3> QED
        BY <1>1, <3>1
  <2> HIDE DEF u
  <2>3. (\A k \in 1..Len(s) : s[k] = t[k]) => s = u
      BY <2>2, SeqEqual
  <2>4. s = u => \A k \in 1..Len(s) : s[k] = t[k]
      BY <2>2
  <2> QED
      BY <1>2, <2>3, <2>4 DEF u
<1> QED
    BY <1>3 DEF IsPrefix

\* A prefix of t with a name more is a prefix of t, or all of it.
LEMMA PrefixOfMore ==
  ASSUME NEW s \in Seq(Names), NEW t \in Seq(Names), NEW x \in Names
  PROVE  IsPrefix(s, Append(t, x)) <=> IsPrefix(s, t) \/ s = Append(t, x)
<1> DEFINE u == Append(t, x)
<1>1. /\ u \in Seq(Names) /\ Len(u) = Len(t) + 1 /\ u[Len(t) + 1] = x
      /\ \A k \in 1..Len(t) : u[k] = t[k]
    BY AppendProperties
<1>2. Len(s) \in Nat /\ Len(t) \in Nat
    BY LenProperties
<1> HIDE DEF u
<1>3. IsPrefix(s, u) <=> Len(s) <= Len(u) /\ \A k \in 1..Len(s) : s[k] = u[k]
    BY <1>1, PrefixMeans
<1>4. IsPrefix(s, t) <=> Len(s) <= Len(t) /\ \A k \in 1..Len(s) : s[k] = t[k]
    BY PrefixMeans
<1>5. IsPrefix(s, t) => IsPrefix(s, u)
    BY <1>1, <1>2, <1>3, <1>4
<1>6. s = u => IsPrefix(s, u)
    BY <1>1, <1>2, <1>3
<1>7. ASSUME IsPrefix(s, u), ~IsPrefix(s, t)
      PROVE  s = u
  <2>1. Len(s) = Len(u)
      BY <1>1, <1>2, <1>3, <1>4, <1>7
  <2> QED
      BY <1>1, <1>3, <1>7, <2>1, SeqEqual
<1> QED
    BY <1>5, <1>6, <1>7 DEF u

\* One name has no shorter prefix but the empty one.
LEMMA PrefixOfOne ==
  ASSUME NEW s \in Seq(Names), Len(s) # 0, NEW x \in Names, IsPrefix(s, <<x>>)
  PROVE  s = <<x>>
<1>1. <<x>> \in Seq(Names) /\ Len(<<x>>) = 1
    OBVIOUS
<1>2. Len(s) \in Nat /\ Len(s) <= 1 /\ \A k \in 1..Len(s) : s[k] = <<x>>[k]
    BY <1>1, LenProperties, PrefixMeans
<1> DEFINE t == <<x>>
<1>3. t \in Seq(Names) /\ Len(s) = Len(t) /\ \A k \in 1..Len(s) : s[k] = t[k]
    BY <1>1, <1>2
<1>4. s = t
  <2> HIDE DEF t
  <2> QED
      BY <1>3, SeqEqual
<1> QED
    BY <1>4

\* A full name is a prefix of itself.
LEMMA PrefixSelf ==
  ASSUME NEW s \in Seq(Names)
  PROVE  IsPrefix(s, s)
BY PrefixMeans, LenProperties

\* A full name that is a prefix is not longer.
LEMMA PrefixShorter ==
  ASSUME NEW s \in Seq(Names), NEW t \in Seq(Names), NEW x \in Names
  PROVE  ~ IsPrefix(Append(t, x), t)
<1> DEFINE u == Append(t, x)
<1>1. u \in Seq(Names) /\ Len(u) = Len(t) + 1 /\ Len(t) \in Nat
    BY AppendProperties, LenProperties
<1> HIDE DEF u
<1>2. ~ IsPrefix(u, t)
    BY <1>1, PrefixMeans
<1> QED
    BY <1>2 DEF u

----------------------------------------------------------------------------
(* What a change of one folder does to the full names.                     *)

\* k is i or one of the folders below it.
Under(F, i, k) == IsPrefix(F[i], F[k])

\* The parent of a folder has the shorter full name.
LEMMA TreeParent ==
  ASSUME NEW G, NEW F, IsTree(G, F), NEW k \in DOMAIN G
  PROVE  /\ G[k].name \in Names /\ F[k] \in Seq(Names) /\ Len(F[k]) \in Nat \ {0}
         /\ G[k].parent = NoId => F[k] = <<G[k].name>> /\ Len(F[k]) = 1
         /\ G[k].parent # NoId =>
               /\ G[k].parent \in DOMAIN G /\ F[G[k].parent] \in Seq(Names)
               /\ Len(F[G[k].parent]) \in Nat \ {0}
               /\ F[k] = Append(F[G[k].parent], G[k].name)
               /\ Len(F[k]) = Len(F[G[k].parent]) + 1
<1>0. PICK q, n : q = G[k].parent /\ n = G[k].name
    OBVIOUS
<1>1. /\ n \in Names /\ IsPath(F[k], MaxDepth)
      /\ q \in DOMAIN G \cup {NoId}
      /\ F[k] = IF q = NoId THEN <<n>> ELSE Append(F[q], n)
    BY <1>0 DEF IsTree
<1>2. F[k] \in Seq(Names) /\ Len(F[k]) \in Nat \ {0}
    BY <1>1, DepthIsNat DEF IsPath
<1>3. q = NoId => F[k] = <<n>> /\ Len(F[k]) = 1
    BY <1>1
<1>4. q # NoId => q \in DOMAIN G /\ F[k] = Append(F[q], n)
    BY <1>1
<1>5. ASSUME q # NoId
      PROVE  F[q] \in Seq(Names) /\ Len(F[q]) \in Nat \ {0}
  <2>1. IsPath(F[q], MaxDepth)
      BY <1>4, <1>5 DEF IsTree
  <2> QED
      BY <2>1, DepthIsNat DEF IsPath
<1>6. q # NoId => Len(F[k]) = Len(F[q]) + 1
    BY <1>1, <1>4, <1>5, AppendProperties
<1> QED
    BY <1>0, <1>1, <1>2, <1>3, <1>4, <1>5, <1>6

\* The full name of a folder without a parent is one name.
LEMMA TreeRoot ==
  ASSUME NEW G, NEW F, IsTree(G, F), NEW k \in DOMAIN G, G[k].parent = NoId
  PROVE  Len(F[k]) = 1
<1>1. F[k] = <<G[k].name>>
    BY DEF IsTree
<1> QED
    BY <1>1

\* u is the full name t with the name x after it.
Extends(u, t, x) == t \in Seq(Names) /\ x \in Names /\ u = Append(t, x)

\* A full name has one beginning and one last name.
LEMMA ExtendsOne ==
  ASSUME NEW u, NEW s, NEW t, NEW x, NEW y, Extends(u, s, x), Extends(u, t, y)
  PROVE  s = t /\ x = y
<1>1. s \in Seq(Names) /\ t \in Seq(Names) /\ x \in Names /\ y \in Names
    BY DEF Extends
<1>2. Append(s, x) = Append(t, y)
    BY DEF Extends
<1> QED
    BY <1>1, <1>2, AppendInjective

\* A folder is under i when it is i or its parent is.
LEMMA UnderParent ==
  ASSUME NEW G, NEW F, IsTree(G, F), NEW i \in DOMAIN G, NEW k \in DOMAIN G,
         NEW q, q = G[k].parent
  PROVE  /\ Under(F, i, i)
         /\ k # i /\ q = NoId => ~ Under(F, i, k)
         /\ k # i /\ q # NoId => (Under(F, i, k) <=> Under(F, i, q))
<1>1. F[i] \in Seq(Names) /\ Len(F[i]) # 0
    BY TreeParent
<1> DEFINE n == G[k].name
<1>2. /\ n \in Names
      /\ q = NoId => F[k] = <<n>>
      /\ q # NoId => F[q] \in Seq(Names) /\ F[k] = Append(F[q], n)
    BY TreeParent
<1>3. k # i => F[k] # F[i]
    BY DEF IsTree
<1> HIDE DEF n
<1>4. Under(F, i, i)
    BY <1>1, PrefixSelf DEF Under
<1>5. ASSUME k # i, q = NoId, Under(F, i, k)
      PROVE  FALSE
  <2>1. IsPrefix(F[i], <<n>>)
      BY <1>2, <1>5 DEF Under
  <2>2. F[i] = <<n>>
      BY <1>1, <1>2, <2>1, PrefixOfOne
  <2> QED
      BY <1>2, <1>3, <1>5, <2>2
<1>6. ASSUME k # i, q # NoId
      PROVE  Under(F, i, k) <=> Under(F, i, q)
  <2>1. IsPrefix(F[i], Append(F[q], n))
        <=> IsPrefix(F[i], F[q]) \/ F[i] = Append(F[q], n)
      BY <1>1, <1>2, <1>6, PrefixOfMore
  <2> QED
      BY <1>2, <1>3, <1>6, <2>1 DEF Under
<1> QED
    BY <1>4, <1>5, <1>6

\* A set of folders that contains what is needed to prove it of the children of
\* its members contains all folders.
LEMMA TreeInduction ==
  ASSUME NEW G, NEW F, IsTree(G, F), NEW S,
         \A k \in DOMAIN G :
            (G[k].parent = NoId \/ G[k].parent \in S) => k \in S
  PROVE  DOMAIN G \subseteq S
<1> DEFINE Lengths == {Len(F[k]) : k \in DOMAIN G \ S}
<1> SUFFICES ASSUME DOMAIN G \ S # {} PROVE FALSE
    OBVIOUS
<1>1. Lengths \subseteq Nat /\ Lengths # {}
  <2>1. \A k \in DOMAIN G : Len(F[k]) \in Nat
      BY TreeParent
  <2> QED
      BY <2>1
<1>2. PICK x \in Lengths : \A y \in Lengths : x <= y
    <2> HIDE DEF Lengths
    <2> QED
        BY <1>1, LeastOf
<1>3. PICK k \in DOMAIN G \ S : x = Len(F[k])
    BY <1>2
<1> DEFINE q == G[k].parent
<1>4. q # NoId /\ q \notin S
    BY <1>3
<1>5. /\ q \in DOMAIN G /\ Len(F[q]) \in Nat
      /\ Len(F[k]) = Len(F[q]) + 1
    BY <1>4, TreeParent
<1>6. Len(F[q]) \in Lengths
    BY <1>4, <1>5
<1>7. x <= Len(F[q])
    BY <1>2, <1>6
<1> HIDE DEF Lengths, q
<1> QED
    BY <1>3, <1>5, <1>7

\* Folders with the same names and parents have the same full names.
LEMMA SameFullNames ==
  ASSUME NEW G, NEW F, IsTree(G, F), NEW H, NEW E, IsTree(H, E),
         \A k \in DOMAIN G : /\ k \in DOMAIN H /\ H[k].name = G[k].name
                             /\ H[k].parent = G[k].parent
  PROVE  \A k \in DOMAIN G : E[k] = F[k]
<1> DEFINE S == {k \in DOMAIN G : E[k] = F[k]}
<1>1. ASSUME NEW k \in DOMAIN G, G[k].parent = NoId \/ G[k].parent \in S
      PROVE  k \in S
  <2>1. PICK q, n : q = G[k].parent /\ n = G[k].name
      OBVIOUS
  <2>2. k \in DOMAIN H /\ q = H[k].parent /\ n = H[k].name
      BY <2>1
  <2>3. F[k] = IF q = NoId THEN <<n>> ELSE Append(F[q], n)
      BY <2>1 DEF IsTree
  <2>4. E[k] = IF q = NoId THEN <<n>> ELSE Append(E[q], n)
      BY <2>2 DEF IsTree
  <2> QED
      BY <1>1, <2>1, <2>3, <2>4
<1> HIDE DEF S
<1>2. DOMAIN G \subseteq S
    BY <1>1, TreeInduction
<1> QED
    BY <1>2 DEF S

\* H is G with another name or another parent for folder i.
Changed(G, F, H, E, i) ==
    /\ IsTree(G, F) /\ IsTree(H, E)
    /\ i \in DOMAIN G /\ DOMAIN H = DOMAIN G
    /\ \A k \in DOMAIN G \ {i} : /\ H[k].name = G[k].name
                                 /\ H[k].parent = G[k].parent

\* The folders under i stay under it, and the others keep their full names.
LEMMA UnderStays ==
  ASSUME NEW G, NEW F, NEW H, NEW E, NEW i, Changed(G, F, H, E, i)
  PROVE  \A k \in DOMAIN G : /\ Under(F, i, k) => Under(E, i, k)
                             /\ ~ Under(F, i, k) => E[k] = F[k]
<1> DEFINE S == {k \in DOMAIN G : /\ Under(F, i, k) => Under(E, i, k)
                                  /\ ~ Under(F, i, k) => E[k] = F[k]}
<1>0. /\ IsTree(G, F) /\ IsTree(H, E) /\ i \in DOMAIN G /\ i \in DOMAIN H
      /\ \A k \in DOMAIN G \ {i} : /\ k \in DOMAIN H /\ H[k].name = G[k].name
                                   /\ H[k].parent = G[k].parent
    BY DEF Changed
<1>1. ASSUME NEW k \in DOMAIN G, G[k].parent = NoId \/ G[k].parent \in S
      PROVE  k \in S
  <2>1. CASE k = i
      BY <1>0, <2>1, UnderParent
  <2>2. CASE k # i
    <3>1. PICK q, n : q = G[k].parent /\ n = G[k].name
        OBVIOUS
    <3>2. k \in DOMAIN H /\ q = H[k].parent /\ n = H[k].name
        BY <1>0, <2>2, <3>1
    <3>3. CASE q = NoId
      <4>1. ~ Under(F, i, k)
          BY <1>0, <2>2, <3>1, <3>3, UnderParent
      <4>2. F[k] = <<n>> /\ E[k] = <<n>>
          BY <1>0, <3>1, <3>2, <3>3 DEF IsTree
      <4> QED
          BY <4>1, <4>2
    <3>4. CASE q # NoId
      <4>1. Under(F, i, k) <=> Under(F, i, q)
          BY <1>0, <2>2, <3>1, <3>4, UnderParent
      <4>2. Under(E, i, k) <=> Under(E, i, q)
          BY <1>0, <2>2, <3>2, <3>4, UnderParent
      <4>3. F[k] = Append(F[q], n) /\ E[k] = Append(E[q], n)
          BY <1>0, <3>1, <3>2, <3>4 DEF IsTree
      <4>4. q \in S
          BY <1>1, <3>1, <3>4
      <4> QED
          BY <4>1, <4>2, <4>3, <4>4
    <3> QED
        BY <3>3, <3>4
  <2> QED
      BY <2>1, <2>2
<1> HIDE DEF S
<1>2. DOMAIN G \subseteq S
    BY <1>0, <1>1, TreeInduction
<1> QED
    BY <1>2 DEF S

\* The new parent of i is not under i and keeps its full name.
LEMMA NewParent ==
  ASSUME NEW G, NEW F, NEW H, NEW E, NEW i, Changed(G, F, H, E, i),
         NEW p, p = H[i].parent
  PROVE  p = NoId \/ (p \in DOMAIN G /\ ~ Under(F, i, p) /\ E[p] = F[p])
<1>0. IsTree(H, E) /\ i \in DOMAIN H /\ DOMAIN H = DOMAIN G
    BY DEF Changed
<1> SUFFICES ASSUME p # NoId
             PROVE  p \in DOMAIN G /\ ~ Under(F, i, p) /\ E[p] = F[p]
    OBVIOUS
<1> DEFINE n == H[i].name
<1>1. /\ p \in DOMAIN G /\ n \in Names /\ E[p] \in Seq(Names)
      /\ E[i] = Append(E[p], n)
    BY <1>0, TreeParent
<1> HIDE DEF n
<1>2. ~ Under(E, i, p)
  <2>1. ~ IsPrefix(Append(E[p], n), E[p])
      BY <1>1, PrefixShorter
  <2> QED
      BY <1>1, <2>1 DEF Under
<1> QED
    BY <1>1, <1>2, UnderStays

\* The new full name of i was not that of another folder.
LEMMA NewNameFree ==
  ASSUME NEW G, NEW F, NEW H, NEW E, NEW i, Changed(G, F, H, E, i),
         NEW k \in DOMAIN G, E[i] = F[k]
  PROVE  k = i
<1>0. /\ IsTree(G, F) /\ IsTree(H, E) /\ i \in DOMAIN G /\ i \in DOMAIN H
      /\ DOMAIN H = DOMAIN G
    BY DEF Changed
<1> SUFFICES ASSUME k # i PROVE FALSE
    OBVIOUS
<1>1. CASE ~ Under(F, i, k)
  <2>1. E[k] = E[i]
      BY <1>1, UnderStays
  <2> QED
      BY <1>0, <2>1 DEF IsTree
<1>2. CASE Under(F, i, k)
  <2>1. PICK p, n, q, m : /\ p = H[i].parent /\ n = H[i].name
                          /\ q = G[k].parent /\ m = G[k].name
      OBVIOUS
  <2>2. q # NoId /\ Under(F, i, q)
      BY <1>0, <1>2, <2>1, UnderParent
  <2>3. /\ q \in DOMAIN G /\ F[q] \in Seq(Names) /\ m \in Names
        /\ F[k] = Append(F[q], m) /\ Len(F[q]) \in Nat \ {0}
        /\ Len(F[k]) = Len(F[q]) + 1
      BY <1>0, <2>1, <2>2, TreeParent
  <2>4. CASE p = NoId
    <3>1. Len(E[i]) = 1
        BY <1>0, <2>1, <2>4, TreeRoot
    <3> QED
        BY <2>3, <3>1
  <2>5. CASE p # NoId
    <3>1. E[p] \in Seq(Names) /\ n \in Names /\ E[i] = Append(E[p], n)
        BY <1>0, <2>1, <2>5, TreeParent
    <3>2. p \in DOMAIN G /\ ~ Under(F, i, p) /\ E[p] = F[p]
        BY <2>1, <2>5, NewParent
    <3>3. Extends(E[i], F[p], n) /\ Extends(E[i], F[q], m)
        BY <2>3, <3>1, <3>2 DEF Extends
    <3>4. F[p] = F[q]
        BY <3>3, ExtendsOne
    <3>5. p = q
        BY <1>0, <2>3, <3>2, <3>4 DEF IsTree
    <3> QED
        BY <2>2, <3>2, <3>5
  <2> QED
      BY <2>4, <2>5
<1> QED
    BY <1>1, <1>2

\* The new full name of a folder was not that of another one.
LEMMA NoClash ==
  ASSUME NEW G, NEW F, NEW H, NEW E, NEW i, Changed(G, F, H, E, i)
  PROVE  \A j, k \in DOMAIN G : E[j] = F[k] => j = k
<1>0. /\ IsTree(G, F) /\ IsTree(H, E) /\ i \in DOMAIN G /\ i \in DOMAIN H
      /\ DOMAIN H = DOMAIN G
      /\ \A k \in DOMAIN G \ {i} : /\ H[k].name = G[k].name
                                   /\ H[k].parent = G[k].parent
    BY DEF Changed
<1> DEFINE S == {j \in DOMAIN G : \A k \in DOMAIN G : E[j] = F[k] => j = k}
<1>1. ASSUME NEW j \in DOMAIN H, H[j].parent = NoId \/ H[j].parent \in S,
             NEW k \in DOMAIN G, E[j] = F[k]
      PROVE  j = k
  <2>1. CASE j = i
      BY <1>1, <2>1, NewNameFree
  <2>2. CASE ~ Under(F, i, j)
    <3>1. F[j] = F[k]
        BY <1>0, <1>1, <2>2, UnderStays
    <3> QED
        BY <1>0, <1>1, <3>1 DEF IsTree
  <2>3. CASE ~ Under(F, i, k)
    <3>1. E[j] = E[k]
        BY <1>1, <2>3, UnderStays
    <3> QED
        BY <1>0, <1>1, <3>1 DEF IsTree
  <2>4. CASE j # i /\ Under(F, i, j) /\ Under(F, i, k)
    <3>1. PICK p, n, q, m : /\ p = H[j].parent /\ n = H[j].name
                            /\ q = G[k].parent /\ m = G[k].name
        OBVIOUS
    <3>2. p = G[j].parent /\ n = G[j].name
        BY <1>0, <1>1, <2>4, <3>1
    <3>3. p # NoId /\ Under(F, i, p)
        BY <1>0, <1>1, <2>4, <3>2, UnderParent
    <3>4. p \in S /\ p \in DOMAIN G
        BY <1>1, <3>1, <3>3
    <3>5. /\ E[p] \in Seq(Names) /\ n \in Names /\ E[j] = Append(E[p], n)
          /\ Len(E[p]) \in Nat \ {0} /\ Len(E[j]) = Len(E[p]) + 1
        BY <1>0, <3>1, <3>3, TreeParent
    <3>6. F[j] = Append(F[p], n)
        BY <1>0, <1>1, <3>2, <3>3, TreeParent
    <3>7. q # NoId
      <4>1. q = NoId => Len(F[k]) = 1
          BY <1>0, <3>1, TreeRoot
      <4>2. Len(E[j]) # 1
          BY <3>5
      <4> QED
          BY <1>1, <4>1, <4>2
    <3>8. q \in DOMAIN G /\ F[q] \in Seq(Names) /\ m \in Names /\ F[k] = Append(F[q], m)
        BY <1>0, <3>1, <3>7, TreeParent
    <3>9. E[p] = F[q] /\ n = m
      <4>1. Extends(E[j], E[p], n) /\ Extends(E[j], F[q], m)
          BY <1>1, <3>5, <3>8 DEF Extends
      <4> QED
          BY <4>1, ExtendsOne
    <3>10. p = q
        BY <3>4, <3>8, <3>9
    <3>11. F[j] = F[k]
        BY <3>6, <3>8, <3>9, <3>10
    <3> QED
        BY <1>0, <1>1, <3>11 DEF IsTree
  <2> QED
      BY <2>1, <2>2, <2>3, <2>4
<1>2. ASSUME NEW j \in DOMAIN H, H[j].parent = NoId \/ H[j].parent \in S
      PROVE  j \in S
    BY <1>0, <1>1, <1>2
<1> HIDE DEF S
<1>3. DOMAIN H \subseteq S
    BY <1>0, <1>2, TreeInduction
<1> QED
    BY <1>0, <1>3 DEF S

----------------------------------------------------------------------------
(* One entry of the hash tables.                                           *)

\* Type correctness of both hash tables.
HashesTyped(h) ==
    /\ h = [ids |-> h.ids, names |-> h.names, ok |-> h.ok] /\ h.ok \in BOOLEAN
    /\ DOMAIN h.ids \subseteq Ids
    /\ \A i \in DOMAIN h.ids : h.ids[i] \in FullNames
    /\ DOMAIN h.names \subseteq FullNames
    /\ \A n \in DOMAIN h.names :
          h.names[n] \in [id : Ids, owner : Ids \cup {Freed}]

\* The hash tables hold the folders D under the full names f, both ways, and the
\* key of each entry is the string of the folder it points to.
Mirror(h, D, f) ==
    /\ DOMAIN h.ids = D
    /\ \A j \in D : /\ h.ids[j] = f[j] /\ f[j] \in DOMAIN h.names
                    /\ h.names[f[j]].id = j /\ h.names[f[j]].owner = j
    /\ \A n \in DOMAIN h.names : \E j \in D : n = f[j]

\* An entry of the names.
Entry == [id : Ids, owner : Ids \cup {Freed}]

\* A table of full names whose entries are well-typed.
NamesTyped(names) ==
    DOMAIN names \subseteq FullNames /\ \A n \in DOMAIN names : names[n] \in Entry

\* Freeing strings changes no key and no id, and no entry of another folder.
LEMMA FreeStringsEffect ==
  ASSUME NEW names, NamesTyped(names), NEW i
  PROVE  /\ NamesTyped(FreeStrings(names, i))
         /\ DOMAIN FreeStrings(names, i) = DOMAIN names
         /\ \A n \in DOMAIN names : FreeStrings(names, i)[n].id = names[n].id
         /\ \A n \in DOMAIN names :
               names[n].id # i /\ names[n].owner # i
               => FreeStrings(names, i)[n] = names[n]
BY DEF NamesTyped, FreeStrings, Entry

\* Inserting a full name makes its entry point to i, with a string of i unless
\* there was an entry, and changes no other entry.
LEMMA InsertNameEffect ==
  ASSUME NEW names, NamesTyped(names), NEW full \in FullNames, NEW i \in Ids
  PROVE  /\ NamesTyped(InsertName(names, full, i))
         /\ \A n : n \in DOMAIN InsertName(names, full, i)
                  <=> n \in DOMAIN names \/ n = full
         /\ InsertName(names, full, i)[full].id = i
         /\ InsertName(names, full, i)[full].owner =
               IF full \in DOMAIN names THEN names[full].owner ELSE i
         /\ \A n \in DOMAIN names \ {full} :
               InsertName(names, full, i)[n] = names[n]
BY DEF NamesTyped, InsertName, With, Entry

\* Removing a full name leaves the other entries alone.
LEMMA WithoutEffect ==
  ASSUME NEW names, NamesTyped(names), NEW k
  PROVE  /\ NamesTyped(Without(names, k))
         /\ DOMAIN Without(names, k) = DOMAIN names \ {k}
         /\ \A n \in DOMAIN names \ {k} : Without(names, k)[n] = names[n]
BY DEF NamesTyped, Without

\* Inserting changes one entry.
LEMMA WithEffect ==
  ASSUME NEW f, NEW i, NEW x
  PROVE  /\ \A j : j \in DOMAIN With(f, i, x) <=> j \in DOMAIN f \/ j = i
         /\ With(f, i, x)[i] = x
         /\ \A j \in DOMAIN f \ {i} : With(f, i, x)[j] = f[j]
BY DEF With

\* A round of load_id_fname_hash keeps the tables well-typed.
LEMMA AddOneTyped ==
  ASSUME NEW groups, NEW h, HashesTyped(h), NEW i \in Ids,
         BuildFullName(groups, i) \in FullNames
  PROVE  HashesTyped(AddOne(groups, h, i)) /\ AddOne(groups, h, i).ok = h.ok
<1> DEFINE full == BuildFullName(groups, i)
           r == AddOne(groups, h, i)
           ids == With(h.ids, i, full)
           names == InsertName(h.names, full, i)
<1>1. r = [h EXCEPT !.ids = ids, !.names = names]
    BY DEF AddOne
<1>2. h = [ids |-> h.ids, names |-> h.names, ok |-> h.ok] /\ h.ok \in BOOLEAN
    BY DEF HashesTyped
<1> HIDE DEF r, ids, names
<1>3. r = [ids |-> ids, names |-> names, ok |-> h.ok]
    BY <1>1, <1>2
<1>4. NamesTyped(names)
  <2>1. NamesTyped(h.names)
      BY DEF HashesTyped, NamesTyped, Entry
  <2> QED
      BY <2>1, InsertNameEffect DEF names
<1>5. DOMAIN ids \subseteq Ids /\ \A j \in DOMAIN ids : ids[j] \in FullNames
    BY WithEffect DEF HashesTyped, ids
<1>6. r.ids = ids /\ r.names = names /\ r.ok = h.ok
    BY <1>3
<1>7. HashesTyped(r)
    BY <1>2, <1>3, <1>4, <1>5, <1>6 DEF HashesTyped, NamesTyped, Entry
<1> QED
    BY <1>6, <1>7 DEF r

\* A folder is added under a full name that no other folder has.
LEMMA AddOneMirrors ==
  ASSUME NEW groups, NEW h, HashesTyped(h), NEW i \in Ids,
         NEW full \in FullNames, full = BuildFullName(groups, i),
         NEW D, NEW f, Mirror(h, D, f),
         NEW g, g[i] = full, \A j \in D \ {i} : g[j] = f[j] /\ f[j] # full,
         i \notin D \/ f[i] = full
  PROVE  Mirror(AddOne(groups, h, i), D \cup {i}, g)
<1> DEFINE r == AddOne(groups, h, i)
           ids == With(h.ids, i, full)
           names == InsertName(h.names, full, i)
<1>1. r.ids = ids /\ r.names = names /\ r.ok = h.ok
    BY DEF HashesTyped, AddOne
<1>2. NamesTyped(h.names)
    BY DEF HashesTyped, NamesTyped, Entry
<1>3. /\ \A n : n \in DOMAIN names <=> n \in DOMAIN h.names \/ n = full
      /\ names[full].id = i
      /\ names[full].owner = IF full \in DOMAIN h.names THEN h.names[full].owner ELSE i
      /\ \A n \in DOMAIN h.names \ {full} : names[n] = h.names[n]
    BY <1>2, InsertNameEffect
<1>4. /\ \A j : j \in DOMAIN ids <=> j \in DOMAIN h.ids \/ j = i
      /\ ids[i] = full
      /\ \A j \in DOMAIN h.ids \ {i} : ids[j] = h.ids[j]
    BY WithEffect
<1> HIDE DEF r, ids, names
<1>5. /\ DOMAIN h.ids = D
      /\ \A j \in D : /\ h.ids[j] = f[j] /\ f[j] \in DOMAIN h.names
                      /\ h.names[f[j]].id = j /\ h.names[f[j]].owner = j
      /\ \A n \in DOMAIN h.names : \E j \in D : n = f[j]
    BY DEF Mirror
<1>6. ASSUME NEW j \in D \cup {i}
      PROVE  /\ ids[j] = g[j] /\ g[j] \in DOMAIN names
             /\ names[g[j]].id = j /\ names[g[j]].owner = j
    BY <1>3, <1>4, <1>5
<1>7. ASSUME NEW n \in DOMAIN names
      PROVE  \E j \in D \cup {i} : n = g[j]
    BY <1>3, <1>5
<1>8. Mirror(r, D \cup {i}, g)
    BY <1>1, <1>4, <1>5, <1>6, <1>7 DEF Mirror
<1> QED
    BY <1>8 DEF r

\* A round of map_ss_hash_replace keeps the tables well-typed, also when it meets
\* a NULL and ends the process.
LEMMA ReplaceOneTyped ==
  ASSUME NEW groups, Groups(groups), NEW h, HashesTyped(h), NEW i \in Ids
  PROVE  HashesTyped(ReplaceOne(groups, h, i))
<1> DEFINE known == i \in DOMAIN h.ids
           full == BuildFullName(groups, i)
           fits == /\ ~Cyclic(groups, i) /\ full # NoName
                   /\ known => h.ids[i] \in DOMAIN h.names
           rest == IF known /\ h.names[h.ids[i]].id = i
                   THEN Without(h.names, h.ids[i]) ELSE h.names
           kept == IF known THEN FreeStrings(rest, i) ELSE rest
           ids == With(h.ids, i, full)
           names == InsertName(kept, full, i)
           r == ReplaceOne(groups, h, i)
<1>1. r = IF ~h.ok \/ ~fits THEN [h EXCEPT !.ok = FALSE]
          ELSE [ids |-> ids, names |-> names, ok |-> TRUE]
    BY DEF ReplaceOne
<1>2. NamesTyped(h.names)
    BY DEF HashesTyped, NamesTyped, Entry
<1>3. NamesTyped(rest)
  <2>1. NamesTyped(Without(h.names, h.ids[i]))
      BY <1>2, WithoutEffect
  <2> QED
      BY <1>2, <2>1
<1>4. NamesTyped(kept)
  <2> HIDE DEF rest
  <2>1. NamesTyped(FreeStrings(rest, i))
      BY <1>3, FreeStringsEffect
  <2> QED
      BY <1>3, <2>1
<1>5. h = [ids |-> h.ids, names |-> h.names, ok |-> h.ok] /\ h.ok \in BOOLEAN
    BY DEF HashesTyped
<1>6. fits => ~Cyclic(groups, i) /\ full # NoName
    OBVIOUS
<1> HIDE DEF fits, kept
<1>7. CASE ~h.ok \/ ~fits
  <2>1. r = [ids |-> h.ids, names |-> h.names, ok |-> FALSE]
      BY <1>1, <1>5, <1>7
  <2> HIDE DEF r
  <2>2. r.ids = h.ids /\ r.names = h.names /\ r.ok = FALSE
      BY <2>1
  <2>3. HashesTyped(r)
      BY <2>1, <2>2 DEF HashesTyped
  <2> QED
      BY <2>3 DEF r
<1>8. CASE h.ok /\ fits
  <2>1. r = [ids |-> ids, names |-> names, ok |-> TRUE]
      BY <1>1, <1>8
  <2>2. full \in FullNames
    <3> DEFINE name == NameOf(groups, i)
               p == ParentOf(groups, i)
    <3>1. name # NoName
        BY <1>6, <1>8, FullNameIs
    <3>2. IsPath(full, MaxDepth)
        BY <1>6, <1>8, <3>1, FullNameIs
    <3> QED
        BY <3>2, DepthIsNat, PathNotNone
  <2> HIDE DEF r, full
  <2>3. NamesTyped(names)
      BY <1>4, <2>2, InsertNameEffect
  <2>4. DOMAIN ids \subseteq Ids /\ \A j \in DOMAIN ids : ids[j] \in FullNames
      BY <2>2, WithEffect DEF HashesTyped
  <2>5. r.ids = ids /\ r.names = names /\ r.ok = TRUE
      BY <2>1
  <2> HIDE DEF ids, names
  <2>6. HashesTyped(r)
      BY <2>1, <2>3, <2>4, <2>5 DEF HashesTyped, NamesTyped, Entry
  <2> QED
      BY <2>6 DEF r
<1> QED
    BY <1>7, <1>8

\* A folder gets a full name that no other folder has.
LEMMA ReplaceOneMirrors ==
  ASSUME NEW groups, NEW h, HashesTyped(h), h.ok, NEW i \in Ids,
         ~Cyclic(groups, i), NEW full \in FullNames,
         full = BuildFullName(groups, i), full # NoName,
         NEW D, NEW f, Mirror(h, D, f),
         NEW g, g[i] = full, \A j \in D \ {i} : g[j] = f[j] /\ f[j] # full
  PROVE  /\ ReplaceOne(groups, h, i).ok
         /\ Mirror(ReplaceOne(groups, h, i), D \cup {i}, g)
<1> DEFINE known == i \in DOMAIN h.ids
           rest == IF known /\ h.names[h.ids[i]].id = i
                   THEN Without(h.names, h.ids[i]) ELSE h.names
           kept == IF known THEN FreeStrings(rest, i) ELSE rest
           ids == With(h.ids, i, full)
           names == InsertName(kept, full, i)
           r == ReplaceOne(groups, h, i)
<1>1. known <=> i \in D
    BY DEF Mirror
<1>2. known => /\ h.ids[i] = f[i] /\ h.ids[i] \in DOMAIN h.names
               /\ h.names[h.ids[i]].id = i
    BY DEF Mirror
<1>3. r = [ids |-> ids, names |-> names, ok |-> TRUE]
    BY <1>2 DEF ReplaceOne
<1>4. NamesTyped(h.names)
    BY DEF HashesTyped, NamesTyped, Entry
<1>5. /\ NamesTyped(kept)
      /\ known => DOMAIN kept = DOMAIN h.names \ {f[i]}
      /\ ~known => DOMAIN kept = DOMAIN h.names
      /\ \A n \in DOMAIN kept :
            h.names[n].id # i /\ h.names[n].owner # i => kept[n] = h.names[n]
  <2>1. CASE known
    <3> DEFINE w == Without(h.names, f[i])
    <3>1. kept = FreeStrings(w, i)
        BY <1>2, <2>1
    <3>2. /\ NamesTyped(w) /\ DOMAIN w = DOMAIN h.names \ {f[i]}
          /\ \A n \in DOMAIN h.names \ {f[i]} : w[n] = h.names[n]
        BY <1>4, WithoutEffect
    <3> HIDE DEF w, kept
    <3>3. /\ NamesTyped(kept) /\ DOMAIN kept = DOMAIN w
          /\ \A n \in DOMAIN w : w[n].id # i /\ w[n].owner # i => kept[n] = w[n]
        BY <3>1, <3>2, FreeStringsEffect
    <3> QED
        BY <2>1, <3>2, <3>3
  <2>2. CASE ~known
    <3>1. kept = h.names
        BY <2>2
    <3> QED
        BY <1>4, <2>2, <3>1
  <2> QED
      BY <2>1, <2>2
<1> HIDE DEF kept, known
<1>6. /\ \A n : n \in DOMAIN names <=> n \in DOMAIN kept \/ n = full
      /\ names[full].id = i
      /\ names[full].owner = IF full \in DOMAIN kept THEN kept[full].owner ELSE i
      /\ \A n \in DOMAIN kept \ {full} : names[n] = kept[n]
    BY <1>5, InsertNameEffect
<1>7. /\ \A j : j \in DOMAIN ids <=> j \in DOMAIN h.ids \/ j = i
      /\ ids[i] = full
      /\ \A j \in DOMAIN h.ids \ {i} : ids[j] = h.ids[j]
    BY WithEffect
<1> HIDE DEF ids, names, r
<1>8. r.ids = ids /\ r.names = names /\ r.ok = TRUE
    BY <1>3
<1>9. \A j \in D : /\ h.ids[j] = f[j] /\ f[j] \in DOMAIN h.names
                   /\ h.names[f[j]].id = j /\ h.names[f[j]].owner = j
    BY DEF Mirror
<1>10. DOMAIN h.ids = D /\ \A n \in DOMAIN h.names : \E j \in D : n = f[j]
    BY DEF Mirror
<1>11. ASSUME NEW j \in D \cup {i}
       PROVE  /\ ids[j] = g[j] /\ g[j] \in DOMAIN names
              /\ names[g[j]].id = j /\ names[g[j]].owner = j
  <2>1. CASE j = i
    <3>1. full \notin DOMAIN kept
        BY <1>1, <1>5, <1>10
    <3> QED
        BY <1>6, <1>7, <2>1, <3>1
  <2>2. CASE j # i
    <3>1. /\ j \in D /\ g[j] = f[j] /\ f[j] # full /\ ids[j] = f[j]
          /\ f[j] \in DOMAIN h.names
          /\ h.names[f[j]].id = j /\ h.names[f[j]].owner = j
        BY <1>7, <1>9, <1>10, <2>2
    <3>2. known => f[i] # f[j]
        BY <1>1, <1>9, <2>2, <3>1
    <3>3. f[j] \in DOMAIN kept
        BY <1>5, <3>1, <3>2
    <3> QED
        BY <1>5, <1>6, <3>1, <3>3
  <2> QED
      BY <2>1, <2>2
<1>12. ASSUME NEW n \in DOMAIN names
       PROVE  \E j \in D \cup {i} : n = g[j]
  <2>1. CASE n = full
      BY <2>1
  <2>2. CASE n # full
    <3>1. n \in DOMAIN kept /\ n \in DOMAIN h.names
        BY <1>5, <1>6, <2>2
    <3>2. PICK j \in D : n = f[j]
        BY <1>10, <3>1
    <3>3. j # i
        BY <1>1, <1>5, <3>1, <3>2
    <3> QED
        BY <3>2, <3>3
  <2> QED
      BY <2>1, <2>2
<1>13. Mirror(r, D \cup {i}, g)
    BY <1>7, <1>8, <1>10, <1>11, <1>12 DEF Mirror
<1> QED
    BY <1>8, <1>13 DEF r

----------------------------------------------------------------------------
(* The loops over the folders.                                             *)

\* One round of a loop: that of load_id_fname_hash or of map_ss_hash_replace.
Round(loop, groups, h, i) ==
    IF loop = "add" THEN AddOne(groups, h, i) ELSE ReplaceOne(groups, h, i)

\* f has what the loop makes of base for every set of rounds.
LoopOver(loop, groups, base, order, n, f) ==
    f = [s \in SUBSET (1..n) |->
            IF s = {} THEN base
            ELSE Round(loop, groups, f[s \ {Max(s)}], order[Max(s)])]

\* What there is after m rounds.
AfterRounds(f, m) == f[1..m]

\* The loop has a result for every set of rounds.
LEMMA LoopExists ==
  ASSUME NEW loop, NEW groups, NEW base, NEW order, NEW n \in Nat
  PROVE  \E f : LoopOver(loop, groups, base, order, n, f)
<1> DEFINE S == {m \in Nat : \E f : LoopOver(loop, groups, base, order, m, f)}
<1>1. 0 \in S
  <2>1. LoopOver(loop, groups, base, order, 0, [s \in SUBSET (1..0) |-> base])
    <3>1. \A s \in SUBSET (1..0) : s = {}
        OBVIOUS
    <3> QED
        BY <3>1 DEF LoopOver
  <2> QED
      BY <2>1
<1>2. ASSUME NEW m \in 0..n, m \in S, m + 1 <= n
      PROVE  m + 1 \in S
  <2>1. PICK f : LoopOver(loop, groups, base, order, m, f)
      BY <1>2
  <2>2. m \in Nat /\ m + 1 \in Nat
      OBVIOUS
  <2> DEFINE g == [s \in SUBSET (1..(m + 1)) |->
                      IF s \in SUBSET (1..m) THEN f[s]
                      ELSE Round(loop, groups, f[s \ {m + 1}], order[m + 1])]
  <2>3. \A s \in SUBSET (1..m) :
           /\ s \in SUBSET (1..(m + 1))
           /\ s \ {Max(s)} \in SUBSET (1..m)
           /\ s \ {Max(s)} \in SUBSET (1..(m + 1))
    <3>1. 1..m \subseteq 1..(m + 1)
        BY <2>2
    <3>2. \A s \in SUBSET (1..m) : \A x : s \ {x} \in SUBSET (1..m)
        OBVIOUS
    <3>3. \A s \in SUBSET (1..m) : s \ {Max(s)} \in SUBSET (1..m)
        BY <3>2
    <3> QED
        BY <3>1, <3>3
  <2>4. \A s \in SUBSET (1..m) : g[s] = f[s]
      BY <2>3
  <2>5. \A s \in SUBSET (1..(m + 1)) : s \notin SUBSET (1..m) =>
           g[s] = Round(loop, groups, f[s \ {m + 1}], order[m + 1])
      OBVIOUS
  <2>6. g = [s \in SUBSET (1..(m + 1)) |-> g[s]]
      OBVIOUS
  <2> HIDE DEF g
  <2>7. ASSUME NEW s \in SUBSET (1..(m + 1))
        PROVE  g[s] = IF s = {} THEN base
                      ELSE Round(loop, groups, g[s \ {Max(s)}], order[Max(s)])
    <3>1. CASE s \in SUBSET (1..m)
      <4>1. f[s] = IF s = {} THEN base
                   ELSE Round(loop, groups, f[s \ {Max(s)}], order[Max(s)])
          BY <2>1, <3>1 DEF LoopOver
      <4>2. g[s] = f[s] /\ g[s \ {Max(s)}] = f[s \ {Max(s)}]
          BY <2>3, <2>4, <3>1
      <4> QED
          BY <4>1, <4>2
    <3>2. CASE s \notin SUBSET (1..m)
      <4>1. m + 1 \in s /\ s # {} /\ \A y \in s : m + 1 >= y
          BY <2>2, <3>2
      <4>2. Max(s) = m + 1
        <5>1. \A x \in s : (\A y \in s : x >= y) => x = m + 1
            BY <2>2, <4>1
        <5> QED
            BY <4>1, <5>1 DEF Max
      <4>3. s \ {m + 1} \in SUBSET (1..m)
          BY <2>2
      <4>4. g[s] = Round(loop, groups, f[s \ {m + 1}], order[m + 1])
          BY <2>5, <3>2
      <4>5. g[s \ {m + 1}] = f[s \ {m + 1}]
          BY <2>4, <4>3
      <4> QED
          BY <4>1, <4>2, <4>4, <4>5
    <3> QED
        BY <3>1, <3>2
  <2>8. LoopOver(loop, groups, base, order, m + 1, g)
      BY <2>6, <2>7 DEF LoopOver
  <2> QED
      BY <2>2, <2>8
<1> HIDE DEF S
<1>3. 0..n \subseteq S
    BY <1>1, <1>2, Induct
<1>4. n \in S
    BY <1>3
<1> QED
    BY <1>4 DEF S

\* The loop of load_id_fname_hash.
LEMMA AddLoop ==
  ASSUME NEW groups, NEW base, NEW order, NEW n \in Nat, DOMAIN order = 1..n
  PROVE  \E f : /\ LoopOver("add", groups, base, order, n, f)
                /\ AddEach(groups, base, order) = AfterRounds(f, n)
<1> DEFINE Q(f) == f = [s \in SUBSET (DOMAIN order) |->
                          IF s = {} THEN base
                          ELSE AddOne(groups, f[s \ {Max(s)}], order[Max(s)])]
           it == CHOOSE f : Q(f)
<1>1. \A f : LoopOver("add", groups, base, order, n, f) <=> Q(f)
    BY DEF LoopOver, Round
<1>2. AddEach(groups, base, order) = it[DOMAIN order]
    BY DEF AddEach, FoldLeft, MapThenFoldSet
<1>3. \E f : Q(f)
    BY <1>1, LoopExists
<1> HIDE DEF Q
<1>4. Q(it)
    BY <1>3
<1> QED
    BY <1>1, <1>2, <1>4 DEF AfterRounds

\* The loop of map_ss_hash_replace.
LEMMA ReplaceLoop ==
  ASSUME NEW groups, NEW base, NEW order, NEW n \in Nat, DOMAIN order = 1..n
  PROVE  \E f : /\ LoopOver("replace", groups, base, order, n, f)
                /\ ReplaceEach(groups, base, order) = AfterRounds(f, n)
<1> DEFINE Q(f) == f = [s \in SUBSET (DOMAIN order) |->
                          IF s = {} THEN base
                          ELSE ReplaceOne(groups, f[s \ {Max(s)}], order[Max(s)])]
           it == CHOOSE f : Q(f)
<1>1. \A f : LoopOver("replace", groups, base, order, n, f) <=> Q(f)
    BY DEF LoopOver, Round
<1>2. ReplaceEach(groups, base, order) = it[DOMAIN order]
    BY DEF ReplaceEach, FoldLeft, MapThenFoldSet
<1>3. \E f : Q(f)
    BY <1>1, LoopExists
<1> HIDE DEF Q
<1>4. Q(it)
    BY <1>3
<1> QED
    BY <1>1, <1>2, <1>4 DEF AfterRounds

\* Round after round.
LEMMA LoopRounds ==
  ASSUME NEW loop, NEW groups, NEW base, NEW order, NEW n \in Nat, NEW f,
         LoopOver(loop, groups, base, order, n, f)
  PROVE  /\ AfterRounds(f, 0) = base
         /\ \A m \in 0..n : m + 1 <= n =>
               AfterRounds(f, m + 1)
               = Round(loop, groups, AfterRounds(f, m), order[m + 1])
<1>1. f[1..0] = base
  <2>1. 1..0 = {} /\ 1..0 \in SUBSET (1..n)
      OBVIOUS
  <2> QED
      BY <2>1 DEF LoopOver
<1>2. ASSUME NEW m \in 0..n, m + 1 <= n
      PROVE  f[1..(m + 1)] = Round(loop, groups, f[1..m], order[m + 1])
  <2> DEFINE s == 1..(m + 1)
  <2>1. s \in SUBSET (1..n) /\ s # {} /\ m + 1 \in s /\ \A y \in s : m + 1 >= y
      BY <1>2
  <2>2. s \ {m + 1} = 1..m
      BY <1>2
  <2>3. \A x \in s : (\A y \in s : x >= y) => x = m + 1
      BY <1>2
  <2> HIDE DEF s
  <2>4. Max(s) = m + 1
      BY <2>1, <2>3 DEF Max
  <2>5. f[s] = Round(loop, groups, f[s \ {Max(s)}], order[Max(s)])
      BY <2>1 DEF LoopOver
  <2> QED
      BY <2>2, <2>4, <2>5 DEF s
<1> QED
    BY <1>1, <1>2 DEF AfterRounds

\* order has n elements, those of S.
Covers(order, n, S) ==
    /\ DOMAIN order = 1..n
    /\ \A k \in 1..n : order[k] \in S
    /\ \A x \in S : \E k \in 1..n : order[k] = x

\* An order of a finite set has its elements and no others.
LEMMA OrderCovers ==
  ASSUME NEW S, IsFiniteSet(S), NEW order \in SetToSeqs(S)
  PROVE  \E n \in Nat : Covers(order, n, S)
<1> DEFINE n == Cardinality(S)
<1>1. n \in Nat
    BY FS_CardinalityType
<1>2. /\ order \in [1..n -> S]
      /\ \A i, j \in 1..n : i # j => order[i] # order[j]
    BY DEF SetToSeqs
<1>3. order \in Injection(1..n, S)
    BY <1>2 DEF Injection, IsInjective
<1>4. Cardinality(1..n) = n
  <2> HIDE DEF n
  <2>1. Cardinality(1..n) = IF 1 > n THEN 0 ELSE n - 1 + 1
      BY <1>1, FS_Interval
  <2> QED
      BY <1>1, <2>1
<1>5. order \in Surjection(1..n, S)
    BY <1>3, <1>4, FS_Injection
<1>6. \A x \in S : \E k \in 1..n : order[k] = x
    BY <1>5 DEF Surjection
<1> HIDE DEF n
<1>7. Covers(order, n, S)
    BY <1>2, <1>6 DEF Covers
<1> QED
    BY <1>1, <1>7

\* The folders of the first m rounds.
Done(order, m) == {order[k] : k \in 1..m}

\* One round more is one folder more.
LEMMA DoneNext ==
  ASSUME NEW order, NEW m \in Nat
  PROVE  /\ Done(order, 0) = {}
         /\ Done(order, m + 1) = Done(order, m) \cup {order[m + 1]}
<1>1. 1..0 = {} /\ 1..(m + 1) = 1..m \cup {m + 1}
    OBVIOUS
<1> QED
    BY <1>1 DEF Done

\* After every round the hash tables are well-typed.
LEMMA ReplaceLoopTyped ==
  ASSUME NEW groups, Groups(groups), NEW base, HashesTyped(base),
         NEW S, S \subseteq Ids, NEW order \in SetToSeqs(S)
  PROVE  HashesTyped(ReplaceEach(groups, base, order))
<1>1. IsFiniteSet(S)
    BY IdsAreFinite, FS_Subset
<1>2. PICK n \in Nat : Covers(order, n, S)
    BY <1>1, OrderCovers
<1>d. DOMAIN order = 1..n
    BY <1>2 DEF Covers
<1>3. PICK f : /\ LoopOver("replace", groups, base, order, n, f)
               /\ ReplaceEach(groups, base, order) = AfterRounds(f, n)
    BY <1>d, ReplaceLoop
<1> DEFINE T == {m \in Nat : HashesTyped(AfterRounds(f, m))}
<1>4. /\ AfterRounds(f, 0) = base
      /\ \A m \in 0..n : m + 1 <= n =>
            AfterRounds(f, m + 1)
            = Round("replace", groups, AfterRounds(f, m), order[m + 1])
    BY <1>3, LoopRounds
<1>5. 0 \in T
    BY <1>4
<1>6. ASSUME NEW m \in 0..n, m \in T, m + 1 <= n
      PROVE  m + 1 \in T
  <2>1. AfterRounds(f, m + 1) = ReplaceOne(groups, AfterRounds(f, m), order[m + 1])
      BY <1>4, <1>6 DEF Round
  <2>0. m + 1 \in 1..n
      BY <1>6
  <2>2. order[m + 1] \in Ids /\ HashesTyped(AfterRounds(f, m)) /\ m + 1 \in Nat
      BY <1>2, <1>6, <2>0 DEF Covers
  <2>3. HashesTyped(AfterRounds(f, m + 1))
      BY <2>1, <2>2, ReplaceOneTyped
  <2> QED
      BY <2>2, <2>3
<1> HIDE DEF T
<1>7. n \in T
    BY <1>5, <1>6, Induct
<1> QED
    BY <1>3, <1>7 DEF T

\* The full names E for the folders X, and F for the others.
Mix(D, X, E, F) == [j \in D |-> IF j \in X THEN E[j] ELSE F[j]]

\* E gives the folders D their full names in groups; no one of them is that of
\* another folder, nor the one another folder has in F.
Renames(groups, D, E, F) ==
    \A j \in D : /\ j \in Ids /\ ~Cyclic(groups, j)
                 /\ E[j] = BuildFullName(groups, j)
                 /\ E[j] \in FullNames /\ E[j] # NoName
                 /\ \A k \in D : (E[j] = F[k] \/ E[j] = E[k]) => j = k

\* A round gives one more folder its new full name, whatever the others have.
LEMMA ReplaceMixed ==
  ASSUME NEW groups, NEW D, NEW E, NEW F, Renames(groups, D, E, F),
         NEW h, HashesTyped(h), h.ok, NEW X, Mirror(h, D, Mix(D, X, E, F)),
         NEW i \in D
  PROVE  /\ ReplaceOne(groups, h, i).ok
         /\ Mirror(ReplaceOne(groups, h, i), D, Mix(D, X \cup {i}, E, F))
<1> DEFINE f == Mix(D, X, E, F)
           g == Mix(D, X \cup {i}, E, F)
<1>1. PICK full : full = E[i]
    OBVIOUS
<1>2. /\ i \in Ids /\ ~Cyclic(groups, i) /\ full \in FullNames /\ full # NoName
      /\ full = BuildFullName(groups, i)
    BY <1>1 DEF Renames
<1>3. g[i] = full
    BY <1>1 DEF Mix
<1>4. \A j \in D \ {i} : g[j] = f[j] /\ f[j] # full
  <2> TAKE j \in D \ {i}
  <2>1. g[j] = f[j] /\ (f[j] = E[j] \/ f[j] = F[j])
      BY DEF Mix
  <2>2. E[j] # full /\ F[j] # full
      BY <1>1 DEF Renames
  <2> HIDE DEF f, g
  <2> QED
      BY <2>1, <2>2
<1> HIDE DEF f, g
<1>5. D \cup {i} = D
    OBVIOUS
<1>6. Mirror(h, D, f)
    BY DEF f
<1>7. /\ ReplaceOne(groups, h, i).ok
      /\ Mirror(ReplaceOne(groups, h, i), D \cup {i}, g)
    BY <1>2, <1>3, <1>4, <1>6, ReplaceOneMirrors
<1> QED
    BY <1>5, <1>7 DEF g

\* The loop of map_ss_hash_replace gives the folders S their new full names.
LEMMA ReplaceLoopMirrors ==
  ASSUME NEW groups, Groups(groups), NEW D, NEW E, NEW F, Renames(groups, D, E, F),
         NEW base, HashesTyped(base), base.ok,
         NEW X, Mirror(base, D, Mix(D, X, E, F)),
         NEW S, S \subseteq D, NEW order \in SetToSeqs(S),
         NEW r, r = ReplaceEach(groups, base, order)
  PROVE  r.ok /\ Mirror(r, D, Mix(D, X \cup S, E, F))
<1>0. S \subseteq Ids
    BY DEF Renames
<1>1. IsFiniteSet(S)
    BY <1>0, IdsAreFinite, FS_Subset
<1>2. PICK n \in Nat : Covers(order, n, S)
    BY <1>1, OrderCovers
<1>d. DOMAIN order = 1..n
    BY <1>2 DEF Covers
<1>3. PICK f : /\ LoopOver("replace", groups, base, order, n, f)
               /\ ReplaceEach(groups, base, order) = AfterRounds(f, n)
    BY <1>d, ReplaceLoop
<1> DEFINE good(h, m) == /\ HashesTyped(h) /\ h.ok
                         /\ Mirror(h, D, Mix(D, X \cup Done(order, m), E, F))
           T == {m \in Nat : good(AfterRounds(f, m), m)}
<1>4. /\ AfterRounds(f, 0) = base
      /\ \A m \in 0..n : m + 1 <= n =>
            AfterRounds(f, m + 1)
            = Round("replace", groups, AfterRounds(f, m), order[m + 1])
    BY <1>3, LoopRounds
<1>5. 0 \in T
  <2>1. X \cup Done(order, 0) = X
      BY DoneNext
  <2> QED
      BY <1>4, <2>1
<1>6. ASSUME NEW m \in 0..n, m \in T, m + 1 <= n
      PROVE  m + 1 \in T
  <2>1. AfterRounds(f, m + 1) = ReplaceOne(groups, AfterRounds(f, m), order[m + 1])
      BY <1>4, <1>6 DEF Round
  <2>2. PICK h, i, Y : /\ h = AfterRounds(f, m) /\ i = order[m + 1]
                       /\ Y = X \cup Done(order, m)
      OBVIOUS
  <2>3. i \in D /\ i \in Ids /\ m + 1 \in Nat /\ m \in Nat
    <3>1. m + 1 \in 1..n
        BY <1>6
    <3> QED
        BY <1>0, <1>2, <2>2, <3>1 DEF Covers
  <2>4. HashesTyped(h) /\ h.ok /\ Mirror(h, D, Mix(D, Y, E, F))
      BY <1>6, <2>2
  <2>5. HashesTyped(ReplaceOne(groups, h, i))
      BY <2>3, <2>4, ReplaceOneTyped
  <2>6. /\ ReplaceOne(groups, h, i).ok
        /\ Mirror(ReplaceOne(groups, h, i), D, Mix(D, Y \cup {i}, E, F))
      BY <2>3, <2>4, ReplaceMixed
  <2>7. X \cup Done(order, m + 1) = Y \cup {i}
    <3>1. Done(order, m + 1) = Done(order, m) \cup {order[m + 1]}
        BY <2>3, DoneNext
    <3> QED
        BY <2>2, <3>1
  <2>8. good(AfterRounds(f, m + 1), m + 1)
      BY <2>1, <2>2, <2>5, <2>6, <2>7
  <2> HIDE DEF good
  <2> QED
      BY <2>3, <2>8
<1>7. n \in T
  <2> HIDE DEF T
  <2> QED
      BY <1>5, <1>6, Induct
<1>8. X \cup Done(order, n) = X \cup S
    BY <1>2 DEF Covers, Done
<1> QED
    BY <1>3, <1>7, <1>8

\* The loop of load_id_fname_hash, for folders with full names.
LEMMA AddLoopTyped ==
  ASSUME NEW groups, NEW S, S \subseteq Ids, NEW order \in SetToSeqs(S),
         \A i \in S : BuildFullName(groups, i) \in FullNames,
         NEW r, r = AddEach(groups, NoHashes, order)
  PROVE  HashesTyped(r) /\ r.ok
<1>1. IsFiniteSet(S)
    BY IdsAreFinite, FS_Subset
<1>2. PICK n \in Nat : Covers(order, n, S)
    BY <1>1, OrderCovers
<1>d. DOMAIN order = 1..n
    BY <1>2 DEF Covers
<1>3. PICK f : /\ LoopOver("add", groups, NoHashes, order, n, f)
               /\ AddEach(groups, NoHashes, order) = AfterRounds(f, n)
    BY <1>d, AddLoop
<1> DEFINE T == {m \in Nat : /\ HashesTyped(AfterRounds(f, m))
                             /\ AfterRounds(f, m).ok = TRUE}
<1>4. /\ AfterRounds(f, 0) = NoHashes
      /\ \A m \in 0..n : m + 1 <= n =>
            AfterRounds(f, m + 1)
            = Round("add", groups, AfterRounds(f, m), order[m + 1])
    BY <1>3, LoopRounds
<1>5. 0 \in T
  <2>1. HashesTyped(NoHashes) /\ NoHashes.ok = TRUE
      BY DEF HashesTyped, NoHashes, Empty
  <2> QED
      BY <1>4, <2>1
<1>6. ASSUME NEW m \in 0..n, m \in T, m + 1 <= n
      PROVE  m + 1 \in T
  <2>1. AfterRounds(f, m + 1) = AddOne(groups, AfterRounds(f, m), order[m + 1])
      BY <1>4, <1>6 DEF Round
  <2>2. /\ order[m + 1] \in Ids /\ HashesTyped(AfterRounds(f, m)) /\ m + 1 \in Nat
        /\ BuildFullName(groups, order[m + 1]) \in FullNames
        /\ AfterRounds(f, m).ok = TRUE
    <3>1. m + 1 \in 1..n
        BY <1>6
    <3>2. order[m + 1] \in S
        BY <1>2, <3>1 DEF Covers
    <3> QED
        BY <1>6, <3>2
  <2>3. HashesTyped(AfterRounds(f, m + 1)) /\ AfterRounds(f, m + 1).ok = TRUE
      BY <2>1, <2>2, AddOneTyped
  <2> QED
      BY <2>2, <2>3
<1> HIDE DEF T
<1>7. n \in T
    BY <1>5, <1>6, Induct
<1> QED
    BY <1>3, <1>7 DEF T

\* The loop of load_id_fname_hash enters the folders S under their full names.
LEMMA AddLoopMirrors ==
  ASSUME NEW groups, NEW S, NEW E, Renames(groups, S, E, E),
         NEW order \in SetToSeqs(S),
         NEW r, r = AddEach(groups, NoHashes, order)
  PROVE  Mirror(r, S, E)
<1>0. S \subseteq Ids
    BY DEF Renames
<1>1. IsFiniteSet(S)
    BY <1>0, IdsAreFinite, FS_Subset
<1>2. PICK n \in Nat : Covers(order, n, S)
    BY <1>1, OrderCovers
<1>d. DOMAIN order = 1..n
    BY <1>2 DEF Covers
<1>3. PICK f : /\ LoopOver("add", groups, NoHashes, order, n, f)
               /\ AddEach(groups, NoHashes, order) = AfterRounds(f, n)
    BY <1>d, AddLoop
<1> DEFINE good(h, m) == HashesTyped(h) /\ Mirror(h, Done(order, m), E)
           T == {m \in Nat : good(AfterRounds(f, m), m)}
<1>4. /\ AfterRounds(f, 0) = NoHashes
      /\ \A m \in 0..n : m + 1 <= n =>
            AfterRounds(f, m + 1)
            = Round("add", groups, AfterRounds(f, m), order[m + 1])
    BY <1>3, LoopRounds
<1>5. 0 \in T
  <2>1. HashesTyped(NoHashes)
      BY DEF HashesTyped, NoHashes, Empty
  <2>2. Done(order, 0) = {}
      BY DoneNext
  <2>3. Mirror(NoHashes, Done(order, 0), E)
      BY <2>2 DEF Mirror, NoHashes, Empty
  <2> QED
      BY <1>4, <2>1, <2>3
<1>6. ASSUME NEW m \in 0..n, m \in T, m + 1 <= n
      PROVE  m + 1 \in T
  <2>1. AfterRounds(f, m + 1) = AddOne(groups, AfterRounds(f, m), order[m + 1])
      BY <1>4, <1>6 DEF Round
  <2>2. PICK h, i, Y, full : /\ h = AfterRounds(f, m) /\ i = order[m + 1]
                             /\ Y = Done(order, m) /\ full = E[i]
      OBVIOUS
  <2>3. i \in S /\ i \in Ids /\ m + 1 \in Nat /\ m \in Nat /\ Y \subseteq S
    <3>1. m + 1 \in 1..n /\ 1..m \subseteq 1..n
        BY <1>6
    <3> QED
        BY <1>0, <1>2, <2>2, <3>1 DEF Covers, Done
  <2>4. HashesTyped(h) /\ Mirror(h, Y, E)
      BY <1>6, <2>2
  <2>5. full \in FullNames /\ full = BuildFullName(groups, i)
      BY <2>2, <2>3 DEF Renames
  <2>6. HashesTyped(AddOne(groups, h, i))
      BY <2>3, <2>4, <2>5, AddOneTyped
  <2>7. \A j \in Y \ {i} : E[j] # full
      BY <2>2, <2>3 DEF Renames
  <2>8. Mirror(AddOne(groups, h, i), Y \cup {i}, E)
      BY <2>2, <2>3, <2>4, <2>5, <2>7, AddOneMirrors
  <2>9. Done(order, m + 1) = Y \cup {i}
    <3>1. Done(order, m + 1) = Done(order, m) \cup {order[m + 1]}
        BY <2>3, DoneNext
    <3> QED
        BY <2>2, <3>1
  <2>10. good(AfterRounds(f, m + 1), m + 1)
      BY <2>1, <2>2, <2>6, <2>8, <2>9
  <2> HIDE DEF good
  <2> QED
      BY <2>3, <2>10
<1>7. n \in T
  <2> HIDE DEF T
  <2> QED
      BY <1>5, <1>6, Induct
<1>8. Done(order, n) = S
    BY <1>2 DEF Covers, Done
<1> QED
    BY <1>3, <1>7, <1>8

----------------------------------------------------------------------------
(* The functions that change the hash tables.                              *)

\* Of a tree of folders, each full name can be given without taking another's.
LEMMA TidyRenames ==
  ASSUME NEW G, Groups(G), Tidy(G)
  PROVE  Renames(G, DOMAIN G, FullNamesOf(G), FullNamesOf(G))
<1> DEFINE E == FullNamesOf(G)
<1>1. IsTree(G, E)
    BY TidyIsTree
<1>2. \A j \in DOMAIN G : E[j] = BuildFullName(G, j) /\ ~Cyclic(G, j)
    BY DEF FullNamesOf, Tidy
<1> HIDE DEF E
<1>3. ASSUME NEW j \in DOMAIN G
      PROVE  E[j] \in FullNames /\ E[j] # NoName
  <2>1. IsPath(E[j], MaxDepth)
      BY <1>1 DEF IsTree
  <2>2. MaxDepth \in 0..MaxDepth
      BY DepthIsNat
  <2> QED
      BY <2>1, <2>2, PathNotNone
<1>4. Renames(G, DOMAIN G, E, E)
    BY <1>1, <1>2, <1>3 DEF Renames, IsTree
<1> QED
    BY <1>4 DEF E

\* Only the full names of the folders D matter.
LEMMA MirrorSame ==
  ASSUME NEW h, NEW D, NEW f, NEW g, Mirror(h, D, f), \A j \in D : f[j] = g[j]
  PROVE  Mirror(h, D, g)
BY DEF Mirror

\* Loading gives well-typed hash tables.
LEMMA LoadTyped ==
  ASSUME NEW G, Groups(G), NEW h \in LoadHashes(G)
  PROVE  HashesTyped(h)
<1> DEFINE named == {i \in DOMAIN G : G[i].name # NoName}
<1>1. CASE \E i \in named : Cyclic(G, i)
  <2>1. h = [NoHashes EXCEPT !.ok = FALSE]
      BY <1>1 DEF LoadHashes
  <2>2. h = [ids |-> Empty, names |-> Empty, ok |-> FALSE]
      BY <2>1 DEF NoHashes
  <2>3. h.ids = Empty /\ h.names = Empty /\ h.ok = FALSE
      BY <2>2
  <2>4. DOMAIN Empty = {}
      BY DEF Empty
  <2> QED
      BY <2>2, <2>3, <2>4 DEF HashesTyped
<1>2. CASE ~ \E i \in named : Cyclic(G, i)
  <2>1. PICK order \in SetToSeqs(named) : h = AddEach(G, NoHashes, order)
      BY <1>2 DEF LoadHashes
  <2>2. named \subseteq Ids
      BY DEF Groups
  <2>3. ASSUME NEW i \in named
        PROVE  BuildFullName(G, i) \in FullNames
    <3> DEFINE name == NameOf(G, i)
               p == ParentOf(G, i)
    <3>1. name # NoName /\ i \in Ids /\ ~Cyclic(G, i)
        BY <1>2, <2>2 DEF NameOf
    <3>2. IsPath(BuildFullName(G, i), MaxDepth)
        BY <3>1, FullNameIs
    <3> QED
        BY <3>2, DepthIsNat, PathNotNone
  <2> HIDE DEF named
  <2> QED
      BY <2>1, <2>2, <2>3, AddLoopTyped
<1> QED
    BY <1>1, <1>2

\* Loading a tree enters every folder under its full name.
LEMMA LoadMirrors ==
  ASSUME NEW G, Groups(G), Tidy(G), NEW h \in LoadHashes(G)
  PROVE  h.ok /\ Mirror(h, DOMAIN G, FullNamesOf(G))
<1> DEFINE E == FullNamesOf(G)
<1>1. {i \in DOMAIN G : G[i].name # NoName} = DOMAIN G
    BY DEF Tidy
<1>2. ~ \E i \in DOMAIN G : Cyclic(G, i)
    BY DEF Tidy
<1>3. PICK order \in SetToSeqs(DOMAIN G) : h = AddEach(G, NoHashes, order)
    BY <1>1, <1>2 DEF LoadHashes
<1>4. Renames(G, DOMAIN G, E, E)
    BY TidyRenames
<1>5. DOMAIN G \subseteq Ids /\ \A i \in DOMAIN G : BuildFullName(G, i) \in FullNames
    BY <1>4 DEF Renames
<1> HIDE DEF E
<1>6. h.ok
    BY <1>3, <1>5, AddLoopTyped
<1>7. Mirror(h, DOMAIN G, E)
    BY <1>3, <1>4, AddLoopMirrors
<1> QED
    BY <1>6, <1>7 DEF E

\* The entries of subfolders belong to folders.
LEMMA SubfoldersTyped ==
  ASSUME NEW h, NEW i, NEW one, HashesTyped(one)
  PROVE  Subfolders(h, i, one.names) \subseteq Ids
BY DEF Subfolders, HashesTyped

\* After a rename or a move of i the hash tables hold the new full names: i and
\* the subfolders get theirs, and nobody else's changes.
LEMMA ReplaceMirrors ==
  ASSUME NEW G, Groups(G), Tidy(G), NEW H, Groups(H), Tidy(H),
         NEW i \in DOMAIN G, DOMAIN H = DOMAIN G,
         \A k \in DOMAIN G \ {i} : H[k] = G[k],
         NEW h, HashesTyped(h), h.ok, Mirror(h, DOMAIN G, FullNamesOf(G)),
         NEW one, one = ReplaceOne(H, h, i)
  PROVE  /\ one.ok
         /\ \A order \in SetToSeqs(Subfolders(h, i, one.names)) :
               /\ ReplaceEach(H, one, order).ok
               /\ Mirror(ReplaceEach(H, one, order), DOMAIN H, FullNamesOf(H))
<1> DEFINE F == FullNamesOf(G)
           E == FullNamesOf(H)
           S == Subfolders(h, i, one.names)
<1>0. PICK D : D = DOMAIN G
    OBVIOUS
<1>1. IsTree(G, F) /\ IsTree(H, E)
    BY TidyIsTree
<1>2. Renames(H, DOMAIN H, E, E)
    BY TidyRenames
<1>3. Mirror(h, D, F)
    BY <1>0
<1> HIDE DEF F, E
<1>4. Changed(G, F, H, E, i)
    BY <1>1 DEF Changed
<1>5. Renames(H, D, E, F)
  <2>1. \A j, k \in DOMAIN G : E[j] = F[k] => j = k
      BY <1>4, NoClash
  <2> QED
      BY <1>0, <1>2, <2>1 DEF Renames
<1>6. Mirror(h, D, Mix(D, {}, E, F))
    BY <1>3, MirrorSame DEF Mix
<1>7. i \in D /\ i \in Ids
    BY <1>0 DEF Groups
<1>8. one.ok /\ Mirror(one, D, Mix(D, {} \cup {i}, E, F))
    BY <1>5, <1>6, <1>7, ReplaceMixed
<1>9. HashesTyped(one)
    BY <1>7, ReplaceOneTyped
<1> DEFINE f == Mix(D, {} \cup {i}, E, F)
<1>10. \A k \in D : k # i => f[k] = F[k]
    BY DEF Mix
<1>11. /\ \A j \in D : f[j] \in DOMAIN one.names /\ one.names[f[j]].id = j
       /\ \A n \in DOMAIN one.names : \E j \in D : n = f[j]
    BY <1>8 DEF Mirror
<1>12. i \in DOMAIN h.ids /\ h.ids[i] = F[i] /\ h.names[h.ids[i]].id = i
    BY <1>3, <1>7 DEF Mirror
<1>13. S = {one.names[n].id : n \in {m \in DOMAIN one.names : IsStrictPrefix(F[i], m)}}
    BY <1>12 DEF Subfolders
<1>14. S \subseteq D
  <2> HIDE DEF f, S
  <2> QED
      BY <1>11, <1>13
<1>15. \A k \in D : k \notin {i} \cup S => E[k] = F[k]
  <2> SUFFICES ASSUME NEW k \in D, k \notin {i} \cup S
               PROVE  ~ Under(F, i, k)
      BY <1>0, <1>4, UnderStays
  <2> SUFFICES ASSUME Under(F, i, k)
               PROVE  k \in S
      OBVIOUS
  <2>1. k # i /\ f[k] = F[k]
      BY <1>10
  <2>2. F[k] \in DOMAIN one.names /\ one.names[F[k]].id = k
      BY <1>11, <2>1
  <2>3. F[i] # F[k]
      BY <1>0, <1>1, <2>1 DEF IsTree
  <2>4. IsStrictPrefix(F[i], F[k])
      BY <2>3 DEF Under, IsStrictPrefix
  <2> HIDE DEF f, S
  <2> QED
      BY <1>13, <2>2, <2>4
<1> HIDE DEF S, f
<1>16. ASSUME NEW order \in SetToSeqs(S)
       PROVE  /\ ReplaceEach(H, one, order).ok
              /\ Mirror(ReplaceEach(H, one, order), D, E)
  <2> DEFINE r == ReplaceEach(H, one, order)
  <2>1. r.ok /\ Mirror(r, D, Mix(D, ({} \cup {i}) \cup S, E, F))
      BY <1>5, <1>8, <1>9, <1>14, ReplaceLoopMirrors
  <2>2. \A k \in D : Mix(D, ({} \cup {i}) \cup S, E, F)[k] = E[k]
      BY <1>15 DEF Mix
  <2> HIDE DEF r
  <2>3. Mirror(r, D, E)
      BY <2>1, <2>2, MirrorSame
  <2> QED
      BY <2>1, <2>3 DEF r
<1> QED
    BY <1>0, <1>8, <1>16 DEF E, S

\* A new folder is entered under its full name and has no subfolders.
LEMMA NewMirrors ==
  ASSUME NEW G, Groups(G), Tidy(G), NEW H, Groups(H), Tidy(H),
         NEW i \in DOMAIN H, i \notin DOMAIN G, DOMAIN H = DOMAIN G \cup {i},
         \A k \in DOMAIN G : H[k] = G[k],
         NEW h, HashesTyped(h), h.ok, Mirror(h, DOMAIN G, FullNamesOf(G)),
         NEW one, one = ReplaceOne(H, h, i)
  PROVE  /\ one.ok /\ Mirror(one, DOMAIN H, FullNamesOf(H))
         /\ \A order \in SetToSeqs(Subfolders(h, i, one.names)) :
               /\ ReplaceEach(H, one, order).ok
               /\ Mirror(ReplaceEach(H, one, order), DOMAIN H, FullNamesOf(H))
<1> DEFINE F == FullNamesOf(G)
           E == FullNamesOf(H)
           S == Subfolders(h, i, one.names)
<1>0. PICK D, D0, full : D = DOMAIN H /\ D0 = DOMAIN G /\ full = E[i]
    OBVIOUS
<1>1. IsTree(G, F) /\ IsTree(H, E)
    BY TidyIsTree
<1>2. Renames(H, D, E, E)
    BY <1>0, TidyRenames
<1>3. Mirror(h, D0, F)
    BY <1>0
<1> HIDE DEF F, E
<1>4. \A k \in D0 : E[k] = F[k]
    BY <1>0, <1>1, SameFullNames
<1>5. Mirror(h, D0, E)
    BY <1>3, <1>4, MirrorSame
<1>6. /\ i \in Ids /\ ~Cyclic(H, i) /\ full \in FullNames /\ full # NoName
      /\ full = BuildFullName(H, i)
      /\ \A j \in D : j # i => E[j] # full
    BY <1>0, <1>2 DEF Renames
<1>7. \A j \in D0 \ {i} : E[j] = E[j] /\ E[j] # full
    BY <1>0, <1>6
<1>8. one.ok /\ Mirror(one, D0 \cup {i}, E)
  <2>1. E[i] = full
      BY <1>0
  <2>2. ReplaceOne(H, h, i).ok /\ Mirror(ReplaceOne(H, h, i), D0 \cup {i}, E)
      BY <1>5, <1>6, <1>7, <2>1, ReplaceOneMirrors
  <2> QED
      BY <2>2
<1>9. D0 \cup {i} = D
    BY <1>0
<1>10. HashesTyped(one)
    BY <1>6, ReplaceOneTyped
<1>11. S = {}
  <2>1. i \notin DOMAIN h.ids
      BY <1>0, <1>3 DEF Mirror
  <2> QED
      BY <2>1 DEF Subfolders
<1>12. ASSUME NEW order \in SetToSeqs(S)
       PROVE  /\ ReplaceEach(H, one, order).ok
              /\ Mirror(ReplaceEach(H, one, order), D, E)
  <2> DEFINE r == ReplaceEach(H, one, order)
  <2>1. Mirror(one, D, E)
      BY <1>8, <1>9
  <2>2. Mirror(one, D, Mix(D, {}, E, E))
      BY <2>1, MirrorSame DEF Mix
  <2> HIDE DEF S
  <2>3. S \subseteq D
      BY <1>11
  <2>4. r.ok /\ Mirror(r, D, Mix(D, {} \cup S, E, E))
      BY <1>2, <1>8, <1>10, <2>2, <2>3, ReplaceLoopMirrors
  <2>5. \A k \in D : Mix(D, {} \cup S, E, E)[k] = E[k]
      BY DEF Mix
  <2> HIDE DEF r
  <2>6. Mirror(r, D, E)
      BY <2>4, <2>5, MirrorSame
  <2> QED
      BY <2>4, <2>6 DEF r
<1> HIDE DEF S
<1> QED
    BY <1>0, <1>8, <1>9, <1>12 DEF E, S

\* Another value changes no full name.
LEMMA ValueMirrors ==
  ASSUME NEW G, Groups(G), Tidy(G), NEW H, Groups(H), Tidy(H),
         DOMAIN H = DOMAIN G,
         \A k \in DOMAIN G : H[k].name = G[k].name /\ H[k].parent = G[k].parent,
         NEW h, Mirror(h, DOMAIN G, FullNamesOf(G))
  PROVE  Mirror(h, DOMAIN H, FullNamesOf(H))
<1> DEFINE F == FullNamesOf(G)
           E == FullNamesOf(H)
<1>1. IsTree(G, F) /\ IsTree(H, E)
    BY TidyIsTree
<1> HIDE DEF F, E
<1>2. \A k \in DOMAIN G : E[k] = F[k]
    BY <1>1, SameFullNames
<1>3. Mirror(h, DOMAIN G, F)
    BY DEF F
<1>4. Mirror(h, DOMAIN G, E)
    BY <1>2, <1>3, MirrorSame
<1> QED
    BY <1>4 DEF E

\* A folder that is removed takes its two entries with it, and no other's.
LEMMA RemoveMirrors ==
  ASSUME NEW G, Groups(G), Tidy(G), NEW i \in DOMAIN G,
         NEW H, Groups(H), Tidy(H), H = Without(G, i),
         NEW h, HashesTyped(h), Mirror(h, DOMAIN G, FullNamesOf(G)),
         NEW r, r.ids = Without(h.ids, i),
         r.names = FreeStrings(Without(h.names, h.ids[i]), i)
  PROVE  Mirror(r, DOMAIN H, FullNamesOf(H))
<1> DEFINE F == FullNamesOf(G)
           E == FullNamesOf(H)
           w == Without(h.names, h.ids[i])
<1>0. /\ DOMAIN H = DOMAIN G \ {i}
      /\ \A k \in DOMAIN H : k \in DOMAIN G /\ H[k] = G[k]
    BY DEF Without
<1>1. IsTree(G, F) /\ IsTree(H, E)
    BY TidyIsTree
<1>2. Mirror(h, DOMAIN G, F)
    OBVIOUS
<1> HIDE DEF F, E
<1>3. \A k \in DOMAIN H : E[k] = F[k]
  <2>1. \A k \in DOMAIN H : F[k] = E[k]
      BY <1>0, <1>1, SameFullNames
  <2> QED
      BY <2>1
<1>4. /\ DOMAIN h.ids = DOMAIN G
      /\ \A j \in DOMAIN G : /\ h.ids[j] = F[j] /\ F[j] \in DOMAIN h.names
                             /\ h.names[F[j]].id = j /\ h.names[F[j]].owner = j
      /\ \A n \in DOMAIN h.names : \E j \in DOMAIN G : n = F[j]
    BY <1>2 DEF Mirror
<1>5. NamesTyped(h.names)
    BY DEF HashesTyped, NamesTyped, Entry
<1>6. /\ NamesTyped(w) /\ DOMAIN w = DOMAIN h.names \ {h.ids[i]}
      /\ \A n \in DOMAIN h.names \ {h.ids[i]} : w[n] = h.names[n]
    BY <1>5, WithoutEffect
<1> HIDE DEF w
<1>7. /\ DOMAIN r.names = DOMAIN w
      /\ \A n \in DOMAIN w : w[n].id # i /\ w[n].owner # i => r.names[n] = w[n]
  <2>1. r.names = FreeStrings(w, i)
      BY DEF w
  <2> QED
      BY <1>6, <2>1, FreeStringsEffect
<1>8. DOMAIN r.ids = DOMAIN H /\ \A j \in DOMAIN H : r.ids[j] = h.ids[j]
    BY <1>0, <1>4 DEF Without
<1>9. h.ids[i] = F[i]
    BY <1>4
<1>10. ASSUME NEW j \in DOMAIN H
       PROVE  /\ r.ids[j] = E[j] /\ E[j] \in DOMAIN r.names
              /\ r.names[E[j]].id = j /\ r.names[E[j]].owner = j
  <2>1. j \in DOMAIN G /\ j # i /\ E[j] = F[j]
      BY <1>0, <1>3
  <2>2. F[j] # F[i]
      BY <1>1, <2>1 DEF IsTree
  <2> QED
      BY <1>4, <1>6, <1>7, <1>8, <1>9, <2>1, <2>2
<1>11. ASSUME NEW n \in DOMAIN r.names
       PROVE  \E j \in DOMAIN H : n = E[j]
  <2>1. n \in DOMAIN h.names /\ n # F[i]
      BY <1>6, <1>7, <1>9
  <2>2. PICK j \in DOMAIN G : n = F[j]
      BY <1>4, <2>1
  <2> QED
      BY <1>0, <1>3, <2>1, <2>2
<1>12. Mirror(r, DOMAIN H, E)
    BY <1>8, <1>10, <1>11 DEF Mirror
<1> QED
    BY <1>12 DEF E

=============================================================================
