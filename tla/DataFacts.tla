----------------------------- MODULE DataFacts ------------------------------
(***************************************************************************)
(* Facts about data that the proofs of several components share: what      *)
(* push, front and pop do to a queue in which nothing is twice, the least  *)
(* and greatest elements that take the place of induction, recursion along *)
(* the links of a tree, and the chains in it.                              *)
(***************************************************************************)
EXTENDS Naturals, Sequences, Functions, FiniteSets, FiniteSetTheorems,
        WellFoundedInduction, TLAPS

\* An empty queue holds nothing.
LEMMA EmptyQueue ==
    ASSUME NEW S
    PROVE  <<>> \in Seq(S) /\ IsInjective(<<>>) /\ Range(<<>>) = {}
  BY DEF IsInjective, Range

\* push() adds its argument, and nothing is twice in the queue if it was not in
\* it before.
LEMMA PushFacts ==
    ASSUME NEW S, NEW q \in Seq(S), IsInjective(q), NEW e \in S, e \notin Range(q)
    PROVE  /\ Append(q, e) \in Seq(S) /\ IsInjective(Append(q, e))
           /\ Append(q, e) # <<>> /\ Range(Append(q, e)) = Range(q) \cup {e}
           /\ Len(Append(q, e)) = Len(q) + 1
<1> DEFINE r == Append(q, e)
<1>1. /\ r \in Seq(S) /\ Len(r) = Len(q) + 1 /\ r[Len(q) + 1] = e
      /\ \A i \in 1 .. Len(q) : r[i] = q[i]
  OBVIOUS
<1>2. DOMAIN r = 1 .. Len(q) + 1 /\ DOMAIN q = 1 .. Len(q) /\ Len(q) \in Nat
  BY <1>1
<1>3. \A i \in 1 .. Len(q) : q[i] # e
  BY <1>2 DEF Range
<1>4. IsInjective(r)
  BY <1>1, <1>2, <1>3 DEF IsInjective
<1>5. Range(r) = Range(q) \cup {e}
  <2>1. \A i \in DOMAIN r : r[i] \in Range(q) \cup {e}
    BY <1>1, <1>2 DEF Range
  <2>2. \A i \in DOMAIN q : i \in DOMAIN r /\ q[i] = r[i]
    BY <1>1, <1>2
  <2>3. Len(q) + 1 \in DOMAIN r /\ r[Len(q) + 1] = e
    BY <1>1, <1>2
  <2>4. Range(q) \subseteq Range(r) /\ e \in Range(r)
    BY <2>2, <2>3 DEF Range
  <2>5. Range(r) \subseteq Range(q) \cup {e}
    BY <2>1 DEF Range
  <2>6. QED
    BY <2>4, <2>5
<1>6. r # <<>>
  <2>1. Len(r) # 0
    BY <1>1, <1>2
  <2>2. Len(<<>>) = 0
    OBVIOUS
  <2> HIDE DEF r
  <2>3. QED
    BY <2>1, <2>2
<1>7. QED
  BY <1>1, <1>4, <1>5, <1>6

\* front() and pop() split the queue.
LEMMA PopFacts ==
    ASSUME NEW S, NEW q \in Seq(S), IsInjective(q), q # <<>>
    PROVE  /\ Tail(q) \in Seq(S) /\ IsInjective(Tail(q)) /\ Head(q) \in S
           /\ Range(q) = Range(Tail(q)) \cup {Head(q)} /\ Head(q) \notin Range(Tail(q))
           /\ Len(Tail(q)) = Len(q) - 1 /\ Len(q) \in Nat
<1> DEFINE r == Tail(q)
<1>1. /\ r \in Seq(S) /\ Len(r) = Len(q) - 1 /\ Head(q) = q[1] /\ Head(q) \in S
      /\ \A i \in 1 .. Len(r) : r[i] = q[i + 1]
  OBVIOUS
<1>2. DOMAIN r = 1 .. Len(q) - 1 /\ DOMAIN q = 1 .. Len(q) /\ Len(q) \in Nat /\ Len(q) >= 1
  BY <1>1
<1>3. IsInjective(r)
  <2>1. SUFFICES ASSUME NEW i \in DOMAIN r, NEW j \in DOMAIN r, r[i] = r[j]
                 PROVE  i = j
    BY DEF IsInjective
  <2>2. i + 1 \in DOMAIN q /\ j + 1 \in DOMAIN q /\ q[i + 1] = q[j + 1]
    BY <1>1, <1>2, <2>1
  <2>3. i + 1 = j + 1
    BY <2>2 DEF IsInjective
  <2>4. QED
    BY <2>3, <1>2
<1>4. Head(q) \notin Range(r)
  <2>1. SUFFICES ASSUME NEW i \in DOMAIN r, r[i] = q[1]
                 PROVE  FALSE
    BY <1>1 DEF Range
  <2>2. i + 1 \in DOMAIN q /\ 1 \in DOMAIN q /\ q[i + 1] = q[1]
    BY <1>1, <1>2, <2>1
  <2>3. i + 1 = 1
    BY <2>2 DEF IsInjective
  <2>4. QED
    BY <2>3, <1>2
<1>5. Range(q) = Range(r) \cup {Head(q)}
  <2>1. ASSUME NEW x \in Range(q) PROVE x \in Range(r) \cup {Head(q)}
    <3>1. PICK i \in DOMAIN q : q[i] = x
      BY DEF Range
    <3>2. CASE i = 1
      BY <3>1, <3>2, <1>1
    <3>3. CASE i # 1
      <4>1. i - 1 \in DOMAIN r /\ r[i - 1] = x
        BY <3>1, <3>3, <1>1, <1>2
      <4>2. QED
        BY <4>1 DEF Range
    <3>4. QED
      BY <3>2, <3>3
  <2>2. ASSUME NEW i \in DOMAIN r PROVE r[i] \in Range(q)
    <3>1. i + 1 \in DOMAIN q /\ r[i] = q[i + 1]
      BY <1>1, <1>2
    <3>2. QED
      BY <3>1 DEF Range
  <2>3. Head(q) \in Range(q)
    BY <1>1, <1>2 DEF Range
  <2>4. QED
    BY <2>1, <2>2, <2>3 DEF Range
<1>6. QED
  BY <1>1, <1>2, <1>3, <1>4, <1>5

-----------------------------------------------------------------------------
(* Least and greatest elements. *)

\* A nonempty set of naturals has a least element.  Applied to the heights or
\* sizes of the counterexamples to a claim it proves the claim by induction.
LEMMA NatMin ==
    ASSUME NEW T, T \subseteq Nat, T # {}
    PROVE  \E x \in T : \A y \in T : x <= y
<1> DEFINE R == OpToRel(<, Nat)
<1>1. \E x \in T : \A y \in T : ~ (<<y, x>> \in R)
  BY NatLessThanWellFounded, WFMin
<1>2. \A x, y \in Nat : <<y, x>> \in R <=> y < x
  BY DEF OpToRel
<1> HIDE DEF R
<1>3. PICK x \in T : \A y \in T : ~ (<<y, x>> \in R)
  BY <1>1
<1>4. \A y \in T : ~ (y < x)
  BY <1>2, <1>3
<1>5. QED
  BY <1>4

\* Some element of a nonempty set has the least height.
LEMMA LeastElement ==
    ASSUME NEW S, S # {}, NEW h, \A x \in S : h[x] \in Nat
    PROVE  \E x \in S : \A y \in S : h[x] <= h[y]
<1> DEFINE T == {h[x] : x \in S}
<1>1. T \subseteq Nat /\ T # {}
  OBVIOUS
<1>2. PICK n \in T : \A m \in T : n <= m
  BY <1>1, NatMin
<1>3. PICK x \in S : h[x] = n
  BY <1>2
<1>4. \A y \in S : h[y] \in T
  OBVIOUS
<1>5. QED
  BY <1>2, <1>3, <1>4

\* A nonempty finite set, every two elements of which a transitive relation R
\* orders, has a greatest element.
LEMMA GreatestElement ==
    ASSUME NEW S, IsFiniteSet(S), S # {}, NEW R,
           \A x, y \in S : x # y => <<x, y>> \in R \/ <<y, x>> \in R,
           \A x, y, z \in S : <<x, y>> \in R /\ <<y, z>> \in R => <<x, z>> \in R
    PROVE  \E x \in S : \A y \in S \ {x} : <<y, x>> \in R
<1> DEFINE Top(A) == \E x \in A : \A y \in A \ {x} : <<y, x>> \in R
           B == {A \in SUBSET S : A # {} /\ ~Top(A)}
           h == [A \in SUBSET S |-> Cardinality(A)]
<1>1. SUFFICES ASSUME B # {} PROVE FALSE
  <2>1. S \in SUBSET S
    OBVIOUS
  <2>2. B = {} => Top(S)
    BY <2>1
  <2>3. QED
    BY <1>1, <2>2
<1>2. \A A \in SUBSET S : IsFiniteSet(A) /\ h[A] = Cardinality(A) /\ h[A] \in Nat
  BY FS_Subset, FS_CardinalityType
<1>3. PICK A \in B : \A C \in B : h[A] <= h[C]
  <2>1. \A A \in B : h[A] \in Nat
    BY <1>2
  <2> HIDE DEF B, h
  <2>2. QED
    BY <1>1, <2>1, LeastElement
<1>4. PICK x \in A : TRUE
  BY <1>3
<1> DEFINE C == A \ {x}
<1>5. C \in SUBSET S /\ A \in SUBSET S /\ x \in A /\ x \in S
  BY <1>3, <1>4
<1>6. Cardinality(C) = Cardinality(A) - 1
  BY <1>2, <1>5, FS_RemoveElement
<1>7. C \notin B
  <2>1. h[A] = Cardinality(A) /\ h[A] \in Nat /\ h[C] = Cardinality(C) /\ h[C] \in Nat
    BY <1>2, <1>5
  <2> HIDE DEF B, h, C
  <2>2. h[C] < h[A]
    BY <1>6, <2>1
  <2>3. QED
    BY <1>3, <2>1, <2>2
<1>8. CASE C = {}
  <2>1. A = {x}
    BY <1>5, <1>8
  <2>2. Top(A)
    BY <2>1
  <2>3. QED
    BY <1>3, <2>2
<1>9. CASE C # {}
  <2>1. Top(C)
    BY <1>5, <1>7, <1>9
  <2>2. PICK y \in C : \A z \in C \ {y} : <<z, y>> \in R
    BY <2>1
  <2>3. CASE <<x, y>> \in R
    <3>1. \A z \in A \ {y} : <<z, y>> \in R
      BY <2>2, <2>3
    <3>2. QED
      BY <1>3, <2>2, <3>1
  <2>4. CASE <<y, x>> \in R
    <3>1. \A z \in A \ {x} : <<z, x>> \in R
      BY <1>5, <2>2, <2>4
    <3>2. QED
      BY <1>3, <1>5, <3>1
  <2>5. QED
    BY <1>5, <2>2, <2>3, <2>4
<1>10. QED
  BY <1>8, <1>9

-----------------------------------------------------------------------------
(* Recursion along the links of a tree. *)

(* From every node the links par lead down to the root r, and f gives a node *)
(* what a step makes of what its parent is given.                           *)
Tree(B, r, par) ==
    /\ r \in B /\ par \in [B \ {r} -> B]
    /\ \A S \in SUBSET B : S # {} => \E b \in S : b = r \/ par[b] \notin S
AlongLinks(f, B, r, par, v0, step) ==
    f[r] = v0 /\ \A b \in B \ {r} : f[b] = step[<<b, f[par[b]]>>]

\* What a node is given by a step from what its parent is given exists: the
\* recursive definitions over the block tree, CBlockIndex by pprev, have a value.
LEMMA TreeRecursion ==
    ASSUME NEW B, NEW r, NEW par, Tree(B, r, par),
           NEW V, NEW v0 \in V, NEW step \in [B \X V -> V]
    PROVE  \E f \in [B -> V] : AlongLinks(f, B, r, par, v0, step)
<1> USE DEF Tree, AlongLinks
<1> DEFINE Closed(A) == r \in A /\ \A b \in A \ {r} : par[b] \in A
           Good(A, f) == f[r] = v0 /\ \A b \in A \ {r} : f[b] = step[<<b, f[par[b]]>>]
           Part(b, A, f) == b \in A /\ Closed(A) /\ Good(A, f)
<1>1. ASSUME NEW A \in SUBSET B, NEW f \in [A -> V], Closed(A), Good(A, f),
             NEW C \in SUBSET B, NEW g \in [C -> V], Closed(C), Good(C, g),
             NEW x \in A \cap C
      PROVE  f[x] = g[x]
  <2> DEFINE S == {y \in A \cap C : f[y] # g[y]}
  <2>1. SUFFICES ASSUME S # {} PROVE FALSE
    BY <1>1
  <2>2. S \in SUBSET B
    BY <1>1
  <2>3. PICK b \in S : b = r \/ par[b] \notin S
    BY <2>1, <2>2
  <2>4. b # r
    BY <1>1, <2>3
  <2>5. par[b] \in A \cap C /\ b \in A \ {r} /\ b \in C \ {r} /\ par[b] \notin S
    BY <1>1, <2>3, <2>4
  <2>6. f[par[b]] = g[par[b]]
    BY <2>5
  <2>7. f[b] = step[<<b, f[par[b]]>>] /\ g[b] = step[<<b, g[par[b]]>>]
    BY <1>1, <2>5
  <2>8. QED
    BY <2>3, <2>6, <2>7
<1>2. ASSUME NEW b \in B
      PROVE  \E A \in SUBSET B : \E f \in [A -> V] : Part(b, A, f)
  <2> DEFINE S == {y \in B : ~ \E A \in SUBSET B : \E f \in [A -> V] : Part(y, A, f)}
  <2>1. SUFFICES ASSUME S # {} PROVE FALSE
    <3> HIDE DEF Part
    <3>1. QED
      BY <1>2
  <2>2. PICK y \in S : y = r \/ par[y] \notin S
    <3> HIDE DEF Part
    <3>1. S \in SUBSET B
      OBVIOUS
    <3> HIDE DEF S
    <3>2. QED
      BY <2>1, <3>1
  <2>3. CASE y = r
    <3> DEFINE A == {r}
               f == [z \in A |-> v0]
    <3>1. A \in SUBSET B /\ f \in [A -> V] /\ Part(y, A, f)
      BY <2>3
    <3>2. QED
      BY <2>2, <3>1
  <2>4. CASE y # r
    <3>1. par[y] \in B /\ par[y] \notin S /\ y \in B
      BY <2>2, <2>4
    <3>2. PICK A \in SUBSET B : \E f \in [A -> V] : Part(par[y], A, f)
      BY <3>1
    <3>3. PICK f \in [A -> V] : Part(par[y], A, f)
      BY <3>2
    <3>4. y \notin A
      <4>1. SUFFICES ASSUME y \in A PROVE FALSE
        OBVIOUS
      <4>2. Part(y, A, f)
        BY <3>3, <4>1
      <4> HIDE DEF Part
      <4>3. QED
        BY <2>2, <4>2
    <3> DEFINE C == A \cup {y}
               g == [z \in C |-> IF z \in A THEN f[z] ELSE step[<<y, f[par[y]]>>]]
    <3>5. C \in SUBSET B /\ g \in [C -> V]
      BY <3>1, <3>3
    <3>6. Closed(C) /\ y \in C
      BY <3>3
    <3>7. g[r] = v0
      BY <3>3
    <3>8. ASSUME NEW z \in C \ {r} PROVE g[z] = step[<<z, g[par[z]]>>]
      <4>1. CASE z = y
        BY <3>3, <3>4, <4>1
      <4>2. CASE z \in A
        <5>1. par[z] \in A /\ f[z] = step[<<z, f[par[z]]>>]
          BY <3>3, <3>8, <4>2
        <5>2. QED
          BY <5>1, <4>2
      <4>3. QED
        BY <3>8, <4>1, <4>2
    <3>9. Part(y, C, g)
      <4> HIDE DEF g, C
      <4>1. QED
        BY <3>6, <3>7, <3>8
    <3>10. QED
      <4> HIDE DEF Part, g, C
      <4>1. QED
        BY <2>2, <3>5, <3>9
  <2>5. QED
    BY <2>3, <2>4
<1> DEFINE h == [b \in B |-> CHOOSE v \in V :
                   \E A \in SUBSET B : \E f \in [A -> V] : Part(b, A, f) /\ v = f[b]]
<1>3. ASSUME NEW A \in SUBSET B, NEW f \in [A -> V], NEW b \in B, Part(b, A, f)
      PROVE  h[b] = f[b]
  <2> DEFINE Is(v) == \E C \in SUBSET B : \E g \in [C -> V] : Part(b, C, g) /\ v = g[b]
  <2>1. f[b] \in V /\ Is(f[b])
    BY <1>3
  <2>2. h[b] = CHOOSE v \in V : Is(v)
    OBVIOUS
  <2>3. Is(h[b])
    <3> HIDE DEF Is, h
    <3>1. QED
      BY <2>1, <2>2
  <2>4. PICK C \in SUBSET B : \E g \in [C -> V] : Part(b, C, g) /\ h[b] = g[b]
    BY <2>3
  <2>5. PICK g \in [C -> V] : Part(b, C, g) /\ h[b] = g[b]
    BY <2>4
  <2> HIDE DEF h, Is
  <2>6. f[b] = g[b]
    BY <1>1, <1>3, <2>5
  <2>7. QED
    BY <2>5, <2>6
<1> HIDE DEF h
<1>4. ASSUME NEW b \in B PROVE h[b] \in V
  <2>1. PICK A \in SUBSET B : \E f \in [A -> V] : Part(b, A, f)
    BY <1>2
  <2>2. PICK f \in [A -> V] : Part(b, A, f)
    BY <2>1
  <2>3. QED
    BY <2>2, <1>3
<1>5. h \in [B -> V]
  BY <1>4 DEF h
<1>6. h[r] = v0
  <2>1. PICK A \in SUBSET B : \E f \in [A -> V] : Part(r, A, f)
    BY <1>2
  <2>2. PICK f \in [A -> V] : Part(r, A, f)
    BY <2>1
  <2>3. QED
    BY <2>2, <1>3
<1>7. ASSUME NEW b \in B \ {r} PROVE h[b] = step[<<b, h[par[b]]>>]
  <2>1. PICK A \in SUBSET B : \E f \in [A -> V] : Part(b, A, f)
    BY <1>2
  <2>2. PICK f \in [A -> V] : Part(b, A, f)
    BY <2>1
  <2>3. par[b] \in B /\ Part(par[b], A, f)
    BY <2>2, <1>7
  <2>4. h[b] = f[b] /\ h[par[b]] = f[par[b]]
    BY <2>2, <2>3, <1>3
  <2>5. f[b] = step[<<b, f[par[b]]>>]
    BY <2>2, <1>7
  <2>6. QED
    BY <2>4, <2>5
<1>8. QED
  BY <1>5, <1>6, <1>7

-----------------------------------------------------------------------------
(* The chain from a node of a tree down to the root. *)

(* A node and its ancestors, and what the recursion says of them.           *)
ChainsOf(B, r, par) ==
    LET chainOf[c \in B] == IF c = r THEN {c} ELSE {c} \cup chainOf[par[c]]
    IN  [b \in B |-> chainOf[b]]
Chained(ch, B, r, par) ==
    /\ ch[r] = {r} /\ \A b \in B \ {r} : ch[b] = {b} \cup ch[par[b]]
    /\ \A b \in B : ch[b] \in SUBSET B

\* What holds of the root and of a node whenever it holds of its parent holds of
\* every node.
LEMMA TreeInduction ==
    ASSUME NEW B, NEW r, NEW par, Tree(B, r, par), NEW S \in SUBSET B, r \in S,
           \A b \in B \ {r} : par[b] \in S => b \in S
    PROVE  S = B
<1> DEFINE T == B \ S
<1>1. SUFFICES ASSUME T # {} PROVE FALSE
  OBVIOUS
<1>2. PICK b \in T : b = r \/ par[b] \notin T
  BY <1>1 DEF Tree
<1>3. QED
  BY <1>2 DEF Tree

\* The recursive definition of the chains has a value, and it is what it says.
LEMMA ChainsExist ==
    ASSUME NEW B, NEW r, NEW par, Tree(B, r, par)
    PROVE  Chained(ChainsOf(B, r, par), B, r, par)
<1> DEFINE V == SUBSET B
           step == [x \in B \X V |-> {x[1]} \cup x[2]]
           v0 == {r}
           IsChain(f) == f = [c \in B |-> IF c = r THEN {c} ELSE {c} \cup f[par[c]]]
           F == CHOOSE f : IsChain(f)
           ch == ChainsOf(B, r, par)
<1>1. step \in [B \X V -> V] /\ v0 \in V
  BY DEF Tree
<1>2. PICK f \in [B -> V] : AlongLinks(f, B, r, par, v0, step)
  <2> HIDE DEF step, V, v0
  <2>1. QED
    BY <1>1, TreeRecursion
<1>3. ASSUME NEW b \in B \ {r} PROVE f[b] = {b} \cup f[par[b]]
  <2>1. f[b] = step[<<b, f[par[b]]>>] /\ <<b, f[par[b]]>> \in B \X V
    BY <1>2 DEF AlongLinks, Tree
  <2>2. QED
    BY <2>1
<1>4. IsChain(f)
  BY <1>2, <1>3 DEF AlongLinks
<1>5. IsChain(F)
  <2> HIDE DEF IsChain
  <2>1. QED
    BY <1>4
<1>6. ch = [b \in B |-> F[b]]
  BY DEF ChainsOf
<1> HIDE DEF F, ch
<1>7. ch[r] = {r} /\ \A b \in B \ {r} : ch[b] = {b} \cup ch[par[b]]
  BY <1>5, <1>6 DEF Tree
<1>8. \A b \in B : ch[b] \in V
  <2> DEFINE S == {c \in B : ch[c] \in V}
  <2>1. S \in SUBSET B /\ r \in S
    BY <1>7 DEF Tree
  <2>2. \A c \in B \ {r} : par[c] \in S => c \in S
    BY <1>7
  <2>3. S = B
    <3> HIDE DEF S
    <3>1. QED
      BY <2>1, <2>2, TreeInduction
  <2>4. QED
    BY <2>3
<1>9. QED
  BY <1>7, <1>8 DEF Chained, ch

\* A chain holds its last node and the root, and no node is among its own
\* ancestors.
LEMMA ChainEndPoints ==
    ASSUME NEW B, NEW r, NEW par, Tree(B, r, par), NEW ch, Chained(ch, B, r, par)
    PROVE  /\ \A b \in B : b \in ch[b] /\ r \in ch[b]
           /\ \A b \in B \ {r} : par[b] \in B /\ b \notin ch[par[b]]
<1>1. \A b \in B : b \in ch[b]
  BY DEF Chained
<1>2. \A b \in B : r \in ch[b]
  <2> DEFINE S == {c \in B : r \in ch[c]}
  <2>1. S \in SUBSET B /\ r \in S /\ \A c \in B \ {r} : par[c] \in S => c \in S
    BY DEF Chained, Tree
  <2>2. S = B
    <3> HIDE DEF S
    <3>1. QED
      BY <2>1, TreeInduction
  <2>3. QED
    BY <2>2
<1>3. ASSUME NEW b \in B \ {r} PROVE par[b] \in B /\ b \notin ch[par[b]]
  <2>1. par[b] \in B
    BY DEF Tree
  <2> DEFINE S == {c \in B : b \in ch[c]}
  <2>2. SUFFICES ASSUME b \in ch[par[b]] PROVE FALSE
    BY <2>1
  <2>3. S \in SUBSET B /\ S # {}
    BY <2>1, <2>2
  <2>4. PICK c \in S : c = r \/ par[c] \notin S
    BY <2>3 DEF Tree
  <2>5. c # r
    BY <2>4 DEF Chained
  <2>6. par[c] \in B /\ b \in {c} \cup ch[par[c]]
    BY <2>4, <2>5 DEF Chained, Tree
  <2>7. QED
    BY <2>1, <2>2, <2>4, <2>5, <2>6
<1>4. QED
  BY <1>1, <1>2, <1>3

\* A set of nodes that has the parent of each holds the chain of each.
LEMMA ChainsStayInside ==
    ASSUME NEW B, NEW r, NEW par, Tree(B, r, par), NEW ch, Chained(ch, B, r, par),
           NEW K, \A b \in (K \cap B) \ {r} : par[b] \in K
    PROVE  \A b \in K \cap B : ch[b] \subseteq K
<1> DEFINE S == {b \in B : b \in K => ch[b] \subseteq K}
<1>1. S \in SUBSET B /\ r \in S
  BY DEF Chained, Tree
<1>2. \A b \in B \ {r} : par[b] \in S => b \in S
  BY DEF Chained
<1>3. S = B
  <2> HIDE DEF S
  <2>1. QED
    BY <1>1, <1>2, TreeInduction
<1>4. QED
  BY <1>3

\* Chains are finite, and one link adds one node.  The chain of an ancestor is a
\* part of the chain, a shorter one; of two nodes of a chain the one with the
\* shorter chain is an ancestor of the other.
LEMMA ChainLengths ==
    ASSUME NEW B, NEW r, NEW par, Tree(B, r, par), NEW ch, Chained(ch, B, r, par)
    PROVE  /\ \A b \in B : IsFiniteSet(ch[b]) /\ Cardinality(ch[b]) \in Nat \ {0}
           /\ Cardinality(ch[r]) = 1
           /\ \A b \in B \ {r} : Cardinality(ch[b]) = Cardinality(ch[par[b]]) + 1
           /\ \A b \in B : \A a \in ch[b] : ch[a] \subseteq ch[b]
           /\ \A b \in B : \A a \in ch[b] \ {b} : Cardinality(ch[a]) < Cardinality(ch[b])
           /\ \A b \in B : \A a, c \in ch[b] :
                Cardinality(ch[a]) <= Cardinality(ch[c]) => a \in ch[c]
<1>0. /\ \A b \in B : ch[b] \in SUBSET B
      /\ \A b \in B \ {r} : ch[b] = {b} \cup ch[par[b]] /\ par[b] \in B /\ b \notin ch[par[b]]
      /\ r \in B /\ ch[r] = {r}
  BY ChainEndPoints DEF Chained, Tree
<1>1. \A b \in B : IsFiniteSet(ch[b])
  <2> DEFINE S == {b \in B : IsFiniteSet(ch[b])}
  <2>1. IsFiniteSet({r})
    BY FS_Singleton
  <2>2. S \in SUBSET B /\ r \in S /\ \A b \in B \ {r} : par[b] \in S => b \in S
    BY <1>0, <2>1, FS_AddElement
  <2>3. S = B
    <3> HIDE DEF S
    <3>1. QED
      BY <2>2, TreeInduction
  <2>4. QED
    BY <2>3
<1>2. Cardinality(ch[r]) = 1
  BY <1>0, FS_Singleton
<1>3. \A b \in B \ {r} : Cardinality(ch[b]) = Cardinality(ch[par[b]]) + 1
  BY <1>0, <1>1, FS_AddElement
<1>4. \A b \in B : Cardinality(ch[b]) \in Nat \ {0}
  <2>1. \A b \in B : Cardinality(ch[b]) \in Nat
    BY <1>1, FS_CardinalityType
  <2>2. ASSUME NEW b \in B PROVE Cardinality(ch[b]) # 0
    <3>1. CASE b = r
      BY <1>2, <3>1
    <3>2. CASE b # r
      BY <1>0, <1>3, <2>1, <3>2
    <3>3. QED
      BY <3>1, <3>2
  <2>3. QED
    BY <2>1, <2>2
<1>5. \A b \in B : \A a \in ch[b] : ch[a] \subseteq ch[b]
  <2> DEFINE S == {b \in B : \A a \in ch[b] : ch[a] \subseteq ch[b]}
  <2>1. S \in SUBSET B /\ r \in S
    BY <1>0
  <2>2. \A b \in B \ {r} : par[b] \in S => b \in S
    BY <1>0
  <2>3. S = B
    <3> HIDE DEF S
    <3>1. QED
      BY <2>1, <2>2, TreeInduction
  <2>4. QED
    BY <2>3
<1>6. ASSUME NEW b \in B, NEW a \in ch[b] \ {b}
      PROVE  Cardinality(ch[a]) < Cardinality(ch[b])
  <2>1. b # r
    BY <1>0, <1>6
  <2>2. a \in ch[par[b]] /\ par[b] \in B /\ a \in B
    BY <1>0, <1>6, <2>1
  <2>3. Cardinality(ch[a]) <= Cardinality(ch[par[b]])
    BY <1>1, <1>5, <2>2, FS_Subset
  <2>4. QED
    BY <1>3, <1>4, <2>1, <2>2, <2>3
<1>7. \A b \in B : \A a, c \in ch[b] : Cardinality(ch[a]) <= Cardinality(ch[c]) => a \in ch[c]
  <2> DEFINE S == {b \in B : \A a, c \in ch[b] :
                              Cardinality(ch[a]) <= Cardinality(ch[c]) => a \in ch[c]}
  <2>1. S \in SUBSET B /\ r \in S
    BY <1>0
  <2>2. ASSUME NEW b \in B \ {r}, par[b] \in S, NEW a \in ch[b], NEW c \in ch[b],
               Cardinality(ch[a]) <= Cardinality(ch[c])
        PROVE  a \in ch[c]
    <3>1. CASE c = b
      BY <2>2, <3>1
    <3>2. CASE c # b /\ a = b
      <4>1. Cardinality(ch[c]) < Cardinality(ch[b]) /\ b \in B /\ c \in B
        BY <1>0, <1>6, <2>2, <3>2
      <4>2. Cardinality(ch[c]) \in Nat /\ Cardinality(ch[b]) \in Nat
        BY <1>4, <4>1
      <4>3. QED
        BY <2>2, <3>2, <4>1, <4>2
    <3>3. CASE c # b /\ a # b
      BY <1>0, <2>2, <3>3
    <3>4. QED
      BY <3>1, <3>2, <3>3
  <2>3. \A b \in B \ {r} : par[b] \in S => b \in S
    BY <2>2
  <2>4. S = B
    <3> HIDE DEF S
    <3>1. QED
      BY <2>1, <2>3, TreeInduction
  <2>5. QED
    BY <2>4
<1>8. QED
  BY <1>1, <1>2, <1>3, <1>4, <1>5, <1>6, <1>7

-----------------------------------------------------------------------------
(* Counting up: the numbers 0 .. n are a tree too, each number but 0 linked *)
(* to the one below it.                                                     *)

LEMMA LineIsATree ==
    ASSUME NEW n \in Nat
    PROVE  Tree(0 .. n, 0, [i \in (0 .. n) \ {0} |-> i - 1])
<1> DEFINE B == 0 .. n
           par == [i \in B \ {0} |-> i - 1]
<1>1. 0 \in B /\ par \in [B \ {0} -> B]
  OBVIOUS
<1>2. ASSUME NEW S \in SUBSET B, S # {} PROVE \E b \in S : b = 0 \/ par[b] \notin S
  <2>1. PICK b \in S : \A c \in S : b <= c
    <3>1. S \subseteq Nat
      BY <1>2
    <3>2. QED
      BY <1>2, <3>1, NatMin
  <2>2. CASE b # 0
    <3>1. par[b] = b - 1 /\ b \in Nat
      BY <2>2
    <3>2. b - 1 \notin S
      BY <2>1, <3>1
    <3>3. QED
      BY <3>1, <3>2
  <2>3. QED
    BY <2>2
<1>3. QED
  BY <1>1, <1>2 DEF Tree

\* The values a loop goes through that runs n times.
Loops(f, n, v0, step) == f[0] = v0 /\ \A i \in 1 .. n : f[i] = step[<<i, f[i - 1]>>]

\* A loop that runs n times computes something.
LEMMA LineRecursion ==
    ASSUME NEW n \in Nat, NEW V, NEW v0 \in V, NEW step \in [(0 .. n) \X V -> V]
    PROVE  \E f \in [0 .. n -> V] : Loops(f, n, v0, step)
<1> DEFINE B == 0 .. n
           par == [i \in B \ {0} |-> i - 1]
<1>1. Tree(B, 0, par)
  BY LineIsATree
<1>2. \A i \in 1 .. n : i \in B \ {0} /\ par[i] = i - 1
  OBVIOUS
<1> HIDE DEF B, par
<1>3. PICK f \in [B -> V] : AlongLinks(f, B, 0, par, v0, step)
  <2>1. step \in [B \X V -> V]
    BY DEF B
  <2>2. QED
    BY <1>1, <2>1, TreeRecursion
<1>4. \A i \in 1 .. n : f[i] = step[<<i, f[i - 1]>>]
  <2>1. TAKE i \in 1 .. n
  <2>2. f[i] = step[<<i, f[par[i]]>>]
    BY Zenon, <1>2, <1>3 DEF AlongLinks
  <2>3. QED
    BY Zenon, <1>2, <2>2
<1>5. f[0] = v0 /\ f \in [0 .. n -> V]
  BY Zenon, <1>3 DEF AlongLinks, B
<1>6. QED
  BY Zenon, <1>4, <1>5 DEF Loops

\* What holds of 0 and is handed on from number to number holds up to n.
LEMMA LineInduction ==
    ASSUME NEW n \in Nat, NEW S \in SUBSET (0 .. n), 0 \in S,
           \A i \in 1 .. n : i - 1 \in S => i \in S
    PROVE  S = 0 .. n
<1> DEFINE T == (0 .. n) \ S
<1>1. SUFFICES ASSUME T # {} PROVE FALSE
  OBVIOUS
<1>2. T \subseteq Nat
  OBVIOUS
<1>3. PICK b \in T : \A c \in T : b <= c
  <2> HIDE DEF T
  <2>1. QED
    BY <1>1, <1>2, NatMin
<1>4. b \in 1 .. n /\ b - 1 \in 0 .. n
  BY <1>3
<1>5. b - 1 \notin T
  BY <1>3, <1>4
<1>6. QED
  BY <1>3, <1>4, <1>5
=============================================================================
