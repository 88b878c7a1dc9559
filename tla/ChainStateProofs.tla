-------------------------- MODULE ChainStateProofs --------------------------
(***************************************************************************)
(* TLAPS proofs that ChainState keeps its safety properties, for every     *)
(* block tree and every set of threads.                                    *)
(***************************************************************************)
EXTENDS ChainState, DataFacts

-----------------------------------------------------------------------------
(* The tree. *)

\* The facts of the assumption that a proof needs one by one.
LEMMA TreeShape ==
    /\ Genesis \in Blocks /\ NoBlock \notin Blocks
    /\ \A b \in Blocks : /\ Height[b] \in Nat /\ Work[b] \in Nat /\ Address[b] \in Nat
                         /\ Anc[b] \subseteq Blocks /\ b \in Anc[b] /\ Genesis \in Anc[b]
    /\ Anc[Genesis] = {Genesis}
    /\ \A b \in Blocks \ {Genesis} :
          /\ Parent[b] \in Blocks /\ Parent[b] # b
          /\ Anc[b] = {b} \cup Anc[Parent[b]] /\ b \notin Anc[Parent[b]]
          /\ Height[b] = Height[Parent[b]] + 1 /\ Work[b] > Work[Parent[b]]
<1>1. \A b \in Blocks : b \in Anc[b]
  <2>1. Genesis \in Anc[Genesis]
    BY Zenon, ChainStateAssumption
  <2>2. \A b \in Blocks \ {Genesis} : Anc[b] = {b} \cup Anc[Parent[b]]
    BY Zenon, ChainStateAssumption
  <2>3. QED
    BY <2>1, <2>2
<1>2. QED
  BY <1>1, ChainStateAssumption

\* What holds of every block's ancestors: theirs are among them, they are lower
\* and have less work, and they lie on one line.
OneLine(b) ==
    /\ \A c \in Anc[b] : Anc[c] \subseteq Anc[b]
    /\ \A c \in Anc[b] \ {b} : Height[c] < Height[b] /\ Work[c] < Work[b]
    /\ \A c, d \in Anc[b] : Height[c] <= Height[d] => c \in Anc[d]

\* The ancestors of a block form a chain.
LEMMA AncestorsOnOneLine == \A b \in Blocks : OneLine(b)
<1> DEFINE Bad == {b \in Blocks : ~OneLine(b)}
<1>1. SUFFICES ASSUME Bad # {} PROVE FALSE
  OBVIOUS
<1>2. PICK b \in Bad : \A x \in Bad : Height[b] <= Height[x]
  BY <1>1, LeastElement, TreeShape
<1>3. b \in Blocks /\ ~OneLine(b)
  BY <1>2
<1>4. CASE b = Genesis
  BY <1>3, <1>4, TreeShape DEF OneLine
<1>5. CASE b # Genesis
  <2> DEFINE p == Parent[b]
  <2>1. /\ p \in Blocks /\ Anc[b] = {b} \cup Anc[p] /\ b \notin Anc[p] /\ p \in Anc[p]
        /\ Height[p] \in Nat /\ Height[b] = Height[p] + 1
        /\ Work[p] \in Nat /\ Work[b] \in Nat /\ Work[b] > Work[p]
    BY <1>3, <1>5, TreeShape
  <2>2. p \notin Bad
    BY <1>2, <2>1
  <2>3. OneLine(p)
    BY <2>1, <2>2
  <2> HIDE DEF p, Bad
  <2>4. \A c \in Anc[p] : /\ Height[c] \in Nat /\ Work[c] \in Nat /\ Height[c] <= Height[p]
                          /\ Work[c] <= Work[p] /\ Anc[c] \subseteq Anc[p]
    <3>1. \A c \in Anc[p] : c \in Blocks /\ Height[c] \in Nat /\ Work[c] \in Nat
      BY <2>1, TreeShape
    <3>2. QED
      BY <2>1, <2>3, <3>1 DEF OneLine
  <2>5. \A c \in Anc[b] : Anc[c] \subseteq Anc[b]
    BY <2>1, <2>4
  <2>6. \A c \in Anc[b] \ {b} : Height[c] < Height[b] /\ Work[c] < Work[b]
    BY <2>1, <2>4
  <2>7. ASSUME NEW c \in Anc[b], NEW d \in Anc[b], Height[c] <= Height[d] PROVE c \in Anc[d]
    <3>1. CASE d = b
      BY <2>7, <3>1
    <3>2. CASE d # b
      <4>1. d \in Anc[p] /\ Height[d] < Height[b] /\ Height[d] \in Nat
        BY <2>1, <2>4, <2>6, <3>2
      <4>2. c # b
        BY <2>1, <2>7, <4>1
      <4>3. QED
        BY <2>1, <2>3, <2>7, <4>1, <4>2 DEF OneLine
    <3>3. QED
      BY <3>1, <3>2
  <2>8. QED
    BY <1>3, <2>5, <2>6, <2>7 DEF OneLine
<1>6. QED
  BY <1>4, <1>5

\* The form in which the proofs below use it.
LEMMA Ancestors ==
    ASSUME NEW b \in Blocks, NEW c \in Anc[b]
    PROVE  /\ c \in Blocks /\ Anc[c] \subseteq Anc[b]
           /\ c # b => /\ Height[c] < Height[b] /\ Work[c] < Work[b]
                       /\ b \notin Anc[c] /\ b # Genesis /\ c \in Anc[Parent[b]]
           /\ \A d \in Anc[b] : /\ Height[c] <= Height[d] => c \in Anc[d]
                                /\ Height[c] = Height[d] => c = d
                                /\ c \in Anc[d] \/ d \in Anc[c]
<1>1. OneLine(b) /\ c \in Blocks
  BY AncestorsOnOneLine, TreeShape
<1>2. OneLine(c)
  BY <1>1, AncestorsOnOneLine
<1>3. Height[b] \in Nat /\ \A d \in Anc[b] : d \in Blocks /\ Height[d] \in Nat /\ OneLine(d)
  BY AncestorsOnOneLine, TreeShape
<1>4. ASSUME c # b
      PROVE  /\ Height[c] < Height[b] /\ Work[c] < Work[b]
             /\ b \notin Anc[c] /\ b # Genesis /\ c \in Anc[Parent[b]]
  <2>1. Height[c] < Height[b] /\ Work[c] < Work[b]
    BY <1>1, <1>4 DEF OneLine
  <2>2. b \notin Anc[c]
    BY <1>2, <1>3, <1>4, <2>1 DEF OneLine
  <2>3. b # Genesis
    BY <1>4, TreeShape
  <2>4. QED
    BY <1>4, <2>1, <2>2, <2>3, TreeShape
<1>5. ASSUME NEW d \in Anc[b]
      PROVE  /\ Height[c] <= Height[d] => c \in Anc[d]
             /\ Height[c] = Height[d] => c = d
             /\ c \in Anc[d] \/ d \in Anc[c]
  <2>1. /\ Height[c] <= Height[d] => c \in Anc[d]
        /\ Height[d] <= Height[c] => d \in Anc[c]
    BY <1>1 DEF OneLine
  <2>2. Height[c] <= Height[d] \/ Height[d] <= Height[c]
    BY <1>3
  <2>3. ASSUME Height[c] = Height[d] PROVE c = d
    <3>1. c \in Anc[d]
      BY <1>3, <2>1, <2>3
    <3>2. QED
      BY <1>3, <2>3, <3>1 DEF OneLine
  <2>4. QED
    BY <2>1, <2>2, <2>3
<1>6. QED
  BY <1>1, <1>4, <1>5 DEF OneLine

\* Some block of a nonempty set is highest.
LEMMA Highest ==
    ASSUME NEW S, S \subseteq Blocks, S # {}
    PROVE  \E x \in S : \A y \in S : Height[y] <= Height[x]
<1> DEFINE R == {p \in S \X S : Height[p[1]] <= Height[p[2]]}
<1>1. IsFiniteSet(S)
  BY ChainStateAssumption, FS_Subset
<1>2. \A x \in S : Height[x] \in Nat
  BY TreeShape
<1>3. \A x, y \in S : <<x, y>> \in R <=> Height[x] <= Height[y]
  OBVIOUS
<1> HIDE DEF R
<1>4. \E x \in S : \A y \in S \ {x} : <<y, x>> \in R
  <2>1. \A x, y \in S : x # y => <<x, y>> \in R \/ <<y, x>> \in R
    BY <1>2, <1>3
  <2>2. \A x, y, z \in S : <<x, y>> \in R /\ <<y, z>> \in R => <<x, z>> \in R
    BY <1>2, <1>3
  <2>3. QED
    BY <1>1, <2>1, <2>2, GreatestElement
<1>5. PICK x \in S : \A y \in S \ {x} : <<y, x>> \in R
  BY <1>4
<1>6. \A y \in S : Height[y] <= Height[x]
  <2>1. \A y \in S \ {x} : Height[y] <= Height[x]
    BY <1>3, <1>5
  <2>2. Height[x] <= Height[x]
    BY <1>2
  <2>3. QED
    BY <2>1, <2>2
<1>7. QED
  BY <1>6

-----------------------------------------------------------------------------
(* The order of the candidates. *)

\* CBlockIndexWorkComparator is a strict total order that extends the order by
\* work, whatever the sequence ids.
LEMMA LessIsAnOrder ==
    ASSUME NEW s \in [Blocks -> Nat], NEW a \in Blocks, NEW b \in Blocks
    PROVE  /\ ~Less(s, a, a)
           /\ Less(s, a, b) => ~Less(s, b, a)
           /\ a # b => Less(s, a, b) \/ Less(s, b, a)
           /\ Work[a] < Work[b] => Less(s, a, b)
           /\ Less(s, a, b) => Work[a] <= Work[b]
           /\ \A c \in Blocks : Less(s, a, b) /\ Less(s, b, c) => Less(s, a, c)
<1>1. /\ Work[a] \in Nat /\ Work[b] \in Nat /\ s[a] \in Nat /\ s[b] \in Nat
      /\ Address[a] \in Nat /\ Address[b] \in Nat
      /\ a # b => Address[a] # Address[b]
  BY TreeShape, ChainStateAssumption
<1>2. ASSUME NEW c \in Blocks, Less(s, a, b), Less(s, b, c) PROVE Less(s, a, c)
  <2>1. Work[c] \in Nat /\ s[c] \in Nat /\ Address[c] \in Nat
    BY TreeShape
  <2>2. QED
    BY <1>1, <1>2, <2>1 DEF Less
<1>3. /\ ~Less(s, a, a)
      /\ Less(s, a, b) => ~Less(s, b, a)
      /\ a # b => Less(s, a, b) \/ Less(s, b, a)
      /\ Work[a] < Work[b] => Less(s, a, b)
      /\ Less(s, a, b) => Work[a] <= Work[b]
  BY <1>1 DEF Less
<1>4. QED
  BY <1>2, <1>3

\* The same of the sequence ids of the state.
LEMMA WorseIsAnOrder ==
    ASSUME TypeOK, NEW a \in Blocks, NEW b \in Blocks
    PROVE  /\ ~Worse(a, a)
           /\ Worse(a, b) => ~Worse(b, a)
           /\ a # b => Worse(a, b) \/ Worse(b, a)
           /\ Work[a] < Work[b] => Worse(a, b)
           /\ Worse(a, b) => Work[a] <= Work[b]
           /\ \A c \in Blocks : Worse(a, b) /\ Worse(b, c) => Worse(a, c)
<1>1. seq \in [Blocks -> Nat]
  BY DEF TypeOK
<1>2. QED
  BY <1>1, LessIsAnOrder DEF Worse

\* A block on the active chain below the tip is worse than the tip.
LEMMA AncestorIsWorse ==
    ASSUME TypeOK, NEW b \in Blocks, NEW c \in Anc[b]
    PROVE  c \in Blocks /\ (c = b \/ Worse(c, b))
  BY Ancestors, WorseIsAnOrder

-----------------------------------------------------------------------------
(* FindMostWorkChain. *)

\* FindMostWorkChain returns a candidate with no failed block between it and
\* the active chain, the best of those, and nothing only if there is none.
LEMMA MostWorkFacts ==
    ASSUME TypeOK
    PROVE  LET m == FindMostWorkChain
           IN  /\ m = NoBlock => \A c \in candidates : ~Usable(c)
               /\ m # NoBlock =>
                      /\ m \in candidates /\ Usable(m)
                      /\ \A c \in candidates : Usable(c) => c = m \/ Worse(c, m)
<1> DEFINE ok == {c \in candidates : Usable(c)}
           R == {p \in ok \X ok : Worse(p[1], p[2])}
<1>1. ok \subseteq Blocks /\ NoBlock \notin ok
  BY TreeShape DEF TypeOK
<1>2. CASE ok = {}
  <2>1. FindMostWorkChain = NoBlock
    BY <1>2 DEF FindMostWorkChain
  <2>2. QED
    BY <1>2, <2>1
<1>3. CASE ok # {}
  <2>1. \A x, y \in ok : <<x, y>> \in R <=> Worse(x, y)
    OBVIOUS
  <2>2. FindMostWorkChain = CHOOSE c \in ok : \A d \in ok \ {c} : Worse(d, c)
    BY <1>3 DEF FindMostWorkChain
  <2>3. \A c \in ok : c \in candidates /\ Usable(c)
    OBVIOUS
  <2>4. \A c \in candidates : Usable(c) => c \in ok
    OBVIOUS
  <2> HIDE DEF ok, R
  <2>5. IsFiniteSet(ok)
    BY <1>1, ChainStateAssumption, FS_Subset
  <2>6. \A x, y \in ok : x # y => <<x, y>> \in R \/ <<y, x>> \in R
    BY <1>1, <2>1, WorseIsAnOrder
  <2>7. \A x, y, z \in ok : <<x, y>> \in R /\ <<y, z>> \in R => <<x, z>> \in R
    BY <1>1, <2>1, WorseIsAnOrder
  <2>8. \E c \in ok : \A d \in ok \ {c} : <<d, c>> \in R
    BY <1>3, <2>5, <2>6, <2>7, GreatestElement
  <2>9. \E c \in ok : \A d \in ok \ {c} : Worse(d, c)
    BY <2>1, <2>8
  <2> DEFINE m == CHOOSE c \in ok : \A d \in ok \ {c} : Worse(d, c)
  <2>10. m \in ok /\ \A d \in ok \ {m} : Worse(d, m)
    BY <2>9
  <2>11. FindMostWorkChain = m
    BY <2>2
  <2> HIDE DEF m
  <2>12. QED
    BY <1>1, <2>3, <2>4, <2>10, <2>11
<1>4. QED
  BY <1>2, <1>3

\* What the loop takes out of the candidates or marks as failed lies off the
\* active chain and has an ancestor there that was marked failed before.
LEMMA SkippedFacts ==
    ASSUME TypeOK, \A b \in linked : Anc[b] \subseteq linked,
           NEW a \in Removed \cup MarkedFailed
    PROVE  /\ a \in linked \ active
           /\ \E f \in failed \ active : f \in Anc[a]
<1>1. PICK c \in Skipped :
          /\ a \in Path(c)
          /\ Height[a] >= Height[FirstFailed(c)] \/ Height[a] > Height[FirstFailed(c)]
  BY DEF Removed, MarkedFailed
<1>2. c \in candidates /\ c \in linked /\ c \in Blocks
  BY <1>1 DEF Skipped, TypeOK
<1>3. ~Usable(c)
  BY <1>1, <1>2, WorseIsAnOrder DEF Skipped
<1> DEFINE S == Path(c) \cap failed
           f == FirstFailed(c)
<1>4. S # {} /\ S \subseteq Blocks
  BY <1>2, <1>3, TreeShape DEF Usable, Path
<1>5. \E x \in S : \A y \in S : Height[y] <= Height[x]
  BY <1>4, Highest
<1>6. f \in S
  BY <1>5 DEF FirstFailed
<1>7. f \in failed \ active /\ f \in Anc[c] /\ a \in Anc[c] /\ a \notin active
  BY <1>1, <1>6 DEF Path
<1>8. a \in linked
  BY <1>2, <1>7
<1>9. Height[f] \in Nat /\ Height[a] \in Nat
  BY <1>2, <1>7, TreeShape
<1> HIDE DEF f, S
<1>10. f \in Anc[a]
  <2>1. Height[f] <= Height[a]
    BY <1>1, <1>9 DEF f
  <2>2. QED
    BY <1>2, <1>7, <2>1, Ancestors
<1>11. QED
  BY <1>7, <1>8, <1>10

-----------------------------------------------------------------------------
(* ActivateBestChainStep. *)

\* Where a step towards b leaves the tip, and the blocks it connects.
NewTip(b) == IF StopAt(b) \in BadConnects THEN Parent[StopAt(b)] ELSE StopAt(b)
Connected(b) == Anc[NewTip(b)] \cap Path(b)

\* A step towards a block of the active chain stops there; a step that has
\* blocks to connect stops at one of them, past no block that fails.
LEMMA StopFacts ==
    ASSUME TypeOK, NEW b \in Blocks
    PROVE  /\ Path(b) = {} => StopAt(b) = b /\ b \in active
           /\ Path(b) # {} =>
                  /\ StopAt(b) \in Path(b)
                  /\ StopAt(b) \in BadConnects \/ Work[StopAt(b)] > Work[tip] \/ StopAt(b) = b
                  /\ \A x \in Path(b) : Height[x] < Height[StopAt(b)] => x \notin BadConnects
<1>1. Path(b) \subseteq Blocks /\ b \in Anc[b] /\ Anc[b] \subseteq Blocks
  BY TreeShape DEF Path
<1>2. ASSUME Path(b) = {} PROVE StopAt(b) = b /\ b \in active
  <2> DEFINE S == active \cap Anc[b]
  <2>1. b \in active
    BY <1>1, <1>2 DEF Path
  <2>2. b \in S /\ S \subseteq Blocks /\ S \subseteq Anc[b]
    BY <1>1, <2>1
  <2>3. \E x \in S : \A y \in S : Height[y] <= Height[x]
    BY <2>2, Highest
  <2>4. Fork(b) \in S /\ \A y \in S : Height[y] <= Height[Fork(b)]
    BY <2>3 DEF Fork
  <2> HIDE DEF S
  <2>5. b \in Anc[Fork(b)]
    BY <2>2, <2>4, Ancestors
  <2>6. Fork(b) = b
    BY <2>2, <2>4, <2>5, Ancestors
  <2>7. QED
    BY <1>2, <2>1, <2>6 DEF StopAt
<1>3. ASSUME Path(b) # {}
      PROVE  /\ StopAt(b) \in Path(b)
             /\ StopAt(b) \in BadConnects \/ Work[StopAt(b)] > Work[tip] \/ StopAt(b) = b
             /\ \A x \in Path(b) : Height[x] < Height[StopAt(b)] => x \notin BadConnects
  <2> DEFINE S == {c \in Path(b) : c \in BadConnects \/ Work[c] > Work[tip] \/ c = b}
             m == CHOOSE c \in S : \A x \in S : Height[c] <= Height[x]
  <2>1. b \in Path(b)
    <3>1. tip \in Blocks
      BY DEF TypeOK
    <3>2. b \in active => Anc[b] \subseteq active
      BY <3>1, Ancestors DEF active
    <3>3. QED
      BY <1>1, <1>3, <3>2 DEF Path
  <2>2. S # {} /\ S \subseteq Path(b) /\ S \subseteq Blocks
    BY <1>1, <2>1
  <2>3. \A x \in S : Height[x] \in Nat
    BY <2>2, TreeShape
  <2>4. \E c \in S : \A x \in S : Height[c] <= Height[x]
    <3> HIDE DEF S
    <3>1. QED
      BY <2>2, <2>3, LeastElement
  <2>5. m \in S /\ \A x \in S : Height[m] <= Height[x]
    BY <2>4
  <2>6. StopAt(b) = m
    BY <1>3 DEF StopAt
  <2>7. \A x \in Path(b) : x \in BadConnects => x \in S
    OBVIOUS
  <2>8. m \in Path(b) /\ (m \in BadConnects \/ Work[m] > Work[tip] \/ m = b)
    BY <2>5
  <2> HIDE DEF S, m
  <2>9. QED
    BY <2>3, <2>5, <2>6, <2>7, <2>8
<1>4. QED
  BY <1>2, <1>3

\* What a step connects: a chain up to the new tip that no bad block is in,
\* below the block that failed if one did, and with more work than the old tip
\* or the whole of the way to the target if none did.
LEMMA NewTipFacts ==
    ASSUME TypeOK, active \cap BadConnects = {}, NEW b \in Blocks
    PROVE  /\ NewTip(b) \in Anc[b] /\ NewTip(b) \in Blocks
           /\ Connected(b) \subseteq Path(b) /\ Connected(b) \subseteq Anc[NewTip(b)]
           /\ Anc[NewTip(b)] \subseteq active \cup Connected(b)
           /\ Anc[NewTip(b)] \cap BadConnects = {}
           /\ Connected(b) = {} => NewTip(b) \in active
           /\ StopAt(b) \in BadConnects =>
                  /\ StopAt(b) \in Path(b) /\ StopAt(b) \in Anc[b]
                  /\ StopAt(b) \notin Anc[NewTip(b)]
           /\ StopAt(b) \notin BadConnects =>
                  /\ NewTip(b) = b \/ Work[NewTip(b)] > Work[tip]
                  /\ Connected(b) = {} => NewTip(b) = b /\ b \in active
<1>1. tip \in Blocks /\ Genesis \in active /\ active \subseteq Blocks
  BY TreeShape DEF TypeOK, active
<1>2. Anc[b] \subseteq active \cup Path(b) /\ Path(b) \subseteq Anc[b] /\ Path(b) \cap active = {}
  BY DEF Path
<1>3. CASE Path(b) = {}
  <2>1. StopAt(b) = b /\ b \in active
    BY <1>3, StopFacts
  <2>2. StopAt(b) \notin BadConnects /\ NewTip(b) = b
    BY <2>1 DEF NewTip
  <2>3. Anc[b] \subseteq active /\ b \in Anc[b]
    BY <1>1, <2>1, Ancestors, TreeShape DEF active
  <2>4. Connected(b) = {}
    BY <1>3 DEF Connected
  <2>5. QED
    BY <1>3, <2>1, <2>2, <2>3, <2>4
<1>4. CASE Path(b) # {}
  <2> DEFINE s == StopAt(b)
  <2>1. /\ s \in Path(b) /\ (s \in BadConnects \/ Work[s] > Work[tip] \/ s = b)
        /\ \A x \in Path(b) : Height[x] < Height[s] => x \notin BadConnects
    BY <1>4, StopFacts
  <2> HIDE DEF s
  <2>2. s \in Anc[b] /\ s \in Blocks /\ s # Genesis /\ Anc[s] \subseteq Anc[b] /\ s \notin active
    BY <1>1, <1>2, <2>1, Ancestors
  <2>3. \A x \in Anc[s] \ {s} : x \notin BadConnects
    <3>1. \A x \in Anc[s] \ {s} : Height[x] < Height[s]
      BY <2>2, Ancestors
    <3>2. QED
      BY <1>2, <2>1, <2>2, <3>1
  <2>4. CASE s \in BadConnects
    <3>1. NewTip(b) = Parent[s]
      BY <2>4 DEF NewTip, s
    <3>2. /\ Parent[s] \in Blocks /\ Parent[s] \in Anc[s] /\ s \notin Anc[Parent[s]]
          /\ Anc[Parent[s]] \subseteq Anc[s] \ {s} /\ Parent[s] \in Anc[Parent[s]]
      BY <2>2, TreeShape
    <3>3. Anc[Parent[s]] \cap BadConnects = {}
      BY <2>3, <3>2
    <3>4. /\ Connected(b) = Anc[Parent[s]] \cap Path(b)
          /\ Anc[Parent[s]] \subseteq active \cup Connected(b)
      BY <1>2, <2>2, <3>1, <3>2 DEF Connected
    <3>5. QED
      BY <2>1, <2>2, <2>4, <3>1, <3>2, <3>3, <3>4 DEF s
  <2>5. CASE s \notin BadConnects
    <3>1. NewTip(b) = s
      BY <2>5 DEF NewTip, s
    <3>2. Anc[s] \cap BadConnects = {} /\ s \in Anc[s]
      BY <2>2, <2>3, <2>5, TreeShape
    <3>3. Connected(b) = Anc[s] \cap Path(b) /\ Anc[s] \subseteq active \cup Connected(b)
      BY <1>2, <2>2, <3>1 DEF Connected
    <3>4. s \in Connected(b)
      BY <2>1, <3>2, <3>3
    <3>5. QED
      BY <2>1, <2>2, <2>5, <3>1, <3>2, <3>3, <3>4 DEF s
  <2>6. QED
    BY <2>4, <2>5
<1>5. QED
  BY <1>3, <1>4

-----------------------------------------------------------------------------
(* The inductive invariant. *)

\* Types; a target kept by a thread is a linked block.
TypeInv ==
    /\ TypeOK /\ raced \in BOOLEAN
    /\ \A t \in Threads : mostWork[t] \in linked \cup {NoBlock}

\* Linked blocks form a tree, no bad block has data, and a block is not both
\* linked and waiting.
LinkInv ==
    /\ \A b \in linked : Anc[b] \subseteq linked
    /\ data \cap BadBlocks = {}
    /\ \A b \in Blocks : seq[b] # 0 => b \in linked
    /\ unlinked \cap linked = {}

\* No ancestor of b was found invalid.
Clean(b) == Anc[b] \cap failedValid = {}

\* A failure mark has a cause, and away from it every block with its ancestors'
\* data is linked and every other block with data waits.
WaitInv ==
    ~reconsidered =>
        /\ \A b \in failed : ~Clean(b)
        /\ \A b \in known : Clean(b) =>
               /\ Anc[b] \subseteq data => b \in linked
               /\ b \in data \ linked => b \in unlinked

\* No candidate is worse than the tip, every block connected passed its checks,
\* and none is marked failed unless a thread took a step to a stale target.
ActiveInv ==
    /\ \A c \in candidates : ~Worse(c, tip)
    /\ active \cap BadConnects = {}
    /\ ~raced => active \cap failed = {} /\ active \ {Genesis} \subseteq scripts

\* A valid block no worse than the tip is a candidate or worse than a candidate
\* that will connect; and when ActivateBestChain has been left by all threads
\* no valid candidate is better than the tip.  The first part holds within
\* ActivateBestChain too: there, after an invalid block lowered the tip, blocks
\* better than the new tip may be missing, but then the old tip, or a better
\* candidate, is still there.
BestInv ==
    ~reconsidered /\ ~raced =>
        /\ \A x \in linked : Clean(x) /\ ~Worse(x, tip) /\ x \notin candidates =>
               \E c \in candidates : Worse(x, c) /\ Clean(c) /\ Anc[c] \cap BadConnects = {}
        /\ quiescent /\ ~shutdown => \A c \in candidates : Clean(c) => ~Worse(tip, c)

Inv == TypeInv /\ LinkInv /\ WaitInv /\ ActiveInv /\ BestInv

-----------------------------------------------------------------------------
(* What the actions do, in the terms of the invariant. *)

\* Whether or not FindMostWorkChain is run before a step, only blocks above a
\* failed block off the active chain leave the candidates or are marked.
LEMMA AfterFind ==
    ASSUME TypeInv, LinkInv, NEW t \in Threads
    PROVE  /\ CandidatesAfterFind(t) \subseteq candidates
           /\ \A c \in candidates \ CandidatesAfterFind(t) : \E f \in failed \ active : f \in Anc[c]
           /\ failedChild \subseteq FailedChildAfterFind(t)
           /\ \A a \in FailedChildAfterFind(t) \ failedChild :
                  a \in linked \ active /\ \E f \in failed \ active : f \in Anc[a]
<1>1. \A a \in Removed \cup MarkedFailed : a \in linked \ active /\ \E f \in failed \ active : f \in Anc[a]
  BY SkippedFacts DEF TypeInv, LinkInv
<1>2. QED
  BY <1>1 DEF CandidatesAfterFind, FailedChildAfterFind

\* The target of a step is a linked block, and the one FindMostWorkChain gives
\* now unless it is stale.
LEMMA TargetFacts ==
    ASSUME TypeInv, NEW t \in Threads
    PROVE  /\ Target(t) \in linked \cup {NoBlock}
           /\ ~Stale(t) => Target(t) = FindMostWorkChain
<1>1. FindMostWorkChain \in linked \cup {NoBlock}
  BY MostWorkFacts DEF TypeInv, TypeOK
<1>2. QED
  BY <1>1 DEF TypeInv, Target, Stale

\* ActivateBestChainStep, with its LET opened.
LEMMA StepEffect ==
    ASSUME TypeInv, LinkInv, ActiveInv, NEW t \in Threads, ActivateBestChainStep(t)
    PROVE  LET b == Target(t)
           IN  /\ b \in linked /\ b \in Blocks /\ b # tip /\ pc[t] = "activate"
               /\ tip' = NewTip(b)
               /\ \A c : c \in candidates' <=>
                     /\ c \in CandidatesAfterFind(t)
                     /\ Connected(b) = {} \/ ~Worse(c, NewTip(b))
                     /\ c = StopAt(b) => StopAt(b) \notin BadConnects
               /\ failedValid' = IF StopAt(b) \in BadConnects
                                 THEN failedValid \cup {StopAt(b)} ELSE failedValid
               /\ failedChild' = FailedChildAfterFind(t)
               /\ scripts' = scripts \cup (Connected(b) \ (failedValid \cup failedChild'))
               /\ mostWork' = [mostWork EXCEPT ![t] = mostWork'[t]]
               /\ mostWork'[t] \in {b, NoBlock}
               /\ pc' = [pc EXCEPT ![t] = pc'[t]] /\ pc'[t] \in {"idle", "activate"}
               /\ pc'[t] = "idle" => mostWork'[t] = NoBlock /\ NewTip(b) = b
               /\ raced' = (raced \/ Stale(t))
               /\ known' = known /\ data' = data /\ linked' = linked /\ seq' = seq
               /\ nBlockSequenceId' = nBlockSequenceId /\ unlinked' = unlinked
               /\ shutdown' = shutdown /\ reconsidered' = reconsidered
<1> DEFINE b == Target(t)
           next == NextTarget(b, StopAt(b) \in BadConnects)
           left == IF Connected(b) = {} THEN CandidatesAfterFind(t)
                   ELSE PruneBlockIndexCandidates(CandidatesAfterFind(t), NewTip(b))
<1>1. b \in linked /\ b \in Blocks /\ b # tip /\ pc[t] = "activate"
  BY TargetFacts DEF ActivateBestChainStep, TypeInv, TypeOK
<1>2. /\ tip' = NewTip(b)
      /\ candidates' = IF StopAt(b) \in BadConnects THEN left \ {StopAt(b)} ELSE left
      /\ failedValid' = IF StopAt(b) \in BadConnects
                        THEN failedValid \cup {StopAt(b)} ELSE failedValid
      /\ failedChild' = FailedChildAfterFind(t)
      /\ scripts' = scripts \cup (Connected(b) \ (failedValid \cup failedChild'))
      /\ mostWork' = [mostWork EXCEPT ![t] = IF NewTip(b) = next THEN NoBlock ELSE next]
      /\ pc' = [pc EXCEPT ![t] = IF NewTip(b) = next THEN "idle" ELSE "activate"]
      /\ raced' = (raced \/ Stale(t))
      /\ known' = known /\ data' = data /\ linked' = linked /\ seq' = seq
      /\ nBlockSequenceId' = nBlockSequenceId /\ unlinked' = unlinked
      /\ shutdown' = shutdown /\ reconsidered' = reconsidered
  BY DEF ActivateBestChainStep, NewTip, Connected
<1>3. next \in {b, NoBlock} /\ (next = b \/ next = NoBlock)
  BY DEF NextTarget
<1>4. NewTip(b) \in Blocks /\ NewTip(b) # NoBlock
  BY <1>1, NewTipFacts, TreeShape DEF TypeInv, ActiveInv
<1>5. /\ mostWork'[t] = IF NewTip(b) = next THEN NoBlock ELSE next
      /\ pc'[t] = IF NewTip(b) = next THEN "idle" ELSE "activate"
  BY <1>2 DEF TypeInv, TypeOK
<1>6. \A c : c \in candidates' <=>
          /\ c \in CandidatesAfterFind(t)
          /\ Connected(b) = {} \/ ~Worse(c, NewTip(b))
          /\ c = StopAt(b) => StopAt(b) \notin BadConnects
  <2>1. \A c : c \in left <=> c \in CandidatesAfterFind(t) /\ (Connected(b) = {} \/ ~Worse(c, NewTip(b)))
    BY DEF PruneBlockIndexCandidates
  <2> HIDE DEF left, b
  <2>2. QED
    BY <1>2, <2>1
<1> HIDE DEF b, next, left
<1>7. QED
  BY <1>1, <1>2, <1>3, <1>4, <1>5, <1>6 DEF b

\* ActivateBestChain ends in thread t without a step: done, or the node stops.
LEMMA EndEffect ==
    ASSUME NEW t \in Threads, ActivationDone(t) \/ ReorgTooLong(t)
    PROVE  /\ pc[t] = "activate"
           /\ candidates' = CandidatesAfterFind(t) /\ failedChild' = FailedChildAfterFind(t)
           /\ pc' = [pc EXCEPT ![t] = "idle"] /\ mostWork' = [mostWork EXCEPT ![t] = NoBlock]
           /\ raced' = (raced \/ Stale(t))
           /\ known' = known /\ data' = data /\ linked' = linked /\ scripts' = scripts
           /\ failedValid' = failedValid /\ seq' = seq /\ nBlockSequenceId' = nBlockSequenceId
           /\ unlinked' = unlinked /\ tip' = tip /\ reconsidered' = reconsidered
           /\ (shutdown' = shutdown /\ Target(t) \in {NoBlock, tip}) \/ shutdown' = TRUE
  BY DEF ActivationDone, ReorgTooLong

\* Nothing is linked but b and blocks that wait above it, together with all
\* blocks in between, and the blocks linked before keep their order.
LEMMA NewBlockFacts ==
    ASSUME TypeInv, LinkInv, NEW t \in Threads, NEW b \in Blocks, NEW r \in BOOLEAN,
           ProcessNewBlock(t, b, r)
    PROVE  /\ b # Genesis /\ b \notin data /\ b \notin BadBlocks
           /\ NowLinked(b) \subseteq unlinked \cup {b} /\ NowLinked(b) \cap linked = {}
           /\ \A c \in NowLinked(b) : Anc[c] \subseteq linked \cup NowLinked(b)
           /\ Parent[b] \in linked => b \in NowLinked(b)
           /\ seq' \in [Blocks -> Nat] /\ nBlockSequenceId' \in Nat \ {0}
           /\ \A c \in Blocks : seq'[c] # seq[c] => c \in NowLinked(b)
           /\ \A x, y \in linked : Less(seq', x, y) <=> Worse(x, y)
<1>1. b \notin data /\ b \notin BadBlocks
  BY DEF ProcessNewBlock, Wanted
<1>2. linked \subseteq data /\ linked \subseteq Blocks /\ unlinked \subseteq Blocks /\ tip \in linked
  BY DEF TypeInv, TypeOK
<1>3. b # Genesis
  BY <1>1, <1>2, TreeShape DEF LinkInv
<1>4. /\ Parent[b] \in Blocks /\ Anc[b] = {b} \cup Anc[Parent[b]]
      /\ Anc[b] \subseteq Blocks /\ b \in Anc[b]
  BY <1>3, TreeShape
<1> DEFINE N == NowLinked(b)
<1>5. N \subseteq Blocks /\ \A c \in N : /\ Parent[b] \in linked /\ b \in Anc[c]
                                          /\ Anc[c] \ Anc[b] \subseteq unlinked
  BY DEF NowLinked
<1>6. Parent[b] \in linked => b \in N
  BY <1>4 DEF NowLinked
<1>7. ASSUME NEW c \in N PROVE c \in unlinked \cup {b} /\ c \notin linked
  <2>1. c # b => c \notin Anc[b]
    BY <1>5, Ancestors
  <2>2. c \in Anc[c]
    BY <1>5, TreeShape
  <2>3. c = b => c \notin linked
    BY <1>1, <1>2
  <2>4. QED
    BY <1>5, <2>1, <2>2, <2>3 DEF LinkInv
<1>8. ASSUME NEW c \in N, NEW x \in Anc[c] PROVE x \in linked \cup N
  <2>1. c \in Blocks /\ b \in Anc[c] /\ Parent[b] \in linked /\ x \in Blocks
    BY <1>5, TreeShape
  <2>2. CASE x \in Anc[b] /\ x # b
    BY <1>4, <2>1, <2>2 DEF LinkInv
  <2>3. CASE x = b
    BY <1>6, <2>1, <2>3
  <2>4. CASE b \in Anc[x]
    <3>1. Anc[x] \subseteq Anc[c]
      BY <2>1, Ancestors
    <3>2. QED
      BY <1>5, <2>1, <2>4, <3>1 DEF NowLinked
  <2>5. QED
    BY <2>1, <2>2, <2>3, <2>4, Ancestors
<1> HIDE DEF N
<1>9. IsFiniteSet(N) /\ Cardinality(N) \in Nat
  BY <1>5, ChainStateAssumption, FS_Subset, FS_CardinalityType
<1>10. PICK f \in Numberings(N) : seq' = [c \in Blocks |-> IF c \in N THEN f[c] ELSE seq[c]]
  BY DEF ProcessNewBlock, N
<1>11. nBlockSequenceId \in Nat \ {0} /\ seq \in [Blocks -> Nat]
  BY DEF TypeInv, TypeOK
<1>12. \A c \in N : f[c] \in Nat
  <2>1. f \in [N -> nBlockSequenceId .. (nBlockSequenceId + Cardinality(N) - 1)]
    BY <1>10 DEF Numberings
  <2>2. nBlockSequenceId .. (nBlockSequenceId + Cardinality(N) - 1) \subseteq Nat
    BY <1>9, <1>11
  <2>3. QED
    BY <2>1, <2>2
<1>13. seq' \in [Blocks -> Nat] /\ \A c \in Blocks : seq'[c] # seq[c] => c \in N
  BY <1>10, <1>11, <1>12
<1>14. nBlockSequenceId' \in Nat \ {0}
  <2>1. nBlockSequenceId' = nBlockSequenceId + Cardinality(N)
    BY DEF ProcessNewBlock, N
  <2>2. QED
    BY <1>9, <1>11, <2>1
<1>15. \A x, y \in linked : Less(seq', x, y) <=> Worse(x, y)
  <2>1. \A x \in linked : seq'[x] = seq[x]
    BY <1>2, <1>7, <1>13
  <2>2. QED
    BY <2>1 DEF Worse, Less
<1>16. QED
  BY <1>1, <1>3, <1>6, <1>7, <1>8, <1>13, <1>14, <1>15 DEF N

-----------------------------------------------------------------------------
(* Every step keeps the invariant. *)

\* The invariant holds when LoadBlockIndexDB is done.
LEMMA InitInv ==
    ASSUME Init
    PROVE  Inv
<1>1. /\ tip \in Loaded /\ Anc[tip] \cap BadConnects = {} /\ Loaded \subseteq Blocks
      /\ Anc[tip] \subseteq Loaded
      /\ \A b \in Loaded : Anc[b] \subseteq Loaded
      /\ BadBlocks \cap Loaded = {}
  BY ChainStateAssumption DEF Init
<1>2. TypeInv
  <2>1. pc \in [Threads -> {"idle", "activate"}]
    BY DEF Init
  <2>2. mostWork = [t \in Threads |-> NoBlock]
    BY DEF Init
  <2>3. seq \in [Blocks -> Nat] /\ nBlockSequenceId \in Nat \ {0}
    BY DEF Init
  <2>4. candidates \subseteq linked /\ scripts \subseteq linked
    BY <1>1 DEF Init, active
  <2>5. QED
    BY <1>1, <2>1, <2>2, <2>3, <2>4 DEF Init, TypeInv, TypeOK
<1>3. LinkInv
  BY <1>1 DEF Init, LinkInv
<1>4. WaitInv
  BY <1>1 DEF Init, WaitInv, failed
<1>5. ActiveInv
  BY <1>1 DEF Init, ActiveInv, failed, active
<1>6. BestInv
  <2>1. ~quiescent
    BY DEF Init, quiescent
  <2>2. QED
    BY <2>1 DEF Init, BestInv
<1>7. QED
  BY <1>2, <1>3, <1>4, <1>5, <1>6 DEF Inv

\* Headers, and blocks that are not kept, only add to the index, and a failure
\* mark only on a block without data.
LEMMA IndexOnly ==
    ASSUME Inv, NEW t \in Threads, NEW b \in Blocks,
           \/ AcceptBlockHeader(t, b)
           \/ \E r \in BOOLEAN : ProcessUnwantedBlock(t, b, r)
           \/ \E r, c \in BOOLEAN : ProcessBadBlock(t, b, r, c)
    PROVE  Inv'
<1>1. /\ known' = known \cup {b} /\ (b \notin data \/ b \in known)
      /\ failedValid' = failedValid \/ (failedValid' = failedValid \cup {b} /\ b \notin data)
      /\ pc[t] = "idle" /\ pc' \in {pc, [pc EXCEPT ![t] = "activate"]}
      /\ data' = data /\ linked' = linked /\ scripts' = scripts /\ failedChild' = failedChild
      /\ seq' = seq /\ nBlockSequenceId' = nBlockSequenceId /\ candidates' = candidates
      /\ unlinked' = unlinked /\ tip' = tip /\ mostWork' = mostWork /\ shutdown' = shutdown
      /\ reconsidered' = reconsidered /\ raced' = raced
  <2>1. data \subseteq known
    BY DEF Inv, TypeInv, TypeOK
  <2>2. QED
    BY <2>1 DEF AcceptBlockHeader, ProcessUnwantedBlock, ProcessBadBlock, Wanted
<1>2. /\ data \subseteq known /\ linked \subseteq data /\ tip \in linked /\ candidates \subseteq linked
      /\ known \subseteq Blocks
      /\ \A x \in linked : Anc[x] \subseteq data
      /\ \A x \in linked : Clean(x)' <=> Clean(x)
  <2>1. /\ data \subseteq known /\ linked \subseteq data /\ tip \in linked /\ candidates \subseteq linked
        /\ known \subseteq Blocks /\ \A x \in linked : Anc[x] \subseteq linked
    BY DEF Inv, TypeInv, TypeOK, LinkInv
  <2>2. QED
    BY <1>1, <2>1 DEF Clean
<1>3. TypeInv'
  BY <1>1 DEF Inv, TypeInv, TypeOK
<1>4. LinkInv'
  BY <1>1 DEF Inv, LinkInv
<1>5. WaitInv'
  <2>1. SUFFICES ASSUME ~reconsidered
                 PROVE  /\ \A x \in failed' : ~Clean(x)'
                        /\ \A x \in known' : Clean(x)' =>
                               /\ Anc[x] \subseteq data => x \in linked
                               /\ x \in data \ linked => x \in unlinked
    BY <1>1 DEF WaitInv
  <2>2. failedValid \subseteq failedValid' /\ \A x : Clean(x)' => Clean(x)
    BY <1>1 DEF Clean
  <2>3. \A x \in failed' : x \in failed \/ (x = b /\ b \in failedValid')
    BY <1>1 DEF failed
  <2>4. b \in failedValid' => ~Clean(b)'
    BY TreeShape DEF Clean
  <2>5. \A x \in known' : x \in known \/ (x = b /\ b \notin data)
    BY <1>1, <1>2
  <2>6. b \notin data => ~(Anc[b] \subseteq data)
    BY TreeShape
  <2>7. QED
    BY <2>1, <2>2, <2>3, <2>4, <2>5, <2>6 DEF Inv, WaitInv
<1>6. ActiveInv'
  <2>1. active' = active /\ active \subseteq data /\ \A x, y : Worse(x, y)' <=> Worse(x, y)
    BY <1>1, <1>2 DEF active, Worse
  <2>2. active \cap failed = {} => active \cap failed' = {}
    BY <1>1, <2>1 DEF failed
  <2>3. QED
    BY <1>1, <2>1, <2>2 DEF Inv, ActiveInv, Worse
<1>7. BestInv'
  <2>1. \A x, y : Less(seq', x, y) <=> Worse(x, y)
    BY <1>1 DEF Worse
  <2>2. quiescent' => quiescent
    BY <1>1 DEF quiescent, Inv, TypeInv, TypeOK
  <2>3. QED
    BY <1>1, <1>2, <2>1, <2>2 DEF Inv, BestInv, Worse
<1>8. QED
  BY <1>3, <1>4, <1>5, <1>6, <1>7 DEF Inv

\* A block that is kept.
LEMMA NewBlock ==
    ASSUME Inv, NEW t \in Threads, NEW b \in Blocks, NEW r \in BOOLEAN,
           ProcessNewBlock(t, b, r)
    PROVE  Inv'
<1> DEFINE N == NowLinked(b)
<1>1. TypeInv /\ LinkInv /\ WaitInv /\ ActiveInv /\ BestInv /\ TypeOK
  BY DEF Inv, TypeInv
<1>2. /\ b # Genesis /\ b \notin data /\ b \notin BadBlocks
      /\ N \subseteq unlinked \cup {b} /\ N \cap linked = {}
      /\ \A c \in N : Anc[c] \subseteq linked \cup N
      /\ Parent[b] \in linked => b \in N
      /\ seq' \in [Blocks -> Nat] /\ nBlockSequenceId' \in Nat \ {0}
      /\ \A c \in Blocks : seq'[c] # seq[c] => c \in N
      /\ \A x, y \in linked : Less(seq', x, y) <=> Worse(x, y)
  BY <1>1, NewBlockFacts
<1>3. /\ known' = known \cup {b} /\ data' = data \cup {b} /\ linked' = linked \cup N
      /\ candidates' = candidates \cup {c \in N : ~Less(seq', c, tip)}
      /\ unlinked' = UnlinkedAfter(b)
      /\ pc[t] = "idle" /\ pc' = [pc EXCEPT ![t] = "activate"]
      /\ scripts' = scripts /\ failedValid' = failedValid /\ failedChild' = failedChild
      /\ tip' = tip /\ mostWork' = mostWork /\ shutdown' = shutdown
      /\ reconsidered' = reconsidered /\ raced' = raced
  BY DEF ProcessNewBlock
<1> HIDE DEF N
<1>4. /\ known \subseteq Blocks /\ data \subseteq known /\ linked \subseteq data /\ unlinked \subseteq data
      /\ tip \in linked /\ candidates \subseteq linked
      /\ \A x \in linked : Anc[x] \subseteq linked
  BY <1>1 DEF TypeOK, LinkInv
<1>5. /\ unlinked' \subseteq unlinked \cup {b} /\ unlinked' \cap linked' = {}
      /\ unlinked \ N \subseteq unlinked'
  <2>1. CASE Parent[b] \in linked
    <3>1. b \in N /\ unlinked \cap linked = {} /\ linked' = linked \cup N
      BY Zenon, <1>1, <1>2, <1>3, <2>1 DEF LinkInv
    <3>2. unlinked' = unlinked \ N
      BY Zenon, <1>3, <2>1 DEF UnlinkedAfter, N
    <3>3. QED
      BY <3>1, <3>2
  <2>2. CASE Parent[b] \notin linked
    <3>1. N = {}
      BY <2>2 DEF N, NowLinked
    <3>2. b \notin linked /\ unlinked \cap linked = {} /\ linked' = linked
      BY <1>1, <1>2, <1>3, <1>4, <3>1 DEF LinkInv
    <3>3. unlinked' = unlinked \cup {b} \/ unlinked' = unlinked
      BY Zenon, <1>3, <2>2 DEF UnlinkedAfter
    <3>4. QED
      BY <3>1, <3>2, <3>3
  <2>3. QED
    BY <2>1, <2>2
<1>6. TypeInv'
  <2>1. pc' \in [Threads -> {"idle", "activate"}] /\ \A u \in Threads : pc'[u] = "idle" => pc[u] = "idle"
    BY <1>1, <1>3 DEF TypeOK
  <2>2. QED
    BY <1>1, <1>2, <1>3, <1>4, <1>5, <2>1 DEF TypeInv, TypeOK
<1>7. LinkInv'
  <2>1. \A x \in linked' : Anc[x] \subseteq linked'
    BY Zenon, <1>2, <1>3, <1>4
  <2>2. data' \cap BadBlocks = {}
    BY <1>1, <1>2, <1>3 DEF LinkInv
  <2>3. \A x \in Blocks : seq'[x] # 0 => x \in linked'
    <3>1. TAKE x \in Blocks
    <3>2. CASE seq'[x] = seq[x]
      BY <1>1, <1>3, <3>2 DEF LinkInv
    <3>3. CASE seq'[x] # seq[x]
      BY <1>2, <1>3, <3>3
    <3>4. QED
      BY <3>2, <3>3
  <2>4. QED
    BY <1>5, <2>1, <2>2, <2>3 DEF LinkInv
<1>8. WaitInv'
  <2>1. SUFFICES ASSUME ~reconsidered
                 PROVE  /\ \A x \in failed : ~Clean(x)
                        /\ \A x \in known' : Clean(x) =>
                               /\ Anc[x] \subseteq data' => x \in linked'
                               /\ x \in data' \ linked' => x \in unlinked'
    BY <1>3 DEF WaitInv, failed, Clean
  <2>2. /\ \A x \in failed : ~Clean(x)
        /\ \A x \in known : Clean(x) => /\ Anc[x] \subseteq data => x \in linked
                                        /\ x \in data \ linked => x \in unlinked
    BY <1>1, <2>1 DEF WaitInv
  <2>3. /\ Parent[b] \in Blocks /\ Anc[b] = {b} \cup Anc[Parent[b]] /\ Parent[b] \in Anc[b]
        /\ b \notin Anc[Parent[b]] /\ b \in Anc[b] /\ Parent[b] \in Anc[Parent[b]]
    BY <1>2, TreeShape
  <2>4. ASSUME NEW x \in known', Clean(x), Anc[x] \subseteq data' PROVE x \in linked'
    <3>1. x \in Blocks
      BY <1>3, <1>4
    <3>2. CASE b \notin Anc[x]
      <4>1. x # b /\ x \in known /\ Anc[x] \subseteq data
        BY <1>3, <2>3, <2>4, <3>2
      <4>2. QED
        BY <1>3, <2>2, <2>4, <4>1
    <3>3. CASE b \in Anc[x]
      <4>1. Anc[b] \subseteq Anc[x]
        BY <3>1, <3>3, Ancestors
      <4>2. Parent[b] \in linked
        <5>1. Anc[Parent[b]] \subseteq data /\ Clean(Parent[b])
          BY <1>3, <2>3, <2>4, <4>1 DEF Clean
        <5>2. QED
          BY <1>4, <2>2, <2>3, <5>1
      <4>3. ASSUME NEW y \in Anc[x] \ Anc[b] PROVE y \in unlinked
        <5>1. y \in Blocks /\ Anc[y] \subseteq Anc[x] /\ b \in Anc[y]
          BY <3>1, <3>3, Ancestors
        <5>2. y \in data /\ Clean(y)
          BY <1>3, <2>3, <2>4, <5>1 DEF Clean
        <5>3. y \notin linked
          BY <1>2, <1>4, <5>1
        <5>4. QED
          BY <1>4, <2>2, <5>2, <5>3
      <4>4. x \in N
        BY <3>1, <3>3, <4>2, <4>3 DEF N, NowLinked
      <4>5. QED
        BY <1>3, <4>4
    <3>4. QED
      BY <3>2, <3>3
  <2>5. ASSUME NEW x \in known', Clean(x), x \in data' \ linked' PROVE x \in unlinked'
    <3>1. CASE x = b
      <4>1. Parent[b] \notin linked
        BY <1>2, <1>3, <2>5, <3>1
      <4>2. Clean(Parent[b])
        BY <2>3, <2>5, <3>1 DEF Clean
      <4>3. Parent[b] \notin failed
        BY <2>2, <4>2
      <4>4. QED
        BY <1>3, <3>1, <4>1, <4>3 DEF UnlinkedAfter
    <3>2. CASE x # b
      <4>1. x \in known /\ x \in data \ linked /\ x \notin N
        BY <1>3, <2>5, <3>2
      <4>2. QED
        BY <1>5, <2>2, <2>5, <4>1
    <3>3. QED
      BY <3>1, <3>2
  <2>6. QED
    BY <2>2, <2>4, <2>5
<1>9. ActiveInv'
  <2>1. active' = active /\ failed' = failed
    BY <1>3 DEF active, failed
  <2>2. \A c \in candidates' : ~Less(seq', c, tip)
    BY <1>1, <1>2, <1>3, <1>4 DEF ActiveInv
  <2>3. QED
    BY <1>1, <1>3, <2>1, <2>2 DEF ActiveInv, Worse
<1>10. BestInv'
  <2>1. SUFFICES ASSUME ~reconsidered, ~raced
                 PROVE  \A x \in linked' : Clean(x) /\ ~Less(seq', x, tip) /\ x \notin candidates' =>
                           \E c \in candidates' : /\ Less(seq', x, c) /\ Clean(c)
                                                  /\ Anc[c] \cap BadConnects = {}
    <3>1. ~quiescent'
      BY <1>1, <1>3 DEF quiescent, TypeOK
    <3>2. QED
      BY <1>3, <3>1 DEF BestInv, Worse, Clean
  <2>2. SUFFICES ASSUME NEW x \in linked', Clean(x), ~Less(seq', x, tip), x \notin candidates'
                 PROVE  \E c \in candidates' : /\ Less(seq', x, c) /\ Clean(c)
                                               /\ Anc[c] \cap BadConnects = {}
    OBVIOUS
  <2>3. x \in linked /\ ~Worse(x, tip) /\ x \notin candidates
    BY <1>2, <1>3, <1>4, <2>2
  <2>4. PICK c \in candidates : Worse(x, c) /\ Clean(c) /\ Anc[c] \cap BadConnects = {}
    BY <1>1, <2>1, <2>2, <2>3 DEF BestInv
  <2>5. QED
    BY <1>2, <1>3, <1>4, <2>3, <2>4
<1>11. QED
  BY <1>6, <1>7, <1>8, <1>9, <1>10 DEF Inv

\* As long as reconsiderblock was not called, what is off the marks for good is
\* off all marks, and FindMostWorkChain leaves it alone.
LEMMA CleanFacts ==
    ASSUME Inv, ~reconsidered, NEW x \in linked, Clean(x), NEW t \in Threads
    PROVE  /\ Anc[x] \cap failed = {} /\ Usable(x)
           /\ x \in candidates => x \in CandidatesAfterFind(t)
<1>1. x \in Blocks
  BY DEF Inv, TypeInv, TypeOK
<1>2. \A f \in failed : ~Clean(f)
  BY DEF Inv, WaitInv
<1>3. \A f \in Anc[x] : Clean(f)
  BY <1>1, Ancestors DEF Clean
<1>4. Anc[x] \cap failed = {}
  BY <1>2, <1>3
<1>5. QED
  BY <1>4, AfterFind DEF Usable, Path, Inv

\* New marks have a cause as well.
LEMMA MarksFacts ==
    ASSUME Inv, NEW t \in Threads
    PROVE  /\ FailedChildAfterFind(t) \subseteq known
           /\ active \cap failed = {} => active \cap FailedChildAfterFind(t) = {}
           /\ ~reconsidered => \A a \in FailedChildAfterFind(t) : ~Clean(a)
<1>1. linked \subseteq known /\ linked \subseteq Blocks /\ failedChild \subseteq known
  BY DEF Inv, TypeInv, TypeOK
<1>2. ASSUME NEW a \in FailedChildAfterFind(t)
      PROVE  /\ a \in known
             /\ a \in failedChild \/ a \notin active
             /\ ~reconsidered => ~Clean(a)
  <2>1. CASE a \in failedChild
    BY <1>1, <2>1 DEF Inv, WaitInv, failed
  <2>2. CASE a \notin failedChild
    <3>1. a \in linked \ active
      BY <2>2, AfterFind DEF Inv
    <3>2. PICK f \in failed \ active : f \in Anc[a]
      BY <2>2, AfterFind DEF Inv
    <3>3. Anc[f] \subseteq Anc[a]
      BY <1>1, <3>1, <3>2, Ancestors
    <3>4. ~reconsidered => ~Clean(f)
      BY <3>2 DEF Inv, WaitInv
    <3>5. QED
      BY <1>1, <3>1, <3>3, <3>4 DEF Clean
  <2>3. QED
    BY <2>1, <2>2
<1>3. QED
  BY <1>2 DEF failed

\* A thread leaves ActivateBestChain.
LEMMA EndStep ==
    ASSUME Inv, NEW t \in Threads, ActivationDone(t) \/ ReorgTooLong(t)
    PROVE  Inv'
<1>1. TypeInv /\ LinkInv /\ WaitInv /\ ActiveInv /\ BestInv /\ TypeOK
  BY DEF Inv, TypeInv
<1>2. /\ pc[t] = "activate"
      /\ candidates' = CandidatesAfterFind(t) /\ failedChild' = FailedChildAfterFind(t)
      /\ pc' = [pc EXCEPT ![t] = "idle"] /\ mostWork' = [mostWork EXCEPT ![t] = NoBlock]
      /\ raced' = (raced \/ Stale(t))
      /\ known' = known /\ data' = data /\ linked' = linked /\ scripts' = scripts
      /\ failedValid' = failedValid /\ seq' = seq /\ nBlockSequenceId' = nBlockSequenceId
      /\ unlinked' = unlinked /\ tip' = tip /\ reconsidered' = reconsidered
      /\ (shutdown' = shutdown /\ Target(t) \in {NoBlock, tip}) \/ shutdown' = TRUE
  BY EndEffect
<1>3. /\ failedChild' \subseteq known /\ candidates' \subseteq candidates
      /\ active \cap failed = {} => active \cap failedChild' = {}
      /\ ~reconsidered => \A a \in failedChild' : ~Clean(a)
  BY <1>1, <1>2, MarksFacts, AfterFind
<1>4. TypeInv'
  BY <1>1, <1>2, <1>3 DEF TypeInv, TypeOK
<1>5. LinkInv'
  BY <1>1, <1>2 DEF LinkInv
<1>6. WaitInv'
  BY <1>1, <1>2, <1>3 DEF WaitInv, Clean, failed
<1>7. ActiveInv'
  BY <1>1, <1>2, <1>3 DEF ActiveInv, Worse, active, failed
<1>8. BestInv'
  <2>1. SUFFICES ASSUME ~reconsidered, ~raced, ~Stale(t)
                 PROVE  /\ \A x \in linked : Clean(x) /\ ~Worse(x, tip) /\ x \notin candidates' =>
                              \E c \in candidates' : /\ Worse(x, c) /\ Clean(c)
                                                     /\ Anc[c] \cap BadConnects = {}
                        /\ ~shutdown' => \A c \in candidates' : Clean(c) => ~Worse(tip, c)
    BY <1>2 DEF BestInv, Worse, Clean
  <2>2. \A x \in candidates : Clean(x) => x \in candidates' /\ Usable(x)
    <3>1. candidates \subseteq linked
      BY <1>1 DEF TypeOK
    <3>2. QED
      BY <1>2, <2>1, <3>1, CleanFacts
  <2>3. ASSUME NEW x \in linked, Clean(x), ~Worse(x, tip), x \notin candidates'
        PROVE  \E c \in candidates' : Worse(x, c) /\ Clean(c) /\ Anc[c] \cap BadConnects = {}
    BY <1>1, <2>1, <2>2, <2>3 DEF BestInv
  <2>4. ASSUME ~shutdown', NEW c \in candidates', Clean(c)
        PROVE  ~Worse(tip, c)
    <3>1. FindMostWorkChain \in {NoBlock, tip}
      BY <1>1, <1>2, <2>1, <2>4, TargetFacts
    <3>2. c \in candidates /\ Usable(c)
      BY <1>3, <2>2, <2>4
    <3>3. FindMostWorkChain # NoBlock
      BY <1>1, <3>2, MostWorkFacts
    <3>4. c = tip \/ Worse(c, tip)
      BY <1>1, <3>1, <3>2, <3>3, MostWorkFacts
    <3>5. c \in Blocks /\ tip \in Blocks
      BY <1>1, <3>2 DEF TypeOK
    <3>6. QED
      BY <1>1, <3>4, <3>5, WorseIsAnOrder
  <2>5. QED
    BY <2>3, <2>4
<1>9. QED
  BY <1>4, <1>5, <1>6, <1>7, <1>8 DEF Inv

\* A target that is not stale is the best usable candidate, and better than the
\* tip.
LEMMA GoodTarget ==
    ASSUME Inv, NEW t \in Threads, ~Stale(t), Target(t) \notin {NoBlock, tip}
    PROVE  /\ Target(t) \in candidates /\ Usable(Target(t)) /\ Worse(tip, Target(t))
           /\ Target(t) \notin active
           /\ \A c \in candidates : Usable(c) => c = Target(t) \/ Worse(c, Target(t))
<1>1. TypeInv /\ TypeOK
  BY DEF Inv, TypeInv
<1>2. Target(t) = FindMostWorkChain
  BY <1>1, TargetFacts
<1>3. /\ Target(t) \in candidates /\ Usable(Target(t))
      /\ \A c \in candidates : Usable(c) => c = Target(t) \/ Worse(c, Target(t))
  BY <1>1, <1>2, MostWorkFacts
<1>4. Target(t) \in Blocks /\ tip \in Blocks
  BY <1>1, <1>3 DEF TypeOK
<1>5. Worse(tip, Target(t)) /\ ~Worse(Target(t), tip)
  BY <1>1, <1>3, <1>4, WorseIsAnOrder DEF Inv, ActiveInv
<1>6. Target(t) \notin active
  BY <1>1, <1>4, <1>5, AncestorIsWorse DEF active
<1>7. QED
  BY <1>3, <1>5, <1>6

\* The failure marks set on the way to a usable target are not on its path.
LEMMA MarksOffPath ==
    ASSUME Inv, NEW t \in Threads, NEW b \in Blocks, Usable(b)
    PROVE  Path(b) \cap FailedChildAfterFind(t) = {}
<1>1. SUFFICES ASSUME NEW a \in Path(b), a \in FailedChildAfterFind(t) PROVE FALSE
  OBVIOUS
<1>2. a \notin failedChild
  BY <1>1 DEF Usable, failed
<1>3. PICK f \in failed \ active : f \in Anc[a]
  BY <1>1, <1>2, AfterFind DEF Inv
<1>4. Anc[a] \subseteq Anc[b]
  BY <1>1, Ancestors DEF Path
<1>5. f \in Path(b)
  BY <1>3, <1>4 DEF Path
<1>6. QED
  BY <1>3, <1>5 DEF Usable

\* One ActivateBestChainStep.
LEMMA ChainStep ==
    ASSUME Inv, NEW t \in Threads, ActivateBestChainStep(t)
    PROVE  Inv'
<1> DEFINE b == Target(t)
           bad == StopAt(b) \in BadConnects
<1>1. TypeInv /\ LinkInv /\ WaitInv /\ ActiveInv /\ BestInv /\ TypeOK /\ active \cap BadConnects = {}
  BY DEF Inv, TypeInv, ActiveInv
<1>2. /\ b \in linked /\ b \in Blocks /\ b # tip /\ pc[t] = "activate"
      /\ tip' = NewTip(b)
      /\ \A c : c \in candidates' <=> /\ c \in CandidatesAfterFind(t)
                                      /\ Connected(b) = {} \/ ~Worse(c, NewTip(b))
                                      /\ c = StopAt(b) => ~bad
      /\ failedValid' = IF bad THEN failedValid \cup {StopAt(b)} ELSE failedValid
      /\ failedChild' = FailedChildAfterFind(t)
      /\ scripts' = scripts \cup (Connected(b) \ (failedValid \cup failedChild'))
      /\ mostWork' = [mostWork EXCEPT ![t] = mostWork'[t]]
      /\ mostWork'[t] \in {b, NoBlock}
      /\ pc' = [pc EXCEPT ![t] = pc'[t]] /\ pc'[t] \in {"idle", "activate"}
      /\ pc'[t] = "idle" => mostWork'[t] = NoBlock /\ NewTip(b) = b
      /\ raced' = (raced \/ Stale(t))
      /\ known' = known /\ data' = data /\ linked' = linked /\ seq' = seq
      /\ nBlockSequenceId' = nBlockSequenceId /\ unlinked' = unlinked
      /\ shutdown' = shutdown /\ reconsidered' = reconsidered
  BY <1>1, StepEffect
<1>3. /\ NewTip(b) \in Anc[b] /\ NewTip(b) \in Blocks
      /\ Connected(b) \subseteq Path(b) /\ Connected(b) \subseteq Anc[NewTip(b)]
      /\ Anc[NewTip(b)] \subseteq active \cup Connected(b)
      /\ Anc[NewTip(b)] \cap BadConnects = {}
      /\ Connected(b) = {} => NewTip(b) \in active
      /\ bad => /\ StopAt(b) \in Path(b) /\ StopAt(b) \in Anc[b]
                /\ StopAt(b) \notin Anc[NewTip(b)]
      /\ ~bad => /\ NewTip(b) = b \/ Work[NewTip(b)] > Work[tip]
                 /\ Connected(b) = {} => NewTip(b) = b /\ b \in active
  BY <1>1, <1>2, NewTipFacts
<1>4. /\ failedChild' \subseteq known
      /\ active \cap failed = {} => active \cap failedChild' = {}
      /\ ~reconsidered => \A a \in failedChild' : ~Clean(a)
  BY <1>2, MarksFacts
<1>5. /\ tip \in Blocks /\ candidates' \subseteq candidates /\ candidates \subseteq linked
      /\ linked \subseteq known /\ linked \subseteq Blocks /\ Anc[b] \subseteq linked
  BY <1>1, <1>2, AfterFind DEF TypeOK, LinkInv
<1>6. bad => StopAt(b) \in linked /\ StopAt(b) \in Blocks /\ StopAt(b) \in BadConnects
  BY <1>3, <1>5
<1>7. ASSUME ~raced'
      PROVE  /\ ~raced /\ ~Stale(t) /\ b \in candidates /\ Usable(b) /\ Worse(tip, b)
             /\ b \notin active
             /\ \A c \in candidates : Usable(c) => c = b \/ Worse(c, b)
  <2>1. ~raced /\ ~Stale(t)
    BY <1>1, <1>2, <1>7 DEF TypeInv
  <2>2. Target(t) \notin {NoBlock, tip}
    BY <1>2, TreeShape
  <2>3. QED
    BY <2>1, <2>2, GoodTarget
<1> HIDE DEF b, bad
<1>8. TypeInv'
  <2>1. scripts' \subseteq linked
    <3>1. Anc[NewTip(b)] \subseteq linked
      BY <1>2, <1>3, <1>5 , Ancestors
    <3>2. QED
      BY <1>1, <1>2, <1>3, <3>1 DEF TypeOK
  <2>2. failedValid' \subseteq known
    BY <1>1, <1>2, <1>5, <1>6 DEF TypeOK
  <2>3. tip' \in linked
    BY <1>2, <1>3, <1>5
  <2>4. /\ pc' \in [Threads -> {"idle", "activate"}]
        /\ mostWork' \in [Threads -> Blocks \cup {NoBlock}]
        /\ \A u \in Threads : mostWork'[u] \in linked \cup {NoBlock}
        /\ \A u \in Threads : pc'[u] = "idle" => mostWork'[u] = NoBlock
    <3>1. /\ pc \in [Threads -> {"idle", "activate"}]
          /\ mostWork \in [Threads -> Blocks \cup {NoBlock}]
          /\ \A u \in Threads : mostWork[u] \in linked \cup {NoBlock}
          /\ \A u \in Threads : pc[u] = "idle" => mostWork[u] = NoBlock
      BY <1>1 DEF TypeInv, TypeOK
    <3>2. mostWork'[t] \in linked \cup {NoBlock} /\ mostWork'[t] \in Blocks \cup {NoBlock}
      BY <1>2
    <3>3. \A u \in Threads \ {t} : pc'[u] = pc[u] /\ mostWork'[u] = mostWork[u]
      BY <1>2, <3>1
    <3>4. /\ pc' \in [Threads -> {"idle", "activate"}]
          /\ mostWork' \in [Threads -> Blocks \cup {NoBlock}]
      BY <1>2, <3>1, <3>2
    <3>5. QED
      BY <1>2, <3>1, <3>2, <3>3, <3>4
  <2>5. raced' \in BOOLEAN
    BY <1>2
  <2>6. QED
    BY <1>1, <1>2, <1>4, <1>5, <2>1, <2>2, <2>3, <2>4, <2>5 DEF TypeInv, TypeOK
<1>9. LinkInv'
  BY <1>1, <1>2 DEF LinkInv
<1>10. failedValid \subseteq failedValid' /\ \A x : Clean(x)' => Clean(x)
  BY <1>2 DEF Clean
<1>11. WaitInv'
  <2>1. bad => StopAt(b) \in Anc[StopAt(b)]
    BY <1>6, TreeShape
  <2>2. ~reconsidered => \A x \in failed' : ~Clean(x)'
    BY <1>1, <1>2, <1>4, <1>10, <2>1 DEF WaitInv, Clean, failed
  <2>3. QED
    BY <1>1, <1>2, <1>10, <2>2 DEF WaitInv
<1>12. ASSUME NEW c \in candidates' PROVE ~Worse(c, NewTip(b))
  <2>1. CASE Connected(b) # {}
    BY <1>2, <1>12, <2>1
  <2>2. CASE Connected(b) = {}
    <3>1. NewTip(b) = tip \/ Worse(NewTip(b), tip)
      BY <1>1, <1>3, <1>5, <2>2, AncestorIsWorse DEF active
    <3>2. c \in Blocks /\ ~Worse(c, tip)
      BY <1>1, <1>5, <1>12 DEF ActiveInv
    <3>3. QED
      BY <1>1, <1>3, <1>5, <3>1, <3>2, WorseIsAnOrder
  <2>3. QED
    BY <2>1, <2>2
<1>13. ActiveInv'
  <2>1. active' = Anc[NewTip(b)] /\ \A x, y : Less(seq', x, y) <=> Worse(x, y)
    BY <1>2 DEF active, Worse
  <2>2. ASSUME ~raced'
        PROVE  active' \cap failed' = {} /\ active' \ {Genesis} \subseteq scripts'
    <3>1. Usable(b) /\ active \cap failed = {} /\ active \ {Genesis} \subseteq scripts
      BY <1>1, <1>7, <2>2 DEF ActiveInv
    <3>2. Path(b) \cap failed = {} /\ Path(b) \cap failedChild' = {}
      BY <1>2, <3>1, MarksOffPath DEF Usable
    <3>3. active' \cap failed = {} /\ active' \cap failedChild' = {}
      BY <1>3, <1>4, <2>1, <3>1, <3>2
    <3>4. active' \cap failedValid' = {}
      BY <1>2, <1>3, <2>1, <3>3 DEF failed
    <3>5. active' \ {Genesis} \subseteq scripts'
      BY <1>2, <1>3, <2>1, <3>1, <3>2, <3>3 DEF failed
    <3>6. QED
      BY <3>3, <3>4, <3>5 DEF failed
  <2>3. QED
    BY <1>2, <1>3, <1>12, <2>1, <2>2 DEF ActiveInv, Worse
<1>14. BestInv'
  <2>1. SUFFICES ASSUME ~reconsidered, ~raced'
                 PROVE  /\ \A x \in linked : Clean(x)' /\ ~Worse(x, NewTip(b)) /\ x \notin candidates' =>
                              \E c \in candidates' : /\ Worse(x, c) /\ Clean(c)'
                                                     /\ Anc[c] \cap BadConnects = {}
                        /\ quiescent' => \A c \in candidates' : Clean(c)' => ~Worse(NewTip(b), c)
    BY <1>2 DEF BestInv, Worse
  <2>2. /\ ~raced /\ ~Stale(t) /\ b \in candidates /\ Usable(b) /\ Worse(tip, b)
        /\ b \notin active
        /\ \A c \in candidates : Usable(c) => c = b \/ Worse(c, b)
    BY <1>7, <2>1
  <2>3. \A x \in candidates : Clean(x) => x \in CandidatesAfterFind(t) /\ Usable(x)
    BY <1>5, <2>1, CleanFacts
  <2>4. /\ \A x, y, z \in Blocks : Worse(x, y) /\ Worse(y, z) => Worse(x, z)
        /\ \A x, y \in Blocks : /\ ~Worse(x, x) /\ (Worse(x, y) => ~Worse(y, x))
                                /\ x # y => Worse(x, y) \/ Worse(y, x)
    BY <1>1, WorseIsAnOrder
  <2>5. \A c \in linked : Clean(c) /\ Anc[c] \cap BadConnects = {} =>
                              Clean(c)' /\ (c = StopAt(b) => ~bad)
    <3>1. \A c \in linked : c \in Anc[c]
      BY <1>5, TreeShape
    <3>2. QED
      BY <1>2, <1>6, <3>1 DEF Clean
  <2>6. ASSUME NEW x \in linked, Clean(x)', ~Worse(x, NewTip(b)), x \notin candidates'
        PROVE  \E c \in candidates' : Worse(x, c) /\ Clean(c)' /\ Anc[c] \cap BadConnects = {}
    <3>1. Clean(x) /\ x \in Blocks /\ (x = StopAt(b) => ~bad)
      <4>1. x \in Anc[x]
        BY <1>5, TreeShape
      <4>2. QED
        BY <1>2, <1>5, <1>10, <2>6, <4>1 DEF Clean
    <3>2. x \notin candidates
      BY <1>2, <2>3, <2>6, <3>1
    <3>3. SUFFICES \E c \in candidates : Worse(x, c) /\ Clean(c) /\ Anc[c] \cap BadConnects = {}
      <4>1. PICK c \in candidates : Worse(x, c) /\ Clean(c) /\ Anc[c] \cap BadConnects = {}
        BY <3>3
      <4>2. c \in Blocks /\ c \in linked
        BY <1>5
      <4>3. ~Worse(c, NewTip(b))
        BY <1>3, <2>4, <2>6, <3>1, <4>1, <4>2
      <4>4. c \in candidates'
        BY <1>2, <2>3, <2>5, <4>1, <4>2, <4>3
      <4>5. QED
        BY <2>5, <4>1, <4>2, <4>4
    <3>4. CASE ~Worse(x, tip)
      BY <1>1, <2>1, <2>2, <3>1, <3>2, <3>4 DEF BestInv
    <3>5. CASE Worse(x, tip)
      <4>1. tip \in linked /\ Clean(tip) /\ active \cap BadConnects = {}
        BY <1>1, <2>2 DEF TypeOK, ActiveInv, Clean, active, failed
      <4>2. CASE tip \in candidates
        BY <3>5, <4>1, <4>2 DEF active
      <4>3. CASE tip \notin candidates
        <5>1. PICK c \in candidates : Worse(tip, c) /\ Clean(c) /\ Anc[c] \cap BadConnects = {}
          BY <1>1, <1>5, <2>1, <2>2, <2>4, <4>1, <4>3 DEF BestInv
        <5>2. Worse(x, c)
          BY <1>5, <2>4, <3>1, <3>5, <5>1
        <5>3. QED
          BY <5>1, <5>2
      <4>4. QED
        BY <4>2, <4>3
    <3>6. QED
      BY <3>4, <3>5
  <2>7. ASSUME quiescent', NEW c \in candidates', Clean(c)' PROVE ~Worse(NewTip(b), c)
    <3>1. NewTip(b) = b
      BY <1>2, <2>7 DEF quiescent
    <3>2. c \in candidates /\ Usable(c) /\ c \in Blocks
      BY <1>5, <1>10, <2>3, <2>7
    <3>3. c = b \/ Worse(c, b)
      BY <2>2, <3>2
    <3>4. QED
      BY <1>2, <2>4, <3>1, <3>2, <3>3
  <2>8. QED
    BY <2>6, <2>7
<1>15. QED
  BY <1>8, <1>9, <1>11, <1>13, <1>14 DEF Inv

\* invalidateblock.
LEMMA Invalidate ==
    ASSUME Inv, NEW t \in Threads, NEW b \in Blocks, InvalidateBlock(t, b)
    PROVE  Inv'
<1> DEFINE new == IF b \in active THEN Parent[b] ELSE tip
           gone == {b} \cup Disconnected(b)
<1>1. TypeInv /\ LinkInv /\ WaitInv /\ ActiveInv /\ BestInv /\ TypeOK
  BY DEF Inv, TypeInv
<1>2. /\ pc[t] = "idle" /\ b \in known /\ b # Genesis /\ tip' = new
      /\ candidates' = (candidates \ gone)
             \cup {c \in (data \cap linked) \ (failed \cup gone) : ~Worse(c, new)}
      /\ failedValid' = failedValid \cup {b} /\ failedChild' = failedChild \cup Disconnected(b)
      /\ pc' = [pc EXCEPT ![t] = "activate"]
      /\ known' = known /\ data' = data /\ linked' = linked /\ scripts' = scripts /\ seq' = seq
      /\ nBlockSequenceId' = nBlockSequenceId /\ unlinked' = unlinked /\ mostWork' = mostWork
      /\ shutdown' = shutdown /\ reconsidered' = reconsidered /\ raced' = raced
  BY DEF InvalidateBlock, CandidatesAfterInvalidate
<1>3. /\ tip \in linked /\ tip \in Blocks /\ linked \subseteq known /\ linked \subseteq data
      /\ linked \subseteq Blocks /\ candidates \subseteq linked
      /\ active \subseteq linked
  BY <1>1 DEF TypeOK, LinkInv, active
<1>4. \A c \in gone : b \in Anc[c] /\ (c = b \/ c \in active)
  BY TreeShape DEF Disconnected
<1>5. /\ new \in active /\ new \in linked /\ new \in Blocks /\ Anc[new] \subseteq active
      /\ Anc[new] \cap gone = {}
  <2>1. CASE b \in active
    <3>1. new = Parent[b] /\ Parent[b] \in Anc[b] /\ Parent[b] \in Blocks /\ b \notin Anc[Parent[b]]
      <4>1. new = Parent[b]
        BY <2>1
      <4>2. b \in Blocks \ {Genesis}
        BY <1>2
      <4>3. /\ Parent[b] \in Blocks /\ Anc[b] = {b} \cup Anc[Parent[b]]
            /\ b \notin Anc[Parent[b]]
        BY <4>2, TreeShape
      <4>4. Parent[b] \in Anc[Parent[b]]
        BY <4>3, TreeShape
      <4> HIDE DEF new, gone
      <4>5. QED
        BY <4>1, <4>3, <4>4
    <3>2. Anc[b] \subseteq active
      BY <1>3, <2>1, Ancestors DEF active
    <3>3. \A x \in Anc[new] : Anc[x] \subseteq Anc[new]
      BY <3>1, Ancestors
    <3>4. Anc[new] \subseteq Anc[b]
      BY <3>1, Ancestors
    <3> HIDE DEF new, gone
    <3>5. QED
      BY <1>3, <1>4, <3>1, <3>2, <3>3, <3>4
  <2>2. CASE b \notin active
    <3>1. new = tip /\ gone = {b}
      BY <2>2 DEF Disconnected
    <3>2. Anc[tip] \subseteq Blocks /\ tip \in Anc[tip]
      BY <1>3, TreeShape
    <3> HIDE DEF new, gone
    <3>3. QED
      BY <1>3, <2>2, <3>1, <3>2 DEF active
  <2>3. QED
    BY <2>1, <2>2
<1> HIDE DEF new, gone
<1>6. TypeInv'
  <2>1. /\ pc' \in [Threads -> {"idle", "activate"}]
        /\ \A u \in Threads : pc'[u] = "idle" => pc[u] = "idle"
    BY <1>1, <1>2 DEF TypeOK
  <2>2. candidates' \subseteq linked
    BY <1>2, <1>3
  <2>3. failedValid' \subseteq known /\ failedChild' \subseteq known
    BY <1>1, <1>2, <1>3 DEF TypeOK, Disconnected
  <2>4. QED
    BY <1>1, <1>2, <1>5, <2>1, <2>2, <2>3 DEF TypeInv, TypeOK
<1>7. LinkInv'
  BY <1>1, <1>2 DEF LinkInv
<1>8. \A x : Clean(x)' => Clean(x) /\ b \notin Anc[x]
  BY <1>2 DEF Clean
<1>9. WaitInv'
  <2>1. \A x \in failed' : x \in failed \/ x \in gone
    BY <1>2 DEF failed, gone
  <2>2. QED
    BY <1>1, <1>2, <1>4, <1>8, <2>1 DEF WaitInv
<1>10. ActiveInv'
  <2>1. active' = Anc[new] /\ \A x, y : Less(seq', x, y) <=> Worse(x, y)
    BY <1>2 DEF active, Worse
  <2>2. \A c \in candidates' : ~Worse(c, new)
    <3>1. new = tip \/ Worse(new, tip)
      BY <1>1, <1>3, <1>5, AncestorIsWorse DEF active
    <3>2. \A c \in candidates : ~Worse(c, new)
      BY <1>1, <1>3, <1>5, <3>1, WorseIsAnOrder DEF ActiveInv
    <3>3. QED
      BY <1>2, <3>2
  <2>3. failed' \subseteq failed \cup gone
    BY <1>2 DEF failed, gone
  <2>4. QED
    BY <1>1, <1>2, <1>5, <2>1, <2>2, <2>3 DEF ActiveInv, Worse
<1>11. BestInv'
  <2>1. SUFFICES ASSUME ~reconsidered, NEW x \in linked, Clean(x)', ~Worse(x, new)
                 PROVE  x \in candidates'
    <3>1. ~quiescent'
      BY <1>1, <1>2 DEF quiescent, TypeOK
    <3>2. QED
      BY <1>2, <3>1 DEF BestInv, Worse
  <2>2. x \notin gone
    BY <1>4, <1>8, <2>1
  <2>3. x \notin failed
    BY <1>1, <1>8, <2>1 DEF WaitInv
  <2>4. QED
    BY <1>2, <1>3, <2>1, <2>2, <2>3
<1>12. QED
  BY <1>6, <1>7, <1>9, <1>10, <1>11 DEF Inv

\* reconsiderblock.
LEMMA Reconsider ==
    ASSUME Inv, NEW t \in Threads, NEW b \in Blocks, ReconsiderBlock(t, b)
    PROVE  Inv'
<1>1. TypeInv /\ LinkInv /\ ActiveInv /\ TypeOK
  BY DEF Inv, TypeInv
<1>2. /\ candidates \subseteq candidates'
      /\ \A c \in candidates' : c \in candidates \/ (c \in linked /\ Worse(tip, c))
      /\ failedValid' \subseteq failedValid /\ failedChild' \subseteq failedChild
      /\ reconsidered' = TRUE /\ pc' = [pc EXCEPT ![t] = "activate"]
      /\ known' = known /\ data' = data /\ linked' = linked /\ scripts' = scripts /\ seq' = seq
      /\ nBlockSequenceId' = nBlockSequenceId /\ unlinked' = unlinked /\ tip' = tip
      /\ mostWork' = mostWork /\ shutdown' = shutdown /\ raced' = raced
  BY DEF ReconsiderBlock
<1>3. TypeInv'
  <2>1. /\ pc' \in [Threads -> {"idle", "activate"}]
        /\ \A u \in Threads : pc'[u] = "idle" => pc[u] = "idle"
    BY <1>1, <1>2 DEF TypeOK
  <2>2. QED
    BY <1>1, <1>2, <2>1 DEF TypeInv, TypeOK
<1>4. LinkInv'
  BY <1>1, <1>2 DEF LinkInv
<1>5. WaitInv' /\ BestInv'
  BY <1>2 DEF WaitInv, BestInv
<1>6. ActiveInv'
  <2>1. active' = active /\ failed' \subseteq failed /\ \A x, y : Less(seq', x, y) <=> Worse(x, y)
    BY <1>2 DEF active, failed, Worse
  <2>2. tip \in Blocks /\ linked \subseteq Blocks
    BY <1>1 DEF TypeOK
  <2>3. \A c \in candidates' : ~Worse(c, tip)
    BY <1>1, <1>2, <2>2, WorseIsAnOrder DEF ActiveInv
  <2>4. QED
    BY <1>1, <1>2, <2>1, <2>3 DEF ActiveInv, Worse
<1>7. QED
  BY <1>3, <1>4, <1>5, <1>6 DEF Inv

\* Every step keeps the invariant.
LEMMA NextInv ==
    ASSUME Inv, [Next]_vars
    PROVE  Inv'
<1>1. CASE Next
  BY <1>1, IndexOnly, NewBlock, EndStep, ChainStep, Invalidate, Reconsider DEF Next
<1>2. CASE UNCHANGED vars
  BY <1>2 DEF vars, Inv, TypeInv, TypeOK, LinkInv, WaitInv, ActiveInv, BestInv, Clean, Worse,
              active, failed, quiescent
<1>3. QED
  BY <1>1, <1>2

\* The invariant is inductive: it holds in every state the node can reach.
THEOREM Invariant == Spec => []Inv
<1>1. Init => Inv
  BY InitInv
<1>2. Inv /\ [Next]_vars => Inv'
  BY NextInv
<1>3. QED
  BY <1>1, <1>2, PTL DEF Spec

-----------------------------------------------------------------------------
(* The properties. *)

\* ReceivedBlockTransactions links exactly the blocks it should, in whatever
\* order the blocks of a branch arrive.
THEOREM LinkingCorrect == Spec => []LinkingIsExact
<1>1. Inv => LinkingIsExact
  <2>1. SUFFICES ASSUME Inv PROVE LinkingIsExact
    OBVIOUS
  <2>2. linked \subseteq data /\ known \subseteq Blocks
    BY <2>1 DEF Inv, TypeInv, TypeOK
  <2>3. QED
    BY <2>1, <2>2 DEF Inv, LinkInv, WaitInv, Clean, LinkingIsExact
<1>2. QED
  BY <1>1, Invariant, PTL

\* FindMostWorkChain and invalidateblock mark only blocks above one that was
\* found, or declared, invalid.
THEOREM MarksHaveACause == Spec => []FailureHasACause
<1>1. Inv => FailureHasACause
  BY DEF Inv, WaitInv, Clean, FailureHasACause
<1>2. QED
  BY <1>1, Invariant, PTL

\* The chain that ActivateBestChain built has no failed block in it.
THEOREM ActiveChainIsValid == Spec => []ActiveChainValid
<1>1. Inv => ActiveChainValid
  <2>1. SUFFICES ASSUME Inv PROVE ActiveChainValid
    OBVIOUS
  <2>2. active \subseteq data /\ data \cap BadBlocks = {}
    BY <2>1 DEF Inv, TypeInv, TypeOK, LinkInv, active
  <2>3. QED
    BY <2>1, <2>2 DEF Inv, ActiveInv, ActiveChainValid
<1>2. QED
  BY <1>1, Invariant, PTL

\* When all threads have left ActivateBestChain nothing valid is better than the
\* active chain.
THEOREM ActivatesBestChain == Spec => []BestChainActive
<1>1. Inv => BestChainActive
  <2>1. SUFFICES ASSUME Inv, ~shutdown, quiescent, ~reconsidered, ~raced,
                        NEW b \in linked, Worse(tip, b), Anc[b] \cap failed = {}
                 PROVE  FALSE
    BY DEF BestChainActive
  <2>2. TypeOK /\ b \in Blocks /\ tip \in Blocks /\ candidates \subseteq Blocks /\ Clean(b)
    BY <2>1 DEF Inv, TypeInv, TypeOK, Clean, failed
  <2>3. ~Worse(b, tip) /\ b \notin candidates
    BY <2>1, <2>2, WorseIsAnOrder DEF Inv, BestInv
  <2>4. PICK c \in candidates : Worse(b, c) /\ Clean(c)
    BY <2>1, <2>2, <2>3 DEF Inv, BestInv
  <2>5. Worse(tip, c)
    BY <2>1, <2>2, <2>4, WorseIsAnOrder
  <2>6. QED
    BY <2>1, <2>4, <2>5 DEF Inv, BestInv
<1>2. QED
  BY <1>1, Invariant, PTL

\* setBlockIndexCandidates holds what it must, and nothing worse than the tip.
THEOREM CandidatesAreComplete == Spec => []CandidatesComplete
<1>1. Inv => CandidatesComplete
  <2>1. ASSUME Inv PROVE TypeOK /\ \A c \in candidates : ~Worse(c, tip)
    BY <2>1 DEF Inv, TypeInv, ActiveInv
  <2>2. ASSUME Inv, ~shutdown, quiescent, ~reconsidered, ~raced,
               NEW b \in linked, ~Worse(b, tip), Clean(b), b \notin candidates
        PROVE  FALSE
    <3>1. TypeOK /\ b \in Blocks /\ tip \in Blocks /\ candidates \subseteq Blocks
      BY <2>2 DEF Inv, TypeInv, TypeOK
    <3>2. PICK c \in candidates : Worse(b, c) /\ Clean(c)
      BY <2>2 DEF Inv, BestInv
    <3>3. Worse(tip, c)
      BY <2>2, <3>1, <3>2, WorseIsAnOrder
    <3>4. QED
      BY <2>2, <3>2, <3>3 DEF Inv, BestInv
  <2>3. QED
    BY <2>1, <2>2 DEF CandidatesComplete, Clean
<1>2. QED
  BY <1>1, Invariant, PTL

\* The tip loses work only in a step that marks a block as invalid.
THEOREM WorkIsKept == Spec => WorkIsLostOnlyToInvalidity
<1> DEFINE Step == Work[tip'] < Work[tip] /\ ~raced' => failedValid' # failedValid
<1>1. ASSUME Inv, [Next]_vars PROVE Step \/ UNCHANGED vars
  <2>1. SUFFICES ASSUME Next, Work[tip'] < Work[tip], ~raced'
                 PROVE  failedValid' # failedValid
    BY <1>1
  <2>2. tip \in Blocks /\ Work[tip] \in Nat /\ TypeOK /\ ActiveInv
    BY <1>1, TreeShape DEF Inv, TypeInv, TypeOK
  <2>3. tip' # tip
    BY <2>1, <2>2
  <2>4. CASE \E t \in Threads : ActivateBestChainStep(t)
    <3>1. PICK t \in Threads : ActivateBestChainStep(t)
      BY <2>4
    <3> DEFINE b == Target(t)
    <3>2. /\ b \in Blocks /\ b # tip /\ tip' = NewTip(b) /\ raced' = (raced \/ Stale(t))
          /\ failedValid' = IF StopAt(b) \in BadConnects
                            THEN failedValid \cup {StopAt(b)} ELSE failedValid
      BY <1>1, <3>1, StepEffect DEF Inv
    <3>3. ~raced /\ ~Stale(t)
      BY <1>1, <2>1, <3>2 DEF Inv, TypeInv
    <3>4. Usable(b) /\ Worse(tip, b)
      BY <1>1, <3>2, <3>3, GoodTarget, TreeShape
    <3>5. Work[tip] <= Work[b] /\ Work[b] \in Nat
      BY <2>2, <3>2, <3>4, WorseIsAnOrder, TreeShape
    <3> HIDE DEF b
    <3>6. /\ NewTip(b) \in Blocks
          /\ StopAt(b) \in BadConnects => StopAt(b) \in Path(b)
          /\ StopAt(b) \notin BadConnects => NewTip(b) = b \/ Work[NewTip(b)] > Work[tip]
      BY <2>2, <3>2, NewTipFacts DEF ActiveInv
    <3>7. Work[NewTip(b)] \in Nat
      BY <3>6, TreeShape
    <3>8. StopAt(b) \in BadConnects
      BY <2>1, <2>2, <3>2, <3>5, <3>6, <3>7
    <3>9. StopAt(b) \notin failedValid
      BY <3>4, <3>6, <3>8 DEF Usable, failed
    <3>10. QED
      BY <3>2, <3>8, <3>9
  <2>5. CASE \E t \in Threads, b \in Blocks : InvalidateBlock(t, b)
    <3>1. PICK t \in Threads, b \in Blocks : InvalidateBlock(t, b)
      BY <2>5
    <3>2. b \in active /\ failedValid' = failedValid \cup {b} /\ raced' = raced
      BY <2>3, <3>1 DEF InvalidateBlock
    <3>3. b \notin failedValid
      BY <2>1, <2>2, <3>2 DEF ActiveInv, failed
    <3>4. QED
      BY <3>2, <3>3
  <2>6. QED
    BY <2>1, <2>3, <2>4, <2>5
       DEF Next, AcceptBlockHeader, ProcessUnwantedBlock, ProcessBadBlock, ProcessNewBlock,
           ActivationDone, ReorgTooLong, ReconsiderBlock
<1>2. QED
  BY <1>1, Invariant, PTL DEF Spec, WorkIsLostOnlyToInvalidity
=============================================================================
