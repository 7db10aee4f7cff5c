-------------------------- MODULE RecordDagProofs --------------------------
(***************************************************************************)
(* Lemmas about the ancestors of a record and what it rests on.            *)
(***************************************************************************)
EXTENDS RecordDag, FiniteSetTheorems, WellFoundedInduction, TLAPS

\* Packets hold names of records.
LEMMA PointersAreRecords ==
  ASSUME NEW r \in Record
  PROVE  PointersFromHeader(r) \in SUBSET Record
  BY DataAssumption DEF PointersFromHeader, Packet

LEMMA NamedAreRecords ==
  ASSUME NEW r \in Record
  PROVE  Named(r) \in SUBSET Record
  BY DataAssumption DEF Named, PointersFromHeader, PrevCertificates, Packet

(***************************************************************************)
(* The recursive definitions of RecordDag collect, from a record, what     *)
(* base has at the records found by following next.  Such a definition has *)
(* a solution: the union of base over the least set of records with r and  *)
(* closed under next.                                                      *)
(***************************************************************************)
Collects(f, base, next) ==
  f = [r \in Record |-> base[r] \cup UNION {f[p] : p \in next[r]}]

LEMMA CollectionExists ==
  ASSUME NEW base, NEW next \in [Record -> SUBSET Record]
  PROVE  \E f : Collects(f, base, next)
<1> DEFINE ClosedFrom(r, S) == r \in S /\ \A y \in S : next[y] \subseteq S
           Reach(r) == {x \in Record : \A S \in SUBSET Record : ClosedFrom(r, S) => x \in S}
           L == [r \in Record |-> UNION {base[x] : x \in Reach(r)}]
<1>1. ASSUME NEW r \in Record PROVE r \in Reach(r)
  OBVIOUS
<1>2. ASSUME NEW r \in Record, NEW p \in next[r] PROVE p \in Record /\ Reach(p) \subseteq Reach(r)
  <2>1. p \in Record
    OBVIOUS
  <2> SUFFICES ASSUME NEW x \in Reach(p), NEW S \in SUBSET Record, ClosedFrom(r, S)
               PROVE  x \in S
    BY <2>1
  <2>2. ClosedFrom(p, S)
    OBVIOUS
  <2> QED BY <2>2
<1>3. ASSUME NEW q \in Record, NEW y \in Reach(q) PROVE next[y] \subseteq Reach(q)
  <2> SUFFICES ASSUME NEW z \in next[y], NEW S \in SUBSET Record, ClosedFrom(q, S)
               PROVE  z \in Record /\ z \in S
    OBVIOUS
  <2>1. y \in S
    BY <1>3
  <2> QED BY <2>1
<1>4. ASSUME NEW r \in Record
      PROVE  Reach(r) = {r} \cup UNION {Reach(p) : p \in next[r]}
  <2> DEFINE R == {r} \cup UNION {Reach(p) : p \in next[r]}
  <2>1. R \subseteq Reach(r)
    <3>1. \A p \in next[r] : Reach(p) \subseteq Reach(r)
      BY <1>2
    <3> HIDE DEF Reach
    <3> QED BY <1>1, <3>1
  <2>2. R \subseteq Record
    OBVIOUS
  <2>3. ClosedFrom(r, R)
    <3> SUFFICES ASSUME NEW y \in R PROVE next[y] \subseteq R
      OBVIOUS
    <3>1. CASE y = r
      <4>1. \A p \in next[r] : p \in Reach(p)
        BY <1>1
      <4> HIDE DEF Reach
      <4> QED BY <3>1, <4>1
    <3>2. ASSUME NEW p \in next[r], y \in Reach(p) PROVE next[y] \subseteq R
      <4>1. next[y] \subseteq Reach(p)
        BY <1>2, <1>3, <3>2
      <4> HIDE DEF Reach
      <4> QED BY <4>1
    <3> HIDE DEF Reach
    <3> QED BY <3>1, <3>2
  <2>4. Reach(r) \subseteq R
    <3>1. \A x \in Reach(r) : \A S \in SUBSET Record : ClosedFrom(r, S) => x \in S
      OBVIOUS
    <3> HIDE DEF Reach, R, ClosedFrom
    <3> QED BY <2>2, <2>3, <3>1
  <2> HIDE DEF R
  <2>5. Reach(r) = R
    BY <2>1, <2>4
  <2> QED BY <2>5 DEF R
<1> HIDE DEF Reach
<1>5. ASSUME NEW r \in Record
      PROVE  L[r] = base[r] \cup UNION {L[p] : p \in next[r]}
  <2>1. \A p \in next[r] : p \in Record
    OBVIOUS
  <2>2. \A x : x \in L[r] <=> \E y \in Reach(r) : x \in base[y]
    OBVIOUS
  <2>3. \A p \in next[r] : \A x : x \in L[p] <=> \E y \in Reach(p) : x \in base[y]
    BY <2>1
  <2> HIDE DEF L
  <2>4. ASSUME NEW x
        PROVE  x \in L[r] <=> x \in base[r] \/ \E p \in next[r] : x \in L[p]
    BY <1>4, <2>2, <2>3
  <2> QED BY <2>4
<1>6. L = [r \in Record |-> base[r] \cup UNION {L[p] : p \in next[r]}]
  BY <1>5
<1> QED BY <1>6 DEF Collects

\* So AncestorsOf, RestsOn and ChainOf solve their equations.
LEMMA AncestorsEquation ==
  AncestorsOf = [r \in Record |->
    PointersFromHeader(r) \cup UNION {AncestorsOf[p] : p \in PointersFromHeader(r)}]
<1> DEFINE pointers == [r \in Record |-> PointersFromHeader(r)]
           Solves(f) ==
             f = [r \in Record |->
                    PointersFromHeader(r) \cup UNION {f[p] : p \in PointersFromHeader(r)}]
<1>1. pointers \in [Record -> SUBSET Record]
  BY PointersAreRecords
<1>2. \E f : Collects(f, pointers, pointers)
  <2> HIDE DEF pointers
  <2> QED BY <1>1, CollectionExists
<1>3. \E f : Solves(f)
  BY <1>2 DEF Collects
<1>4. AncestorsOf = CHOOSE f : Solves(f)
  BY DEF AncestorsOf
<1> HIDE DEF Solves
<1>5. Solves(AncestorsOf)
  BY <1>3, <1>4
<1> QED BY <1>5 DEF Solves

LEMMA RestsOnEquation ==
  RestsOn = [r \in Record |-> {r} \cup UNION {RestsOn[p] : p \in Named(r)}]
<1> DEFINE named == [r \in Record |-> Named(r)]
           itself == [r \in Record |-> {r}]
           Solves(f) == f = [r \in Record |-> {r} \cup UNION {f[p] : p \in Named(r)}]
<1>1. named \in [Record -> SUBSET Record]
  BY NamedAreRecords
<1>2. \E f : Collects(f, itself, named)
  <2> HIDE DEF named, itself
  <2> QED BY <1>1, CollectionExists
<1>3. \E f : Solves(f)
  BY <1>2 DEF Collects
<1>4. RestsOn = CHOOSE f : Solves(f)
  BY DEF RestsOn
<1> HIDE DEF Solves
<1>5. Solves(RestsOn)
  BY <1>3, <1>4
<1> QED BY <1>5 DEF Solves

LEMMA ChainEquation ==
  ChainOf = [r \in Record |-> {r} \cup UNION {ChainOf[c] : c \in PrevCertificates(r)}]
<1> DEFINE previous == [r \in Record |-> PrevCertificates(r)]
           itself == [r \in Record |-> {r}]
           Solves(f) == f = [r \in Record |-> {r} \cup UNION {f[c] : c \in PrevCertificates(r)}]
<1>1. previous \in [Record -> SUBSET Record]
  BY NamedAreRecords DEF Named
<1>2. \E f : Collects(f, itself, previous)
  <2> HIDE DEF previous, itself
  <2> QED BY <1>1, CollectionExists
<1>3. \E f : Solves(f)
  BY <1>2 DEF Collects
<1>4. ChainOf = CHOOSE f : Solves(f)
  BY DEF ChainOf
<1> HIDE DEF Solves
<1>5. Solves(ChainOf)
  BY <1>3, <1>4
<1> QED BY <1>5 DEF Solves

LEMMA AncestorsUnfold ==
  ASSUME NEW r \in Record
  PROVE  AncestorsOf[r] = PointersFromHeader(r)
                            \cup UNION {AncestorsOf[p] : p \in PointersFromHeader(r)}
  BY AncestorsEquation

\* The pointers of an ancestor lead to ancestors.  In a minimal record for
\* which this failed, the ancestor would be a pointer or an ancestor of one.
LEMMA AncestorsClosed ==
  ASSUME NEW r \in Record, NEW x \in AncestorsOf[r]
  PROVE  PointersFromHeader(x) \subseteq AncestorsOf[r]
<1> DEFINE bad == {q \in Record : \E y \in AncestorsOf[q] :
                                     ~ (PointersFromHeader(y) \subseteq AncestorsOf[q])}
<1>1. SUFFICES bad = {}
  OBVIOUS
<1>2. SUFFICES ASSUME bad # {} PROVE FALSE
  OBVIOUS
<1>3. PICK q \in bad : Named(q) \cap bad = {}
  BY <1>2, HashDagAssumption
<1>4. PICK y \in AncestorsOf[q] : ~ (PointersFromHeader(y) \subseteq AncestorsOf[q])
  BY <1>3
<1>5. /\ q \in Record
      /\ PointersFromHeader(q) \subseteq Record
      /\ \A p \in PointersFromHeader(q) : p \notin bad
  BY <1>3, PointersAreRecords DEF Named
<1>6. \A p \in PointersFromHeader(q) : AncestorsOf[p] \subseteq AncestorsOf[q]
  BY <1>5, AncestorsUnfold
<1>7. CASE y \in PointersFromHeader(q)
  <2>1. PointersFromHeader(y) \subseteq AncestorsOf[y]
    BY <1>5, <1>7, AncestorsUnfold
  <2> QED BY <1>4, <1>6, <1>7, <2>1
<1>8. ASSUME NEW p \in PointersFromHeader(q), y \in AncestorsOf[p] PROVE FALSE
  <2>1. PointersFromHeader(y) \subseteq AncestorsOf[p]
    BY <1>5, <1>8
  <2> QED BY <1>4, <1>6, <2>1
<1> QED BY <1>4, <1>5, <1>7, <1>8, AncestorsUnfold

\* A set closed under pointers holds the ancestors of its records.
LEMMA AncestorsWithin ==
  ASSUME NEW S \in SUBSET Record, \A y \in S : PointersFromHeader(y) \subseteq S,
         NEW r \in S
  PROVE  AncestorsOf[r] \subseteq S
<1> DEFINE bad == {q \in S : ~ (AncestorsOf[q] \subseteq S)}
<1>1. SUFFICES ASSUME bad # {} PROVE FALSE
  OBVIOUS
<1>2. PICK q \in bad : Named(q) \cap bad = {}
  BY <1>1, HashDagAssumption
<1>3. /\ q \in Record
      /\ \A p \in PointersFromHeader(q) : p \in S /\ p \notin bad
  BY <1>2 DEF Named
<1>4. \A p \in PointersFromHeader(q) : p \in S /\ AncestorsOf[p] \subseteq S
  BY <1>3
<1>5. AncestorsOf[q] \subseteq S
  BY <1>3, <1>4, AncestorsUnfold
<1> QED BY <1>2, <1>5

\* No record is its own ancestor: the DAG has no cycle, because a packet
\* contains the digests of the packets it points to.
THEOREM NoCycles == \A r \in Record : r \notin AncestorsOf[r]
<1> DEFINE bad == {r \in Record : r \in AncestorsOf[r]}
<1>1. SUFFICES ASSUME bad # {} PROVE FALSE
  OBVIOUS
<1>2. PICK r \in bad : Named(r) \cap bad = {}
  BY <1>1, HashDagAssumption
<1>3. r \in Record /\ r \in AncestorsOf[r] /\ PointersFromHeader(r) \subseteq Record
  BY <1>2, PointersAreRecords
<1>4. PICK p \in PointersFromHeader(r) : r = p \/ r \in AncestorsOf[p]
  BY <1>3, AncestorsUnfold
<1>5. p \in AncestorsOf[p]
  <2>1. CASE r = p
    BY <1>3, <2>1
  <2>2. CASE r \in AncestorsOf[p]
    BY <1>3, <1>4, <2>2, AncestorsClosed
  <2> QED BY <1>4, <2>1, <2>2
<1> QED BY <1>2, <1>3, <1>4, <1>5 DEF Named

-----------------------------------------------------------------------------
(***************************************************************************)
(* What a record rests on, through its pointers and its certificate chain. *)
(***************************************************************************)
LEMMA RestsOnUnfold ==
  ASSUME NEW r \in Record
  PROVE  RestsOn[r] = {r} \cup UNION {RestsOn[p] : p \in Named(r)}
  BY RestsOnEquation

LEMMA RestsOnRecords ==
  ASSUME NEW r \in Record
  PROVE  RestsOn[r] \in SUBSET Record
<1> DEFINE bad == {q \in Record : ~ (RestsOn[q] \subseteq Record)}
<1>1. SUFFICES ASSUME bad # {} PROVE FALSE
  OBVIOUS
<1>2. PICK q \in bad : Named(q) \cap bad = {}
  BY <1>1, HashDagAssumption
<1>3. \A p \in Named(q) : RestsOn[p] \subseteq Record
  BY <1>2, NamedAreRecords
<1> QED BY <1>2, <1>3, RestsOnUnfold

\* What a record rests on rests on nothing else.
LEMMA RestsOnTransitive ==
  ASSUME NEW r \in Record, NEW x \in RestsOn[r]
  PROVE  RestsOn[x] \subseteq RestsOn[r]
<1> DEFINE bad == {q \in Record : \E y \in RestsOn[q] : ~ (RestsOn[y] \subseteq RestsOn[q])}
<1>1. SUFFICES bad = {}
  OBVIOUS
<1>2. SUFFICES ASSUME bad # {} PROVE FALSE
  OBVIOUS
<1>3. PICK q \in bad : Named(q) \cap bad = {}
  BY <1>2, HashDagAssumption
<1>4. PICK y \in RestsOn[q] : ~ (RestsOn[y] \subseteq RestsOn[q])
  BY <1>3
<1>5. \A p \in Named(q) : p \notin bad /\ p \in Record /\ RestsOn[p] \subseteq RestsOn[q]
  BY <1>3, NamedAreRecords, RestsOnUnfold
<1>6. ASSUME NEW p \in Named(q), y \in RestsOn[p] PROVE FALSE
  <2>1. RestsOn[y] \subseteq RestsOn[p]
    BY <1>5, <1>6
  <2> QED BY <1>4, <1>5, <2>1
<1>7. y # q
  BY <1>4
<1> HIDE DEF bad
<1>8. q \in Record
  BY <1>3 DEF bad
<1> QED BY <1>4, <1>6, <1>7, <1>8, RestsOnUnfold

\* A packet names only older ones, so of two records at most one rests on the
\* other.
LEMMA RestsOnOlder ==
  ASSUME NEW r \in Record, NEW x \in RestsOn[r], x # r
  PROVE  r \notin RestsOn[x]
<1> DEFINE bad == {q \in Record : \E p \in Named(q) : q \in RestsOn[p]}
<1>1. bad = {}
  <2>1. SUFFICES ASSUME bad # {} PROVE FALSE
    OBVIOUS
  <2>2. PICK q \in bad : Named(q) \cap bad = {}
    BY <2>1, HashDagAssumption
  <2>3. PICK p \in Named(q) : q \in RestsOn[p]
    BY <2>2
  <2>4. p \in Record /\ p # q
    BY <2>2, NamedAreRecords
  <2>5. PICK o \in Named(p) : q \in RestsOn[o]
    BY <2>3, <2>4, RestsOnUnfold
  <2>6. o \in Record
    BY <2>4, NamedAreRecords
  <2>7. p \in RestsOn[p]
    BY <2>4, RestsOnUnfold
  <2>8. q \in Record
    BY <2>2
  <2>9. RestsOn[p] \subseteq RestsOn[q]
    BY <2>3, <2>8, RestsOnUnfold
  <2>10. p \in RestsOn[o]
    BY <2>5, <2>6, <2>7, <2>9, RestsOnTransitive
  <2> QED BY <2>2, <2>3, <2>4, <2>10
<1>2. PICK p \in Named(r) : x \in RestsOn[p]
  BY RestsOnUnfold
<1>3. p \in Record
  BY NamedAreRecords
<1>4. RestsOn[x] \subseteq RestsOn[p]
  BY <1>2, <1>3, RestsOnTransitive
<1> QED BY <1>1, <1>2, <1>4

\* Ancestors and chains are part of what a record rests on.
LEMMA AncestorsRestOn ==
  ASSUME NEW r \in Record
  PROVE  AncestorsOf[r] \subseteq RestsOn[r]
<1>1. ASSUME NEW y \in RestsOn[r] PROVE PointersFromHeader(y) \subseteq RestsOn[r]
  <2>1. y \in Record
    BY RestsOnRecords
  <2>2. RestsOn[y] \subseteq RestsOn[r]
    BY RestsOnTransitive
  <2>3. \A p \in Named(y) : p \in Record /\ p \in RestsOn[p] /\ RestsOn[p] \subseteq RestsOn[y]
    BY <2>1, NamedAreRecords, RestsOnUnfold
  <2> QED BY <2>2, <2>3 DEF Named
<1>2. RestsOn[r] \in SUBSET Record /\ r \in RestsOn[r]
  BY RestsOnRecords, RestsOnUnfold
<1> QED BY <1>1, <1>2, AncestorsWithin

LEMMA ChainUnfold ==
  ASSUME NEW r \in Record
  PROVE  ChainOf[r] = {r} \cup UNION {ChainOf[c] : c \in PrevCertificates(r)}
  BY ChainEquation

LEMMA ChainRestsOn ==
  ASSUME NEW r \in Record
  PROVE  ChainOf[r] \subseteq RestsOn[r]
<1> DEFINE bad == {q \in Record : ~ (ChainOf[q] \subseteq RestsOn[q])}
<1>1. SUFFICES ASSUME bad # {} PROVE FALSE
  OBVIOUS
<1>2. PICK q \in bad : Named(q) \cap bad = {}
  BY <1>1, HashDagAssumption
<1>3. q \in Record
  BY <1>2
<1>4. \A c \in PrevCertificates(q) : c \in Named(q) /\ ChainOf[c] \subseteq RestsOn[c]
  BY <1>2, <1>3, NamedAreRecords DEF Named
<1>5. ChainOf[q] \subseteq RestsOn[q]
  BY <1>3, <1>4, ChainUnfold, RestsOnUnfold
<1> QED BY <1>2, <1>5

\* In every nonempty set of records there is one on which no other rests.
LEMMA NewestRecord ==
  ASSUME NEW S \in SUBSET Record, S # {}
  PROVE  \E m \in S : \A s \in S : m \in RestsOn[s] => s = m
<1> DEFINE Rest(r) == Record \ RestsOn[r]
           T == {Rest(r) : r \in S}
<1>1. T \subseteq FiniteSubsetsOf(Record)
  <2>1. FiniteSubsetsOf(Record) = SUBSET Record
    BY DataAssumption, FS_FiniteSubsetsOfFinite
  <2> QED BY <2>1
<1>2. T # {}
  OBVIOUS
<1> HIDE DEF T
<1>3. PICK low \in T : \A y \in T : ~ (<<y, low>> \in StrictSubsetOrdering(Record))
  BY <1>1, <1>2, FS_StrictSubsetOrderingWellFounded, WFMin
<1>4. PICK m \in S : low = Rest(m)
  BY <1>3 DEF T
<1>5. ASSUME NEW s \in S, m \in RestsOn[s], s # m PROVE FALSE
  <2>1. RestsOn[m] \subseteq RestsOn[s] /\ s \notin RestsOn[m]
    BY <1>5, RestsOnTransitive, RestsOnOlder
  <2>2. s \in RestsOn[s]
    BY RestsOnUnfold
  <2>3. Rest(s) \subseteq Rest(m) /\ Rest(s) # Rest(m)
    BY <2>1, <2>2
  <2>4. <<Rest(s), Rest(m)>> \in StrictSubsetOrdering(Record)
    <3>1. Rest(s) \in SUBSET Record /\ Rest(m) \in SUBSET Record
      OBVIOUS
    <3> HIDE DEF Rest
    <3> QED BY <2>3, <3>1 DEF StrictSubsetOrdering
  <2>5. Rest(s) \in T
    BY DEF T
  <2> QED BY <1>3, <1>4, <2>4, <2>5
<1> QED BY <1>5

-----------------------------------------------------------------------------
(***************************************************************************)
(* Iterations.  A loop of the code is a function from the number of its    *)
(* rounds; that the equation of such a function has a solution, and what   *)
(* holds of all its rounds, is shown by induction on the number.           *)
(***************************************************************************)
\* A set of numbers with 0 and the successors of its members.
LEMMA NatSetInduction ==
  ASSUME NEW G \in SUBSET Nat, 0 \in G, \A n \in G : n + 1 \in G
  PROVE  G = Nat
<1> DEFINE bad == Nat \ G
           less == {ss \in Nat \X Nat : ss[1] < ss[2]}
<1>0. IsWellFoundedOn(less, Nat)
  BY NatLessThanWellFounded DEF OpToRel
<1>1. SUFFICES ASSUME bad # {} PROVE FALSE
  OBVIOUS
<1>2. PICK m \in bad : \A y \in bad : ~ (<<y, m>> \in less)
  <2>1. bad \subseteq Nat
    OBVIOUS
  <2> HIDE DEF bad, less
  <2> QED BY <1>0, <1>1, <2>1, WFMin
<1>3. m \in Nat /\ m # 0 /\ m - 1 \in Nat
  BY <1>2
<1>4. m - 1 \in G
  <2>1. <<m - 1, m>> \in less
    BY <1>3
  <2> QED BY <1>2, <1>3, <2>1
<1>5. (m - 1) + 1 = m
  BY <1>3
<1> QED BY <1>2, <1>4, <1>5

\* Iterating a function from a member of its domain.
Iterates(f, start, step) ==
  f = [n \in Nat |-> IF n = 0 THEN start ELSE step[f[n - 1]]]

LEMMA IterationExists ==
  ASSUME NEW S, NEW start \in S, NEW step \in [S -> S]
  PROVE  \E f \in [Nat -> S] : Iterates(f, start, step)
<1> DEFINE Begins(g, n) == /\ g[0] = start
                           /\ \A i \in 0 .. n : g[i] \in S
                           /\ \A i \in 0 .. n : i # n => g[i + 1] = step[g[i]]
           G == {n \in Nat : \E g : Begins(g, n)}
           Agree == {n \in Nat : \A g, h : Begins(g, n) /\ Begins(h, n) => g[n] = h[n]}
<1>1. G = Nat
  <2>1. 0 \in G
    <3>1. Begins([i \in Nat |-> start], 0)
      OBVIOUS
    <3> QED BY <3>1
  <2>2. ASSUME NEW n \in G PROVE n + 1 \in G
    <3>1. PICK g : Begins(g, n)
      OBVIOUS
    <3> DEFINE h == [i \in Nat |-> IF i = n + 1 THEN step[g[n]] ELSE g[i]]
    <3>2. n \in Nat /\ g[n] \in S /\ step[g[n]] \in S
      BY <3>1
    <3>3. h[0] = start
      BY <3>1, <3>2
    <3>4. \A i \in 0 .. n + 1 : h[i] \in S
      BY <3>1, <3>2
    <3>5. \A i \in 0 .. n + 1 : i # n + 1 => h[i + 1] = step[h[i]]
      BY <3>1, <3>2
    <3>6. Begins(h, n + 1)
      BY <3>3, <3>4, <3>5
    <3> HIDE DEF Begins, h
    <3>7. \E k : Begins(k, n + 1)
      BY <3>6
    <3> QED BY <3>2, <3>7
  <2> HIDE DEF G
  <2>3. G \in SUBSET Nat
    BY DEF G
  <2> QED BY <2>1, <2>2, <2>3, NatSetInduction
<1>2. ASSUME NEW n \in Nat, NEW g, Begins(g, n + 1) PROVE Begins(g, n)
  BY <1>2
<1>3. Agree = Nat
  <2>1. 0 \in Agree
    OBVIOUS
  <2>2. ASSUME NEW n \in Agree PROVE n + 1 \in Agree
    <3> SUFFICES ASSUME NEW g, NEW h, Begins(g, n + 1), Begins(h, n + 1)
                 PROVE  g[n + 1] = h[n + 1]
      OBVIOUS
    <3>1. Begins(g, n) /\ Begins(h, n)
      BY <1>2
    <3>2. g[n] = h[n]
      <4> HIDE DEF Begins
      <4> QED BY <3>1
    <3>3. n \in 0 .. n + 1 /\ n # n + 1
      OBVIOUS
    <3> QED BY <3>2, <3>3
  <2> HIDE DEF Agree
  <2>3. Agree \in SUBSET Nat
    BY DEF Agree
  <2> QED BY <2>1, <2>2, <2>3, NatSetInduction
<1> DEFINE a == [n \in Nat |-> CHOOSE g : Begins(g, n)]
           f == [n \in Nat |-> a[n][n]]
<1>4. \A n \in Nat : Begins(a[n], n)
  <2> HIDE DEF Begins
  <2> QED BY <1>1
<1>5. f \in [Nat -> S]
  <2> HIDE DEF a
  <2> QED BY <1>4
<1>6. f[0] = start
  <2> HIDE DEF a
  <2> QED BY <1>4
<1>7. ASSUME NEW n \in Nat \ {0} PROVE f[n] = step[f[n - 1]]
  <2> HIDE DEF a
  <2>1. n - 1 \in Nat /\ (n - 1) + 1 = n
    OBVIOUS
  <2>2. Begins(a[n], n) /\ Begins(a[n - 1], n - 1)
    BY <1>4, <2>1
  <2>3. Begins(a[n], n - 1)
    <3> HIDE DEF Begins
    <3> QED BY <1>2, <2>1, <2>2
  <2>4. a[n][n - 1] = a[n - 1][n - 1]
    <3> HIDE DEF Begins
    <3> QED BY <1>3, <2>1, <2>2, <2>3
  <2>5. a[n][n] = step[a[n][n - 1]]
    BY <2>1, <2>2
  <2> QED BY <2>1, <2>4, <2>5
<1> HIDE DEF f
<1>8. f = [n \in Nat |-> IF n = 0 THEN start ELSE step[f[n - 1]]]
  BY <1>5, <1>6, <1>7
<1> QED BY <1>5, <1>8 DEF Iterates
=============================================================================
