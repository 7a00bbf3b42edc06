-------------------------- MODULE KolibriNodeProofs --------------------------
(***************************************************************************)
(* Proofs about the pool of formulas, for every number of formulas, length  *)
(* of gene, score, seed and limit on examples and associations; and about   *)
(* the interactive node, for every pool, set of inputs and genes of         *)
(* neighbours.  Of the pool the node's proof uses what is proved of each of *)
(* its steps; the node's invariant is not the pool's alone, for a gene that *)
(* comes in is put behind formulas it may be better than.  And about the    *)
(* exchange of genes, for any number of processes.                         *)
(***************************************************************************)
EXTENDS KolibriNode, GeneExchange, Extremes, FiniteSetTheorems, FunctionTheorems, SequenceTheorems

Places == 1..Count
Pool == [Places -> Formula]

\* The fitness of formulas is never negative, and no formula has more associations
\* than fit.
Sound(s) == \A i \in Places : s[i].fitness >= 0 /\ Len(s[i].assocs) <= FormulaLimit

-----------------------------------------------------------------------------
(* Places and their order *)

\* The formulas that survive a generation are some of the pool's.
LEMMA EliteInPool == Count \in Nat /\ Elite \in Nat /\ 1 <= Elite /\ Elite <= Count
  <1>1. Count \in Nat /\ Count >= 1
    BY PoolAssumption
  <1>2. Count \div 3 \in Nat /\ Count \div 3 <= Count
    BY <1>1
  <1> QED BY <1>1, <1>2 DEF Elite

\* A pool read as a sequence.
LEMMA PoolIsSequence ==
    ASSUME NEW s \in Pool
    PROVE  s \in Seq(Formula) /\ Len(s) = Count /\ DOMAIN s = Places
  BY EliteInPool DEF Pool, Places

\* Ranked says of neighbours what it says of any two.
LEMMA RankedSpelled ==
    ASSUME NEW s \in Pool
    PROVE  Ranked(s) <=> \A i \in Places : i < Count => s[i].fitness >= s[i + 1].fitness
  <1>1. Len(s) = Count /\ Count \in Nat
    BY PoolIsSequence, EliteInPool
  <1>2. \A i \in Int : i \in 1..Len(s) - 1 <=> i \in Places /\ i < Count
    BY <1>1 DEF Places
  <1> QED BY <1>2 DEF Ranked, Places

\* The first of ranked formulas is as fit as any.
LEMMA RankedFirst ==
    ASSUME NEW s \in Pool, Ranked(s)
    PROVE  \A i \in Places : s[1].fitness >= s[i].fitness
  <1> DEFINE Worse == {i \in Places : ~(s[1].fitness >= s[i].fitness)}
  <1>1. Count \in Nat /\ 1 \in Places
    BY EliteInPool DEF Places
  <1>2. \A i \in Places : s[i].fitness \in Int
    BY DEF Pool, Formula
  <1>3. ASSUME Worse # {} PROVE FALSE
    <2>1. Worse \in SUBSET Nat
      BY DEF Places
    <2>2. PICK m \in Worse : \A i \in Worse : m <= i
      BY <1>3, <2>1, LeastExists
    <2>3. m \in Places /\ m # 1
      BY <1>1, <1>2, <2>2
    <2>4. m - 1 \in Places /\ m - 1 < Count /\ m - 1 < m /\ (m - 1) + 1 = m
      BY <1>1, <2>3 DEF Places
    <2>5. s[1].fitness >= s[m - 1].fitness
      BY <2>1, <2>2, <2>4
    <2>6. s[m - 1].fitness >= s[m].fitness
      BY <2>4, RankedSpelled
    <2>7. s[1].fitness >= s[m].fitness
      BY <1>1, <1>2, <2>3, <2>4, <2>5, <2>6
    <2> QED BY <2>2, <2>7
  <1> QED BY <1>3

\* Sorting keeps the entries, all of them.
LEMMA SortedEntries ==
    ASSUME NEW s \in Pool, NEW t \in Sorted(s)
    PROVE  /\ t \in Pool
           /\ Ranked(t)
           /\ \A i \in Places : \E j \in Places : t[i] = s[j]
           /\ \A j \in Places : \E i \in Places : t[i] = s[j]
  <1>1. DOMAIN s = Places /\ Range(s) = {s[j] : j \in Places}
    BY DEF Pool, Range
  <1>2. t \in [Places -> Range(s)] /\ Ranked(t) /\ Rearranges(t, s)
    BY <1>1 DEF Sorted
  <1>3. t \in Pool /\ \A i \in Places : \E j \in Places : t[i] = s[j]
    BY <1>1, <1>2 DEF Pool
  <1>4. ASSUME NEW j \in Places PROVE \E i \in Places : t[i] = s[j]
    <2> DEFINE inT == {i \in Places : t[i] = s[j]}
               inS == {i \in Places : s[i] = s[j]}
    <2>1. Cardinality(inT) = Cardinality(inS)
      BY <1>1, <1>2 DEF Rearranges
    <2>2. IsFiniteSet(inS)
      <3>1. IsFiniteSet(Places)
        BY EliteInPool, FS_Interval DEF Places
      <3> QED BY <3>1, FS_Subset
    <2>3. j \in inS
      OBVIOUS
    <2>4. Cardinality(inS) # 0
      BY <2>2, <2>3, FS_EmptySet
    <2>5. inT # {}
      BY <2>1, <2>4, FS_EmptySet
    <2> QED BY <2>5
  <1> QED BY <1>2, <1>3, <1>4

-----------------------------------------------------------------------------
(* A generation *)

\* Evaluating the formulas changes their fitness alone.
LEMMA ScoredEntries ==
    ASSUME TypeOK
    PROVE  /\ Scored \in Pool /\ Sound(Scored)
           /\ \A i \in Places :
                /\ Scored[i].gene = formulas[i].gene
                /\ Scored[i].feedback = formulas[i].feedback
                /\ Scored[i].fitness = Evaluated(formulas[i])
                /\ Scored[i].fitness \in 0..Scale
                /\ Evaluated(Scored[i]) = Scored[i].fitness
  <1>1. ASSUME NEW f \in Formula PROVE Evaluated(f) \in 0..Scale
    <2>1. f.gene \in Genes /\ f.feedback \in Int /\ Scale \in Nat
      BY PoolAssumption DEF Formula
    <2>2. Score[examples] \in [Genes -> 0..Scale]
      BY PoolAssumption DEF TypeOK
    <2>3. Score[examples][f.gene] \in 0..Scale
      BY <2>1, <2>2
    <2> HIDE DEF Formula
    <2> QED BY <2>1, <2>3 DEF Evaluated, Clamp
  <1>2. ASSUME NEW i \in Places
        PROVE  /\ Scored[i] \in Formula
               /\ Scored[i].gene = formulas[i].gene
               /\ Scored[i].feedback = formulas[i].feedback
               /\ Scored[i].assocs = formulas[i].assocs
               /\ Scored[i].fitness = Evaluated(formulas[i])
    <2>1. formulas[i] \in Formula
      BY DEF TypeOK, Places
    <2>2. Evaluated(formulas[i]) \in Int
      BY <1>1, <2>1, PoolAssumption
    <2>3. Scored[i] = [formulas[i] EXCEPT !.fitness = Evaluated(formulas[i])]
      BY DEF Scored, Places
    <2> QED BY <2>1, <2>2, <2>3 DEF Formula
  <1>3. Scored \in Pool
    <2>1. Scored = [i \in Places |-> Scored[i]]
      BY DEF Scored, Places
    <2> QED BY <1>2, <2>1 DEF Pool
  <1>4. \A i \in Places : formulas[i] \in Formula /\ Len(formulas[i].assocs) <= FormulaLimit
    BY DEF TypeOK, Places
  <1>5. \A i \in Places : Evaluated(formulas[i]) \in 0..Scale /\ Evaluated(formulas[i]) >= 0
    BY <1>1, <1>4
  <1>6. \A i \in Places : Evaluated(Scored[i]) = Evaluated(formulas[i])
    BY <1>2 DEF Evaluated
  <1>7. Sound(Scored)
    BY <1>2, <1>4, <1>5 DEF Sound
  <1> QED BY <1>2, <1>3, <1>5, <1>6, <1>7

\* The elite stays, and children without a past stand behind it.
LEMMA BredEntries ==
    ASSUME NEW s \in Pool, NEW t \in Bred(SubSeq(s, 1, Elite))
    PROVE  /\ t \in Pool
           /\ \A i \in Places :
                \/ i <= Elite /\ t[i] = s[i]
                \/ i > Elite /\ t[i].fitness = 0 /\ t[i].assocs = <<>>
  <1> DEFINE elite == SubSeq(s, 1, Elite)
  <1>0. Count \in Nat /\ Elite \in Nat /\ 1 <= Elite /\ Elite <= Count
    BY EliteInPool
  <1>1. \A i \in 1..Elite : elite[i] = s[i]
    <2>1. \A i \in 1..Elite : s[i] \in Formula
      BY <1>0 DEF Pool, Places
    <2>2. \A i \in 1..Elite - 1 + 1 : elite[i] = s[1 + i - 1]
      BY <1>0, <2>1, SubSeqProperties
    <2> QED BY <1>0, <2>2
  <1>2. PICK c \in [Elite + 1..Count -> Genes] :
            t = [i \in 1..Count |-> IF i <= Elite THEN elite[i] ELSE NewFormula(c[i])]
    BY DEF Bred
  <1> HIDE DEF elite
  <1>3. ASSUME NEW i \in Places
        PROVE  /\ t[i] \in Formula
               /\ \/ i <= Elite /\ t[i] = s[i]
                  \/ i > Elite /\ t[i].fitness = 0 /\ t[i].assocs = <<>>
    <2>1. i \in Nat /\ 1 <= i /\ i <= Count
      BY <1>0 DEF Places
    <2>2. CASE i <= Elite
      <3>1. i \in 1..Elite /\ s[i] \in Formula
        BY <1>0, <2>1, <2>2 DEF Pool, Places
      <3> QED BY <1>1, <1>2, <2>1, <2>2, <3>1
    <2>3. CASE ~(i <= Elite)
      <3>1. i \in Elite + 1..Count /\ i > Elite
        BY <1>0, <2>1, <2>3
      <3>2. t[i] = NewFormula(c[i]) /\ c[i] \in Genes
        BY <1>2, <2>1, <2>3, <3>1
      <3>3. 0 \in -Scale..Scale /\ 0 \in Int
        BY PoolAssumption
      <3>4. NewFormula(c[i]) \in Formula
        BY <3>2, <3>3 DEF NewFormula, Formula
      <3> QED BY <3>1, <3>2, <3>4 DEF NewFormula
    <2> QED BY <2>2, <2>3
  <1>4. t \in Pool
    BY <1>2, <1>3 DEF Pool, Places
  <1> QED BY <1>3, <1>4

\* A generation leaves ranked formulas, none above 1.0, and the fittest in front.
LEMMA GenerationStep ==
    ASSUME TypeOK, Generation
    PROVE  /\ formulas' \in Pool /\ Sound(formulas') /\ Ranked(formulas')
           /\ \A i \in Places : formulas'[i].fitness <= Scale
           /\ \A i \in Places : Evaluated(formulas'[1]) >= Evaluated(formulas[i])
  <1>0. /\ Count \in Nat /\ Elite \in Nat /\ 1 <= Elite /\ Elite <= Count
        /\ 1 \in Places /\ Scale \in Nat /\ FormulaLimit \in Nat
    BY EliteInPool, PoolAssumption DEF Places
  <1>1. PICK s \in Sorted(Scored) : formulas' \in Bred(SubSeq(s, 1, Elite))
    BY DEF Generation
  <1>2. /\ s \in Pool /\ Ranked(s)
        /\ \A i \in Places : \E j \in Places : s[i] = Scored[j]
        /\ \A j \in Places : \E i \in Places : s[i] = Scored[j]
    BY <1>1, ScoredEntries, SortedEntries
  <1>3. /\ formulas' \in Pool
        /\ \A i \in Places :
             \/ i <= Elite /\ formulas'[i] = s[i]
             \/ i > Elite /\ formulas'[i].fitness = 0 /\ formulas'[i].assocs = <<>>
    BY <1>1, <1>2, BredEntries
  <1>4. \A i \in Places : /\ s[i].fitness \in 0..Scale
                          /\ Len(s[i].assocs) <= FormulaLimit
                          /\ Evaluated(s[i]) = s[i].fitness
    <2>1. /\ \A j \in Places : /\ Scored[j].fitness \in 0..Scale
                               /\ Evaluated(Scored[j]) = Scored[j].fitness
          /\ Sound(Scored)
      BY ScoredEntries
    <2> TAKE i \in Places
    <2>2. PICK j \in Places : s[i] = Scored[j]
      BY <1>2
    <2>3. Len(Scored[j].assocs) <= FormulaLimit
      BY <2>1 DEF Sound
    <2> QED BY <2>1, <2>2, <2>3
  <1>5. \A i \in Places : /\ formulas'[i].fitness \in 0..Scale
                          /\ Len(formulas'[i].assocs) <= FormulaLimit
    <2>1. Len(<<>>) <= FormulaLimit /\ 0 \in 0..Scale
      BY <1>0
    <2> QED BY <1>3, <1>4, <2>1
  <1>6. Ranked(formulas')
    <2> SUFFICES ASSUME NEW i \in Places, i < Count
                 PROVE  formulas'[i].fitness >= formulas'[i + 1].fitness
      BY <1>3, RankedSpelled
    <2>1. i \in Nat /\ i + 1 \in Places
      BY <1>0 DEF Places
    <2>2. CASE i + 1 <= Elite
      <3>1. formulas'[i] = s[i] /\ formulas'[i + 1] = s[i + 1]
        BY <1>0, <1>3, <2>1, <2>2
      <3> QED BY <1>2, <3>1, RankedSpelled
    <2>3. CASE ~(i + 1 <= Elite)
      <3>1. formulas'[i + 1].fitness = 0
        BY <1>0, <1>3, <2>1, <2>3
      <3> QED BY <1>0, <1>5, <3>1
    <2> QED BY <2>2, <2>3
  <1>7. ASSUME NEW i \in Places PROVE Evaluated(formulas'[1]) >= Evaluated(formulas[i])
    <2>1. PICK k \in Places : s[k] = Scored[i]
      BY <1>2
    <2>2. s[1].fitness >= s[k].fitness
      BY <1>2, RankedFirst
    <2>3. Scored[i].fitness = Evaluated(formulas[i])
      BY ScoredEntries
    <2>4. formulas'[1] = s[1]
      BY <1>0, <1>3
    <2> QED BY <1>0, <1>4, <2>1, <2>2, <2>3, <2>4
  <1>8. \A i \in Places : formulas'[i].fitness >= 0 /\ formulas'[i].fitness <= Scale
    BY <1>0, <1>5
  <1> QED BY <1>3, <1>5, <1>6, <1>7, <1>8 DEF Sound

-----------------------------------------------------------------------------
(* The end of a tick *)

\* The dataset of a formula is within the limit of its associations.
LEMMA DatasetFits ==
    ASSUME TypeOK
    PROVE  Dataset \in Seq(Association) /\ Len(Dataset) <= FormulaLimit
  <1> DEFINE n == Min({FormulaLimit, Len(associations)})
  <1>1. FormulaLimit \in Nat /\ Len(associations) \in Nat /\ associations \in Seq(Association)
    BY PoolAssumption DEF TypeOK
  <1>2. n \in {FormulaLimit, Len(associations)} /\ n <= FormulaLimit /\ n <= Len(associations)
    <2>1. {FormulaLimit, Len(associations)} \in SUBSET Nat
      BY <1>1
    <2> QED BY <2>1, MinIsLeast
  <1>3. n \in Nat
    BY <1>1, <1>2
  <1>4. Dataset = SubSeq(associations, 1, n)
    BY DEF Dataset
  <1> HIDE DEF n
  <1>5. \A i \in 1..n : associations[i] \in Association
    BY <1>1, <1>2, <1>3
  <1>6. /\ SubSeq(associations, 1, n) \in Seq(Association)
        /\ Len(SubSeq(associations, 1, n)) = IF 1 <= n THEN n - 1 + 1 ELSE 0
    BY <1>3, <1>5, SubSeqProperties
  <1> QED BY <1>1, <1>2, <1>3, <1>4, <1>6

\* A tick with associations ranks the formulas anew; nothing but the knowledge of
\* the first ones has changed.
LEMMA EndTickStep ==
    ASSUME TypeOK, EndTick, associations # <<>>
    PROVE  /\ formulas' \in Pool /\ Sound(formulas') /\ Ranked(formulas')
           /\ \A i \in Places : \E j \in Places :
                /\ formulas'[j].gene = formulas[i].gene
                /\ formulas'[j].feedback = formulas[i].feedback
           /\ \A i \in Places : formulas'[i].fitness = Scale
                                  \/ \E j \in Places : formulas'[i].fitness = formulas[j].fitness
           /\ \E i \in Places : formulas'[i].assocs = Dataset /\ formulas'[i].fitness = Scale
  <1>0. Scale \in Nat /\ 1 \in Places /\ 1 <= AssocTop
    BY EliteInPool, PoolAssumption DEF Places
  <1>1. ASSUME NEW i \in Places
        PROVE  /\ WithDataset[i] \in Formula
               /\ WithDataset[i].gene = formulas[i].gene
               /\ WithDataset[i].feedback = formulas[i].feedback
               /\ WithDataset[i].fitness >= 0 /\ Len(WithDataset[i].assocs) <= FormulaLimit
               /\ WithDataset[i].fitness \in {Scale, formulas[i].fitness}
               /\ i <= AssocTop => WithDataset[i].fitness = Scale /\ WithDataset[i].assocs = Dataset
    <2>1. /\ formulas[i] \in Formula
          /\ formulas[i].fitness >= 0 /\ Len(formulas[i].assocs) <= FormulaLimit
      BY DEF TypeOK, Places
    <2>2. CASE i <= AssocTop
      <3>1. WithDataset[i] = [formulas[i] EXCEPT !.assocs = Dataset, !.fitness = Scale]
        BY <2>2 DEF WithDataset, Places
      <3>2. Scale \in Int /\ Scale >= 0
        BY <1>0
      <3> QED BY <2>1, <3>1, <3>2, DatasetFits DEF Formula
    <2>3. CASE ~(i <= AssocTop)
      <3>1. WithDataset[i] = formulas[i]
        BY <2>3 DEF WithDataset, Places
      <3> QED BY <2>1, <2>3, <3>1
    <2> QED BY <2>2, <2>3
  <1>2. WithDataset \in Pool
    <2>1. WithDataset = [i \in Places |-> WithDataset[i]]
      BY DEF WithDataset, Places
    <2> QED BY <1>1, <2>1 DEF Pool
  <1>3. formulas' \in Sorted(WithDataset)
    BY DEF EndTick
  <1>4. /\ formulas' \in Pool /\ Ranked(formulas')
        /\ \A i \in Places : \E j \in Places : formulas'[i] = WithDataset[j]
        /\ \A j \in Places : \E i \in Places : formulas'[i] = WithDataset[j]
    BY <1>2, <1>3, SortedEntries
  <1>5. Sound(formulas')
    BY <1>1, <1>4 DEF Sound
  <1>6. \A i \in Places : \E j \in Places :
             formulas'[j].gene = formulas[i].gene /\ formulas'[j].feedback = formulas[i].feedback
    <2> TAKE i \in Places
    <2>1. PICK j \in Places : formulas'[j] = WithDataset[i]
      BY <1>4
    <2>2. formulas'[j].gene = formulas[i].gene /\ formulas'[j].feedback = formulas[i].feedback
      BY <1>1, <2>1
    <2> QED BY <2>2
  <1>7. \A i \in Places : formulas'[i].fitness = Scale
                            \/ \E j \in Places : formulas'[i].fitness = formulas[j].fitness
    <2> TAKE i \in Places
    <2>1. PICK j \in Places : formulas'[i] = WithDataset[j]
      BY <1>4
    <2>2. formulas'[i].fitness \in {Scale, formulas[j].fitness}
      BY <1>1, <2>1
    <2> QED BY <2>2
  <1>8. \E i \in Places : formulas'[i].assocs = Dataset /\ formulas'[i].fitness = Scale
    <2>1. PICK i \in Places : formulas'[i] = WithDataset[1]
      BY <1>0, <1>4
    <2> QED BY <1>0, <1>1, <2>1
  <1> QED BY <1>4, <1>5, <1>6, <1>7, <1>8

-----------------------------------------------------------------------------
(* Feedback *)

\* A sequence without its entry i, ...
LEMMA WithoutEntry ==
    ASSUME NEW S, NEW s \in Seq(S), NEW i \in 1..Len(s)
    PROVE  /\ RemoveAt(s, i) \in Seq(S)
           /\ Len(RemoveAt(s, i)) = Len(s) - 1
           /\ \A k \in 1..Len(s) - 1 : RemoveAt(s, i)[k] = IF k < i THEN s[k] ELSE s[k + 1]
  <1> DEFINE n == Len(s)
             a == SubSeq(s, 1, i - 1)
             b == SubSeq(s, i + 1, n)
  <1>1. n \in Nat /\ i \in Nat /\ 1 <= i /\ i <= n
    OBVIOUS
  <1>2. /\ a \in Seq(S) /\ Len(a) = i - 1
        /\ \A k \in 1..i - 1 : a[k] = s[k]
    <2>1. \A k \in 1..i - 1 : s[k] \in S
      BY <1>1
    <2>2. /\ a \in Seq(S) /\ Len(a) = IF 1 <= i - 1 THEN i - 1 - 1 + 1 ELSE 0
          /\ \A k \in 1..i - 1 - 1 + 1 : a[k] = s[1 + k - 1]
      BY <1>1, <2>1, SubSeqProperties
    <2> QED BY <1>1, <2>2
  <1>3. /\ b \in Seq(S) /\ Len(b) = n - i
        /\ \A k \in 1..n - i : b[k] = s[i + k]
    <2>1. \A k \in i + 1..n : s[k] \in S
      BY <1>1
    <2>2. /\ b \in Seq(S) /\ Len(b) = IF i + 1 <= n THEN n - (i + 1) + 1 ELSE 0
          /\ \A k \in 1..n - (i + 1) + 1 : b[k] = s[i + 1 + k - 1]
      BY <1>1, <2>1, SubSeqProperties
    <2>3. Len(b) = n - i
      BY <1>1, <2>2
    <2>4. \A k \in 1..n - i : k \in 1..n - (i + 1) + 1 /\ i + 1 + k - 1 = i + k
      BY <1>1
    <2> QED BY <2>2, <2>3, <2>4
  <1>4. RemoveAt(s, i) = a \o b
    BY DEF RemoveAt
  <1> HIDE DEF a, b, n
  <1>5. /\ a \o b \in Seq(S) /\ Len(a \o b) = Len(a) + Len(b)
        /\ \A k \in 1..Len(a) + Len(b) : (a \o b)[k] = IF k <= Len(a) THEN a[k] ELSE b[k - Len(a)]
    BY <1>2, <1>3, ConcatProperties
  <1>6. Len(a) + Len(b) = n - 1
    BY <1>1, <1>2, <1>3
  <1>7. ASSUME NEW k \in 1..n - 1 PROVE (a \o b)[k] = IF k < i THEN s[k] ELSE s[k + 1]
    <2>1. (a \o b)[k] = IF k <= i - 1 THEN a[k] ELSE b[k - (i - 1)]
      BY <1>2, <1>5, <1>6
    <2>2. CASE k < i
      <3>1. k <= i - 1 /\ k \in 1..i - 1
        BY <1>1, <2>2
      <3> QED BY <1>2, <2>1, <2>2, <3>1
    <2>3. CASE ~(k < i)
      <3>1. ~(k <= i - 1) /\ k - (i - 1) \in 1..n - i /\ i + (k - (i - 1)) = k + 1
        BY <1>1, <2>3
      <3> QED BY <1>3, <2>1, <2>3, <3>1
    <2> QED BY <2>2, <2>3
  <1> QED BY <1>4, <1>5, <1>6, <1>7 DEF n

\* ... and with an entry e put in before place j.
LEMMA WithEntry ==
    ASSUME NEW S, NEW s \in Seq(S), NEW e \in S, NEW j \in 1..Len(s) + 1
    PROVE  /\ InsertAt(s, j, e) \in Seq(S)
           /\ Len(InsertAt(s, j, e)) = Len(s) + 1
           /\ \A k \in 1..Len(s) + 1 : InsertAt(s, j, e)[k] =
                IF k < j THEN s[k] ELSE IF k = j THEN e ELSE s[k - 1]
  <1> DEFINE n == Len(s)
             a == SubSeq(s, 1, j - 1)
             m == <<e>>
             b == SubSeq(s, j, n)
             am == a \o m
  <1>1. n \in Nat /\ j \in Nat /\ 1 <= j /\ j <= n + 1
    OBVIOUS
  <1>2. /\ a \in Seq(S) /\ Len(a) = j - 1
        /\ \A k \in 1..j - 1 : a[k] = s[k]
    <2>1. \A k \in 1..j - 1 : s[k] \in S
      BY <1>1
    <2>2. /\ a \in Seq(S) /\ Len(a) = IF 1 <= j - 1 THEN j - 1 - 1 + 1 ELSE 0
          /\ \A k \in 1..j - 1 - 1 + 1 : a[k] = s[1 + k - 1]
      BY <1>1, <2>1, SubSeqProperties
    <2> QED BY <1>1, <2>2
  <1>3. /\ b \in Seq(S) /\ Len(b) = n - j + 1
        /\ \A k \in 1..n - j + 1 : b[k] = s[j + k - 1]
    <2>1. \A k \in j..n : s[k] \in S
      BY <1>1
    <2>2. /\ b \in Seq(S) /\ Len(b) = IF j <= n THEN n - j + 1 ELSE 0
          /\ \A k \in 1..n - j + 1 : b[k] = s[j + k - 1]
      BY <1>1, <2>1, SubSeqProperties
    <2> QED BY <1>1, <2>2
  <1>4. m \in Seq(S) /\ Len(m) = 1 /\ m[1] = e
    OBVIOUS
  <1>5. InsertAt(s, j, e) = am \o b
    BY DEF InsertAt
  <1> HIDE DEF a, b, m, n
  <1>6. /\ am \in Seq(S) /\ Len(am) = j
        /\ \A k \in 1..j : am[k] = IF k <= j - 1 THEN a[k] ELSE m[k - (j - 1)]
    <2>1. /\ a \o m \in Seq(S) /\ Len(a \o m) = Len(a) + Len(m)
          /\ \A k \in 1..Len(a) + Len(m) : (a \o m)[k] = IF k <= Len(a) THEN a[k] ELSE m[k - Len(a)]
      BY <1>2, <1>4, ConcatProperties
    <2>2. Len(a) = j - 1 /\ Len(a) + Len(m) = j
      BY <1>1, <1>2, <1>4
    <2> QED BY <2>1, <2>2 DEF am
  <1> HIDE DEF am
  <1>7. /\ am \o b \in Seq(S) /\ Len(am \o b) = n + 1
        /\ \A k \in 1..n + 1 :
             (am \o b)[k] = IF k <= j THEN am[k] ELSE b[k - j]
    <2>1. /\ am \o b \in Seq(S) /\ Len(am \o b) = Len(am) + Len(b)
          /\ \A k \in 1..Len(am) + Len(b) :
               (am \o b)[k] = IF k <= Len(am) THEN am[k] ELSE b[k - Len(am)]
      BY <1>3, <1>6, ConcatProperties
    <2>2. Len(am) + Len(b) = n + 1
      BY <1>1, <1>3, <1>6
    <2> QED BY <1>6, <2>1, <2>2
  <1>8. ASSUME NEW k \in 1..n + 1
        PROVE  (am \o b)[k] = IF k < j THEN s[k] ELSE IF k = j THEN e ELSE s[k - 1]
    <2>1. CASE k < j
      <3>1. k <= j /\ k \in 1..j /\ k <= j - 1 /\ k \in 1..j - 1
        BY <1>1, <2>1
      <3> QED BY <1>2, <1>6, <1>7, <2>1, <3>1
    <2>2. CASE k = j
      <3>1. k <= j /\ k \in 1..j /\ ~(k <= j - 1) /\ k - (j - 1) = 1 /\ ~(k < j)
        BY <1>1, <2>2
      <3> QED BY <1>4, <1>6, <1>7, <2>2, <3>1
    <2>3. CASE j < k
      <3>1. ~(k <= j) /\ k - j \in 1..n - j + 1 /\ j + (k - j) - 1 = k - 1 /\ ~(k < j) /\ k # j
        BY <1>1, <2>3
      <3> QED BY <1>3, <1>7, <2>3, <3>1
    <2>4. k < j \/ k = j \/ j < k
      BY <1>1
    <2> QED BY <2>1, <2>2, <2>3, <2>4
  <1> QED BY <1>5, <1>7, <1>8 DEF n

\* Moving takes an entry to its target, and shifts those it passes by one place.
LEMMA MovedEntries ==
    ASSUME NEW s \in Pool, NEW i \in Places, NEW delta, Target(s, i, delta) \in Places
    PROVE  /\ Moved(s, i, delta) \in Pool
           /\ \A k \in Places : Moved(s, i, delta)[k] =
                LET j == Target(s, i, delta)
                IN  IF k = j THEN s[i]
                    ELSE IF k < j THEN IF k < i THEN s[k] ELSE s[k + 1]
                    ELSE IF k - 1 < i THEN s[k - 1] ELSE s[k]
  <1> DEFINE j == Target(s, i, delta)
             r == RemoveAt(s, i)
             t == InsertAt(r, j, s[i])
  <1>1. Count \in Nat /\ s \in Seq(Formula) /\ Len(s) = Count /\ i \in 1..Len(s) /\ s[i] \in Formula
    BY EliteInPool, PoolIsSequence DEF Places, Pool
  <1>2. /\ r \in Seq(Formula) /\ Len(r) = Count - 1
        /\ \A k \in 1..Count - 1 : r[k] = IF k < i THEN s[k] ELSE s[k + 1]
    BY <1>1, WithoutEntry
  <1>3. j \in 1..Len(r) + 1 /\ Len(r) + 1 = Count /\ j \in Nat /\ i \in Nat
    BY <1>1, <1>2 DEF Places
  <1>4. Moved(s, i, delta) = t
    BY DEF Moved
  <1> HIDE DEF j, r
  <1>5. /\ t \in Seq(Formula) /\ Len(t) = Count
        /\ \A k \in 1..Count : t[k] = IF k < j THEN r[k] ELSE IF k = j THEN s[i] ELSE r[k - 1]
    BY <1>1, <1>2, <1>3, WithEntry
  <1> HIDE DEF t
  <1>6. t \in Pool
    BY <1>1, <1>5 DEF Pool, Places
  <1>7. ASSUME NEW k \in Places
        PROVE  t[k] = IF k = j THEN s[i]
                      ELSE IF k < j THEN IF k < i THEN s[k] ELSE s[k + 1]
                      ELSE IF k - 1 < i THEN s[k - 1] ELSE s[k]
    <2>1. k \in Nat /\ 1 <= k /\ k <= Count /\ 1 <= j /\ j <= Count
      BY <1>1, <1>3 DEF Places
    <2>2. CASE k = j
      BY <1>5, <2>2 DEF Places
    <2>3. CASE k < j
      <3>1. k # j /\ k \in 1..Count - 1
        BY <1>1, <1>3, <2>1, <2>3
      <3> QED BY <1>2, <1>5, <2>3, <3>1 DEF Places
    <2>4. CASE j < k
      <3>1. k # j /\ ~(k < j) /\ k - 1 \in 1..Count - 1 /\ (k - 1) + 1 = k
        BY <1>1, <1>3, <2>1, <2>4
      <3>2. t[k] = r[k - 1]
        BY <1>5, <3>1 DEF Places
      <3> QED BY <1>2, <3>1, <3>2
    <2>5. k < j \/ k = j \/ j < k
      BY <1>3, <2>1
    <2> QED BY <2>2, <2>3, <2>4, <2>5
  <1> QED BY <1>4, <1>6, <1>7 DEF j

\* Where a reward takes the formula at place i: past the worse ones and no further.
LEMMA RewardTarget ==
    ASSUME NEW s \in Pool, NEW i \in Places, NEW delta \in Int, delta > 0
    PROVE  LET j == Target(s, i, delta) IN
           /\ j \in Places /\ j <= i
           /\ \A k \in j..i - 1 : s[k].fitness < s[i].fitness
           /\ j > 1 => s[j - 1].fitness >= s[i].fitness
  <1> DEFINE S == {j \in 1..i : \A k \in j..i - 1 : s[k].fitness < s[i].fitness}
             j == Target(s, i, delta)
  <1>1. i \in Nat /\ 1 <= i /\ i <= Count /\ Count \in Nat
    BY EliteInPool DEF Places
  <1>2. i \in S /\ S \in SUBSET Nat
    BY <1>1
  <1>3. j = Min(S)
    BY DEF Target
  <1>4. j \in S /\ \A y \in S : j <= y
    BY <1>2, <1>3, MinIsLeast
  <1> HIDE DEF j
  <1>5. j \in Nat /\ 1 <= j /\ j <= i /\ \A k \in j..i - 1 : s[k].fitness < s[i].fitness
    BY <1>1, <1>4
  <1>6. ASSUME j > 1 PROVE s[j - 1].fitness >= s[i].fitness
    <2>1. j - 1 \in 1..i /\ ~(j <= j - 1)
      BY <1>1, <1>5, <1>6
    <2>2. PICK k \in j - 1..i - 1 : ~(s[k].fitness < s[i].fitness)
      BY <1>4, <2>1
    <2>3. k = j - 1
      BY <1>1, <1>5, <2>2
    <2>4. s[k].fitness \in Int /\ s[i].fitness \in Int
      BY <1>1, <1>5, <2>1, <2>3 DEF Pool, Places, Formula
    <2> QED BY <2>2, <2>3, <2>4
  <1> QED BY <1>1, <1>5, <1>6 DEF j, Places

\* Where a penalty takes it: behind the better ones and no further.
LEMMA PenaltyTarget ==
    ASSUME NEW s \in Pool, NEW i \in Places, NEW delta \in Int, delta <= 0
    PROVE  LET j == Target(s, i, delta) IN
           /\ j \in Places /\ i <= j
           /\ \A k \in i + 1..j : s[k].fitness > s[i].fitness
           /\ j < Count => s[j + 1].fitness <= s[i].fitness
  <1> DEFINE S == {j \in i..Count : \A k \in i + 1..j : s[k].fitness > s[i].fitness}
             j == Target(s, i, delta)
  <1>1. i \in Nat /\ 1 <= i /\ i <= Count /\ Count \in Nat
    BY EliteInPool DEF Places
  <1>2. i \in S /\ S \in SUBSET (0..Count)
    BY <1>1
  <1>3. j = Max(S)
    BY DEF Target
  <1>4. j \in S /\ \A y \in S : y <= j
    BY <1>1, <1>2, <1>3, MaxIsGreatest
  <1> HIDE DEF j
  <1>5. j \in Nat /\ i <= j /\ j <= Count /\ \A k \in i + 1..j : s[k].fitness > s[i].fitness
    BY <1>1, <1>4
  <1>6. ASSUME j < Count PROVE s[j + 1].fitness <= s[i].fitness
    <2>1. j + 1 \in i..Count /\ ~(j + 1 <= j)
      BY <1>1, <1>5, <1>6
    <2>2. PICK k \in i + 1..j + 1 : ~(s[k].fitness > s[i].fitness)
      BY <1>4, <2>1
    <2>3. k = j + 1
      BY <1>1, <1>5, <2>2
    <2>4. s[k].fitness \in Int /\ s[i].fitness \in Int
      BY <1>1, <1>5, <2>1, <2>3 DEF Pool, Places, Formula
    <2> QED BY <2>2, <2>3, <2>4
  <1> QED BY <1>1, <1>5, <1>6 DEF j, Places

\* Feedback moves the fitness the way it goes, and leaves the associations.
LEMMA AdjustedFormula ==
    ASSUME NEW f \in Formula, f.fitness >= 0, NEW delta \in {-1, 1}
    PROVE  /\ Adjusted(f, delta) \in Formula
           /\ Adjusted(f, delta).fitness >= 0
           /\ Adjusted(f, delta).assocs = f.assocs
           /\ delta > 0 => Adjusted(f, delta).fitness >= f.fitness
           /\ delta <= 0 => Adjusted(f, delta).fitness <= f.fitness
  <1>1. /\ delta \in Int /\ Scale \in Nat /\ f.feedback \in Int /\ f.fitness \in Int
    BY PoolAssumption DEF Formula
  <1>2. Within(f.feedback + delta) \in -Scale..Scale
    BY <1>1 DEF Within
  <1>3. LET n == IF f.fitness + delta < 0 THEN 0 ELSE f.fitness + delta
        IN  /\ n \in Int /\ n >= 0
            /\ delta > 0 => n >= f.fitness
            /\ delta <= 0 => n <= f.fitness
    BY <1>1
  <1> QED BY <1>2, <1>3 DEF Adjusted, Formula

\* Feedback leaves ranked formulas: the one it is about has left its place for the
\* one its new fitness gives it.
LEMMA FeedbackStep ==
    ASSUME TypeOK, Ranked(formulas), NEW g \in Genes, NEW delta \in {-1, 1}, Feedback(g, delta)
    PROVE  formulas' \in Pool /\ Sound(formulas') /\ Ranked(formulas')
  <1>1. PICK i \in Places :
            formulas' = Moved([formulas EXCEPT ![i] = Adjusted(@, delta)], i, delta)
    BY DEF Feedback, Places
  <1> DEFINE s == [formulas EXCEPT ![i] = Adjusted(@, delta)]
             j == Target(s, i, delta)
  <1>2. formulas \in Pool /\ Sound(formulas) /\ formulas[i] \in Formula
    BY DEF TypeOK, Pool, Sound, Places
  <1>3. /\ Adjusted(formulas[i], delta) \in Formula
        /\ Adjusted(formulas[i], delta).fitness >= 0
        /\ Adjusted(formulas[i], delta).assocs = formulas[i].assocs
        /\ delta > 0 => Adjusted(formulas[i], delta).fitness >= formulas[i].fitness
        /\ delta <= 0 => Adjusted(formulas[i], delta).fitness <= formulas[i].fitness
    BY <1>2, AdjustedFormula DEF Sound
  <1>4. /\ s \in Pool /\ s[i] = Adjusted(formulas[i], delta)
        /\ \A k \in Places : k # i => s[k] = formulas[k]
    BY <1>2, <1>3 DEF Pool
  <1>5. \A k \in Places : s[k].fitness \in Int /\ s[k].fitness >= 0 /\ Len(s[k].assocs) <= FormulaLimit
    <2> TAKE k \in Places
    <2>1. s[k].fitness \in Int
      BY <1>4 DEF Pool, Formula
    <2>2. CASE k = i
      BY <1>2, <1>3, <1>4, <2>1, <2>2 DEF Sound
    <2>3. CASE k # i
      BY <1>2, <1>4, <2>1, <2>3 DEF Sound
    <2> QED BY <2>2, <2>3
  <1>6. /\ Count \in Nat /\ i \in Nat /\ 1 <= i /\ i <= Count
        /\ \A k \in Nat : 1 <= k /\ k <= Count => k \in Places
        /\ \A k \in Places : k \in Nat /\ 1 <= k /\ k <= Count
    BY EliteInPool DEF Places
  <1>7. /\ \A k \in Places : formulas[k].fitness \in Int
        /\ \A k \in Places : k < Count => formulas[k].fitness >= formulas[k + 1].fitness
    BY <1>2, RankedSpelled DEF Pool, Formula
  <1>8. formulas' = Moved(s, i, delta)
    BY <1>1
  <1>9. /\ j \in Places
        /\ \/ /\ delta > 0 /\ j <= i
              /\ \A k \in j..i - 1 : s[k].fitness < s[i].fitness
              /\ j > 1 => s[j - 1].fitness >= s[i].fitness
           \/ /\ delta <= 0 /\ i <= j
              /\ \A k \in i + 1..j : s[k].fitness > s[i].fitness
              /\ j < Count => s[j + 1].fitness <= s[i].fitness
    <2>1. delta \in Int /\ (delta > 0 \/ delta <= 0)
      OBVIOUS
    <2>2. CASE delta > 0
      BY <1>4, <2>1, <2>2, RewardTarget
    <2>3. CASE delta <= 0
      BY <1>4, <2>1, <2>3, PenaltyTarget
    <2> QED BY <2>1, <2>2, <2>3
  <1> HIDE DEF s, j
  <1>10. /\ formulas' \in Pool
         /\ \A k \in Places : formulas'[k] =
              IF k = j THEN s[i]
              ELSE IF k < j THEN IF k < i THEN s[k] ELSE s[k + 1]
              ELSE IF k - 1 < i THEN s[k - 1] ELSE s[k]
    BY <1>4, <1>8, <1>9, MovedEntries DEF j
  <1>11. \A k \in Places : \E m \in Places : formulas'[k] = s[m]
    <2> TAKE k \in Places
    <2>1. j \in Nat /\ k \in Nat /\ 1 <= j /\ j <= Count /\ 1 <= k /\ k <= Count
      BY <1>6, <1>9
    <2>2. CASE k = j
      BY <1>10, <2>2
    <2>3. CASE k < j
      <3>1. k + 1 \in Places /\ k # j
        BY <1>6, <2>1, <2>3
      <3> QED BY <1>10, <2>3, <3>1
    <2>4. CASE j < k
      <3>1. k - 1 \in Places /\ k # j /\ ~(k < j)
        BY <1>6, <2>1, <2>4
      <3> QED BY <1>10, <3>1
    <2>5. k = j \/ k < j \/ j < k
      BY <2>1
    <2> QED BY <2>2, <2>3, <2>4, <2>5
  <1>12. Sound(formulas')
    BY <1>5, <1>11 DEF Sound
  <1>13. Ranked(formulas')
    <2> SUFFICES ASSUME NEW k \in Places, k < Count
                 PROVE  formulas'[k].fitness >= formulas'[k + 1].fitness
      BY <1>10, RankedSpelled
    <2>0. k \in Nat /\ 1 <= k /\ k <= Count /\ j \in Nat /\ 1 <= j /\ j <= Count
      BY <1>6, <1>9
    <2>1. /\ k \in Nat /\ 1 <= k /\ k + 1 \in Places /\ (k + 1) - 1 = k
          /\ j \in Nat /\ 1 <= j /\ j <= Count
      BY <1>6, <2>0
    <2>2. \A m \in Places : m # i => s[m].fitness = formulas[m].fitness
      BY <1>4
    <2>3. /\ delta > 0 => s[i].fitness >= formulas[i].fitness
          /\ delta <= 0 => s[i].fitness <= formulas[i].fitness
      BY <1>3, <1>4
    <2> DEFINE old(m) == formulas[m].fitness
               fit(m) == s[m].fitness
               new(m) == formulas'[m].fitness
    <2>4. /\ \A m \in Places : old(m) \in Int /\ fit(m) \in Int
          /\ \A m \in Places : m < Count => old(m) >= old(m + 1)
          /\ \A m \in Places : m # i => fit(m) = old(m)
      BY <1>5, <1>7, <2>2
    <2>5. \A m \in Places : new(m) =
              IF m = j THEN fit(i)
              ELSE IF m < j THEN IF m < i THEN fit(m) ELSE fit(m + 1)
              ELSE IF m - 1 < i THEN fit(m - 1) ELSE fit(m)
      BY <1>10
    <2>6. CASE /\ delta > 0 /\ j <= i
               /\ \A m \in j..i - 1 : s[m].fitness < s[i].fitness
               /\ j > 1 => s[j - 1].fitness >= s[i].fitness
      <3>1. /\ fit(i) >= old(i) /\ j <= i /\ (j > 1 => fit(j - 1) >= fit(i))
            /\ \A m \in j..i - 1 : fit(m) < fit(i)
        BY <2>3, <2>6
      <3> SUFFICES new(k) >= new(k + 1)
        OBVIOUS
      <3> HIDE DEF old, fit, new
      <3>2. CASE k + 1 < j
        <4>1. new(k) = fit(k) /\ new(k + 1) = fit(k + 1) /\ k # i /\ k + 1 # i
          BY <1>6, <2>1, <2>5, <3>1, <3>2
        <4> QED BY <2>1, <2>4, <4>1
      <3>3. CASE k + 1 = j
        <4>1. new(k) = fit(k) /\ new(k + 1) = fit(i) /\ j > 1 /\ j - 1 = k
          BY <1>6, <2>1, <2>5, <3>1, <3>3
        <4> QED BY <3>1, <4>1
      <3>4. CASE k = j /\ j < i
        <4>1. new(k) = fit(i) /\ new(k + 1) = fit(k) /\ k \in j..i - 1
          BY <1>6, <2>1, <2>5, <3>1, <3>4
        <4> QED BY <2>4, <3>1, <4>1
      <3>5. CASE k = j /\ j = i
        <4>1. new(k) = fit(i) /\ new(k + 1) = fit(k + 1) /\ k + 1 # i
          BY <1>6, <2>1, <2>5, <3>1, <3>5
        <4>2. fit(k + 1) = old(k + 1) /\ old(i) >= old(k + 1)
          BY <2>1, <2>4, <3>5, <4>1
        <4> QED BY <2>1, <2>4, <3>1, <4>1, <4>2
      <3>6. CASE j < k /\ k < i
        <4>1. new(k) = fit(k - 1) /\ new(k + 1) = fit(k) /\ k - 1 # i /\ k # i
          BY <1>6, <2>1, <2>5, <3>1, <3>6
        <4>2. k - 1 \in Places /\ k - 1 < Count /\ (k - 1) + 1 = k
          BY <1>6, <2>1, <3>6
        <4> QED BY <2>1, <2>4, <4>1, <4>2
      <3>7. CASE j < k /\ k = i
        <4>1. new(k) = fit(k - 1) /\ new(k + 1) = fit(k + 1) /\ k - 1 # i /\ k + 1 # i
          BY <1>6, <2>1, <2>5, <3>1, <3>7
        <4>2. k - 1 \in Places /\ k - 1 < Count /\ (k - 1) + 1 = k
          BY <1>6, <2>1, <3>7
        <4>3. old(k - 1) >= old(k) /\ old(k) >= old(k + 1)
          BY <2>1, <2>4, <4>2
        <4> QED BY <2>1, <2>4, <4>1, <4>2, <4>3
      <3>8. CASE j < k /\ i < k
        <4>1. new(k) = fit(k) /\ new(k + 1) = fit(k + 1) /\ k # i /\ k + 1 # i
          BY <1>6, <2>1, <2>5, <3>1, <3>8
        <4> QED BY <2>1, <2>4, <4>1
      <3> QED BY <1>6, <2>1, <3>1, <3>2, <3>3, <3>4, <3>5, <3>6, <3>7, <3>8
    <2>7. CASE /\ delta <= 0 /\ i <= j
               /\ \A m \in i + 1..j : s[m].fitness > s[i].fitness
               /\ j < Count => s[j + 1].fitness <= s[i].fitness
      <3>1. /\ fit(i) <= old(i) /\ i <= j /\ (j < Count => fit(j + 1) <= fit(i))
            /\ \A m \in i + 1..j : fit(m) > fit(i)
        BY <2>3, <2>7
      <3> SUFFICES new(k) >= new(k + 1)
        OBVIOUS
      <3> HIDE DEF old, fit, new
      <3>2. CASE k + 1 < i
        <4>1. new(k) = fit(k) /\ new(k + 1) = fit(k + 1) /\ k # i /\ k + 1 # i
          BY <1>6, <2>1, <2>5, <3>1, <3>2
        <4> QED BY <2>1, <2>4, <4>1
      <3>3. CASE k + 1 = i /\ i < j
        <4>1. new(k) = fit(k) /\ new(k + 1) = fit(i + 1) /\ k # i /\ i + 1 # i
          BY <1>6, <2>1, <2>5, <3>1, <3>3
        <4>2. i + 1 \in Places /\ i < Count
          BY <1>6, <2>1, <3>3
        <4>3. old(k) >= old(i) /\ old(i) >= old(i + 1)
          BY <1>6, <2>1, <2>4, <3>3, <4>2
        <4> QED BY <1>6, <2>1, <2>4, <4>1, <4>2, <4>3
      <3>4. CASE k + 1 = i /\ i = j
        <4>1. new(k) = fit(k) /\ new(k + 1) = fit(i) /\ k # i
          BY <1>6, <2>1, <2>5, <3>1, <3>4
        <4>2. old(k) >= old(i)
          BY <2>1, <2>4, <3>4
        <4> QED BY <1>6, <2>1, <2>4, <3>1, <4>1, <4>2
      <3>5. CASE i <= k /\ k + 1 < j
        <4>1. new(k) = fit(k + 1) /\ new(k + 1) = fit((k + 1) + 1) /\ k + 1 # i /\ (k + 1) + 1 # i
          BY <1>6, <2>1, <2>5, <3>1, <3>5
        <4>2. k + 1 < Count /\ (k + 1) + 1 \in Places
          BY <1>6, <2>1, <3>5
        <4> QED BY <2>1, <2>4, <4>1, <4>2
      <3>6. CASE i <= k /\ k + 1 = j
        <4>1. new(k) = fit(k + 1) /\ new(k + 1) = fit(i) /\ k + 1 \in i + 1..j
          BY <1>6, <2>1, <2>5, <3>1, <3>6
        <4> QED BY <1>6, <2>1, <2>4, <3>1, <4>1
      <3>7. CASE k = j
        <4>1. new(k) = fit(i) /\ new(k + 1) = fit(k + 1)
          BY <1>6, <2>1, <2>5, <3>1, <3>7
        <4> QED BY <1>6, <2>1, <2>4, <3>1, <3>7, <4>1
      <3>8. CASE j < k
        <4>1. new(k) = fit(k) /\ new(k + 1) = fit(k + 1) /\ k # i /\ k + 1 # i
          BY <1>6, <2>1, <2>5, <3>1, <3>8
        <4> QED BY <2>1, <2>4, <4>1
      <3> QED BY <1>6, <2>1, <3>1, <3>2, <3>3, <3>4, <3>5, <3>6, <3>7, <3>8
    <2> QED BY <1>9, <2>6, <2>7
  <1> QED BY <1>10, <1>12, <1>13

-----------------------------------------------------------------------------
(* The associations of the pool *)

\* No question twice.
Distinct(s) == \A i, j \in DOMAIN s : s[i].q = s[j].q => i = j

\* A known question keeps its place, and a new one is no other's.
LEMMA StoredEntries ==
    ASSUME NEW s \in Seq(Association), Len(s) <= PoolLimit, Distinct(s), NEW new \in Association
    PROVE  Stored(s, new) \in Seq(Association) /\ Len(Stored(s, new)) <= PoolLimit /\ Distinct(Stored(s, new))
  <1> DEFINE known == {i \in DOMAIN s : s[i].q = new.q}
             n == Len(s)
             t == Stored(s, new)
  <1>0. n \in Nat /\ n <= PoolLimit /\ PoolLimit \in Nat /\ PoolLimit >= 1 /\ DOMAIN s = 1..n
    BY PoolAssumption
  <1>1. CASE known # {}
    <2>1. Min(known) \in known
      <3>1. known \in SUBSET Nat
        BY <1>0
      <3> QED BY <1>1, <3>1, MinIsLeast
    <2>2. t = [s EXCEPT ![Min(known)] = new]
      BY <1>1 DEF Stored
    <2>3. /\ t \in Seq(Association) /\ Len(t) = n /\ DOMAIN t = DOMAIN s
          /\ \A i \in DOMAIN s : t[i] = IF i = Min(known) THEN new ELSE s[i]
      BY <2>1, <2>2
    <2>4. \A i \in DOMAIN s : t[i].q = s[i].q
      BY <2>1, <2>3
    <2> QED BY <1>0, <2>3, <2>4 DEF Distinct
  <1>2. CASE known = {} /\ n < PoolLimit
    <2>1. t = Append(s, new)
      BY <1>2 DEF Stored
    <2>2. t \in Seq(Association) /\ Len(t) = n + 1 /\ DOMAIN t = 1..n + 1
      BY <2>1
    <2>3. (\A i \in 1..n : t[i] = s[i]) /\ t[n + 1] = new
      BY <2>1
    <2>4. \A i \in 1..n : s[i].q # new.q
      BY <1>0, <1>2
    <2> HIDE DEF t, n, known
    <2>5. Distinct(t)
      <3> SUFFICES ASSUME NEW i \in 1..n + 1, NEW j \in 1..n + 1, t[i].q = t[j].q PROVE i = j
        BY <2>2 DEF Distinct
      <3>1. (i \in 1..n \/ i = n + 1) /\ (j \in 1..n \/ j = n + 1)
        BY <1>0
      <3> QED BY <1>0, <2>3, <2>4, <3>1 DEF Distinct
    <2>6. Len(t) <= PoolLimit
      BY <1>0, <1>2, <2>2
    <2> QED BY <2>2, <2>5, <2>6 DEF t
  <1>3. CASE known = {} /\ ~(n < PoolLimit)
    <2>1. t = Append(Tail(s), new)
      BY <1>3 DEF Stored
    <2>2. s # <<>> /\ n = PoolLimit
      <3>1. ~(n < PoolLimit)
        BY <1>3
      <3>2. s = <<>> => n = 0
        OBVIOUS
      <3>3. n \in Int /\ PoolLimit \in Int /\ n <= PoolLimit /\ PoolLimit >= 1
        BY <1>0
      <3> HIDE DEF n
      <3> QED BY <3>1, <3>2, <3>3
    <2>3. /\ Tail(s) \in Seq(Association) /\ Len(Tail(s)) = n - 1
          /\ \A i \in 1..n - 1 : Tail(s)[i] = s[i + 1]
      BY <2>2, HeadTailProperties
    <2>4. t \in Seq(Association) /\ Len(t) = n /\ DOMAIN t = 1..n
      BY <1>0, <2>1, <2>3
    <2>5. (\A i \in 1..n - 1 : t[i] = s[i + 1]) /\ t[n] = new
      <3>1. (\A i \in 1..n - 1 : t[i] = Tail(s)[i]) /\ t[n] = new
        BY <1>0, <2>1, <2>3
      <3> QED BY <2>3, <3>1
    <2>6. \A i \in 1..n : s[i].q # new.q
      <3>1. known = {}
        BY <1>3
      <3> QED BY <1>0, <3>1
    <2> HIDE DEF t, n, known
    <2>7. Distinct(t)
      <3> SUFFICES ASSUME NEW i \in 1..n, NEW j \in 1..n, t[i].q = t[j].q PROVE i = j
        BY <2>4 DEF Distinct
      <3>1. /\ (i \in 1..n - 1 /\ i + 1 \in 1..n) \/ i = n
            /\ (j \in 1..n - 1 /\ j + 1 \in 1..n) \/ j = n
        BY <1>0
      <3>2. ASSUME i \in 1..n - 1, j \in 1..n - 1 PROVE i = j
        <4>1. s[i + 1].q = s[j + 1].q
          BY <2>5, <3>2
        <4>2. i + 1 = j + 1
          BY <1>0, <3>1, <3>2, <4>1 DEF Distinct
        <4> QED BY <4>2
      <3>3. ASSUME i \in 1..n - 1, j = n PROVE FALSE
        BY <1>0, <2>5, <2>6, <3>1, <3>3
      <3>4. ASSUME j \in 1..n - 1, i = n PROVE FALSE
        BY <1>0, <2>5, <2>6, <3>1, <3>4
      <3> QED BY <3>1, <3>2, <3>3, <3>4
    <2> QED BY <1>0, <2>4, <2>7 DEF t
  <1> QED BY <1>1, <1>2, <1>3

-----------------------------------------------------------------------------
(* How many formulas are of a kind *)

\* The places of s that hold a formula of X.
Holding(s, X) == {i \in Places : s[i] \in X}

\* The places that hold a formula of some set can be counted.
LEMMA HoldingIsFinite ==
    ASSUME NEW s, NEW X
    PROVE  IsFiniteSet(Holding(s, X)) /\ Cardinality(Holding(s, X)) \in Nat
  <1>1. IsFiniteSet(Places)
    BY EliteInPool, FS_Interval DEF Places
  <1> QED BY <1>1, FS_Subset, FS_CardinalityType DEF Holding

\* Sorting changes the place of formulas, never how many of them are of a kind.  A
\* smallest kind of which it did would lose its count with any one formula.
LEMMA SortedHolds ==
    ASSUME NEW s \in Pool, NEW t \in Sorted(s), NEW X
    PROVE  Cardinality(Holding(t, X)) = Cardinality(Holding(s, X))
  <1> DEFINE Same(Y) == Cardinality(Holding(t, Y)) = Cardinality(Holding(s, Y))
             All == Range(s)
             Sizes == {n \in Nat : \E Y \in SUBSET All : Cardinality(Y) = n /\ ~Same(Y)}
  <1>1. DOMAIN s = Places /\ DOMAIN t = Places
    BY DEF Pool, Sorted
  <1>2. \A x \in All : Same({x})
    BY <1>1 DEF Sorted, Rearranges, Holding
  <1>3. \A i \in Places : s[i] \in All /\ t[i] \in All
    BY <1>1 DEF Range, Sorted
  <1>4. IsFiniteSet(All)
    <2>1. IsFiniteSet(Places)
      BY EliteInPool, FS_Interval DEF Places
    <2>2. s \in Surjection(Places, All)
      BY Fun_RangeProperties DEF Pool
    <2> QED BY <2>1, <2>2, FS_Surjection
  <1> HIDE DEF All
  <1>5. ASSUME NEW Y \in SUBSET All, NEW x \in Y, Same(Y \ {x})
        PROVE  Same(Y)
    <2>1. ASSUME NEW r
          PROVE  Cardinality(Holding(r, Y)) = Cardinality(Holding(r, Y \ {x})) + Cardinality(Holding(r, {x}))
      <3>1. /\ Holding(r, Y) = Holding(r, Y \ {x}) \cup Holding(r, {x})
            /\ Holding(r, Y \ {x}) \cap Holding(r, {x}) = {}
        BY DEF Holding
      <3>2. /\ Cardinality(Holding(r, Y)) = Cardinality(Holding(r, Y \ {x})) + Cardinality(Holding(r, {x})) - Cardinality({})
            /\ Cardinality(Holding(r, Y \ {x})) \in Nat /\ Cardinality(Holding(r, {x})) \in Nat
        <4>1. PICK A, B, C : A = Holding(r, Y) /\ B = Holding(r, Y \ {x}) /\ C = Holding(r, {x})
          OBVIOUS
        <4>2. IsFiniteSet(B) /\ IsFiniteSet(C)
          BY <4>1, HoldingIsFinite
        <4>3. Cardinality(B) \in Nat /\ Cardinality(C) \in Nat
          BY <4>2, FS_CardinalityType
        <4>4. Cardinality(B \cup C) = Cardinality(B) + Cardinality(C) - Cardinality(B \cap C)
          BY <4>2, FS_Union
        <4> QED BY <3>1, <4>1, <4>3, <4>4
      <3> QED BY <3>2, FS_EmptySet
    <2>2. Same({x})
      BY <1>2
    <2>3. Cardinality(Holding(t, Y)) = Cardinality(Holding(t, Y \ {x})) + Cardinality(Holding(t, {x}))
      BY <2>1
    <2>4. Cardinality(Holding(s, Y)) = Cardinality(Holding(s, Y \ {x})) + Cardinality(Holding(s, {x}))
      BY <2>1
    <2> QED BY <1>5, <2>2, <2>3, <2>4
  <1>6. Same({})
    BY DEF Holding
  <1>7. ASSUME Sizes # {} PROVE FALSE
    <2>1. PICK n \in Sizes : \A k \in Sizes : n <= k
      <3>1. Sizes \in SUBSET Nat
        OBVIOUS
      <3> HIDE DEF Sizes
      <3> QED BY <1>7, <3>1, LeastExists
    <2>2. PICK Y \in SUBSET All : n \in Nat /\ Cardinality(Y) = n /\ ~Same(Y)
      OBVIOUS
    <2>3. PICK x \in Y : TRUE
      <3>1. Y # {}
        BY <1>6, <2>2
      <3> QED BY <3>1
    <2>4. Y \ {x} \in SUBSET All /\ ~Same(Y \ {x})
      BY <1>5, <2>2
    <2>5. Cardinality(Y \ {x}) = n - 1 /\ n - 1 \in Nat
      <3>1. IsFiniteSet(Y)
        BY <1>4, FS_Subset
      <3>2. Cardinality(Y \ {x}) = Cardinality(Y) - 1
        BY <3>1, FS_RemoveElement
      <3>3. Cardinality(Y \ {x}) \in Nat
        BY <3>1, FS_RemoveElement, FS_CardinalityType
      <3> QED BY <2>2, <3>2, <3>3
    <2>6. n - 1 \in Sizes
      BY <2>4, <2>5
    <2> HIDE DEF Sizes
    <2> QED BY <2>1, <2>2, <2>6
  <1>8. Same(X \cap All)
    <2>1. IsFiniteSet(X \cap All)
      BY <1>4, FS_Subset
    <2>2. Cardinality(X \cap All) \in Nat
      BY <2>1, FS_CardinalityType
    <2> QED BY <1>7, <2>2
  <1>9. Holding(t, X) = Holding(t, X \cap All) /\ Holding(s, X) = Holding(s, X \cap All)
    BY <1>3 DEF Holding
  <1> QED BY <1>8, <1>9

\* Moving a formula makes none of any kind.
LEMMA MovedHolds ==
    ASSUME NEW s \in Pool, NEW i \in Places, NEW delta, Target(s, i, delta) \in Places, NEW X
    PROVE  Cardinality(Holding(Moved(s, i, delta), X)) <= Cardinality(Holding(s, X))
  <1> DEFINE j == Target(s, i, delta)
             t == Moved(s, i, delta)
             from(k) == IF k = j THEN i
                        ELSE IF k < j THEN IF k < i THEN k ELSE k + 1
                        ELSE IF k - 1 < i THEN k - 1 ELSE k
             f == [k \in Holding(t, X) |-> from(k)]
  <1>1. \A k \in Places : t[k] = IF k = j THEN s[i]
                    ELSE IF k < j THEN IF k < i THEN s[k] ELSE s[k + 1]
                    ELSE IF k - 1 < i THEN s[k - 1] ELSE s[k]
    BY MovedEntries
  <1>2. i \in Places /\ j \in Places /\ Count \in Nat
    BY EliteInPool
  <1> HIDE DEF j, t
  <1>3. \A k \in Places : from(k) \in Places
    BY <1>2 DEF Places
  <1>4. \A k \in Places : t[k] = s[from(k)]
    BY <1>1
  <1>5. \A k, l \in Places : from(k) = from(l) => k = l
    BY <1>2 DEF Places
  <1> HIDE DEF from
  <1>6. f \in Injection(Holding(t, X), Holding(s, X))
    <2>1. f \in [Holding(t, X) -> Holding(s, X)]
      BY <1>3, <1>4 DEF Holding
    <2>2. \A k, l \in Holding(t, X) : f[k] = f[l] => k = l
      BY <1>5 DEF Holding
    <2> QED BY <2>1, <2>2, Fun_IsInj
  <1>7. IsFiniteSet(Holding(s, X))
    BY HoldingIsFinite
  <1> HIDE DEF f
  <1> QED BY <1>6, <1>7, FS_Injection DEF t

-----------------------------------------------------------------------------
(* The invariant *)

\* A new pool has the invariant, ...
LEMMA InvInit == Init => IInv
  <1> SUFFICES ASSUME Init PROVE IInv
    OBVIOUS
  <1>1. PICK s \in Seeds : formulas = [i \in 1..Count |-> NewFormula(s[i])]
    BY DEF Init
  <1>2. /\ Count \in Nat /\ 0 \in 0..MaxExamples /\ FormulaLimit \in Nat /\ PoolLimit \in Nat
        /\ 0 \in -Scale..Scale /\ s \in [1..Count -> Genes]
    BY PoolAssumption
  <1>3. ASSUME NEW i \in 1..Count
        PROVE  /\ formulas[i] \in Formula /\ formulas[i].fitness = 0
               /\ formulas[i].assocs = <<>>
    BY <1>1, <1>2 DEF NewFormula, Formula
  <1>4. formulas \in [1..Count -> Formula]
    BY <1>1, <1>3
  <1>5. Len(<<>>) <= FormulaLimit /\ Len(<<>>) <= PoolLimit
    BY <1>2
  <1>6. TypeOK
    <2>1. associations \in Seq(Association) /\ associations = <<>>
      BY DEF Init
    <2>2. \A i \in 1..Count : formulas[i].fitness >= 0 /\ Len(formulas[i].assocs) <= FormulaLimit
      BY <1>3, <1>5
    <2> QED BY <1>2, <1>4, <1>5, <2>1, <2>2 DEF Init, TypeOK
  <1>7. Ranked(formulas)
    <2>1. \A i \in Places : i < Count => i + 1 \in Places
      BY <1>2 DEF Places
    <2>2. \A i \in Places : i < Count => formulas[i].fitness >= formulas[i + 1].fitness
      BY <1>3, <2>1 DEF Places
    <2>3. formulas \in Pool
      BY <1>4 DEF Pool, Places
    <2> QED BY <2>2, <2>3, RankedSpelled
  <1>8. Settled /\ OneAnswerPerQuestion
    BY DEF Init, Settled, OneAnswerPerQuestion
  <1> QED BY <1>6, <1>7, <1>8 DEF IInv

\* ... and every operation keeps it: teaching, clearing, feedback and the steps of a tick.
LEMMA InvStep == IInv /\ [Next]_vars => IInv'
  <1> SUFFICES ASSUME IInv, [Next]_vars PROVE IInv'
    OBVIOUS
  <1>0. /\ TypeOK /\ Ranked(formulas) /\ Settled /\ OneAnswerPerQuestion
        /\ MaxExamples \in Nat /\ examples \in 0..MaxExamples
        /\ PoolLimit \in Nat /\ 0 <= PoolLimit
    BY PoolAssumption DEF IInv, TypeOK
  <1>1. ASSUME formulas' \in Pool, Sound(formulas')
        PROVE  /\ formulas' \in [1..Count -> Formula]
               /\ \A i \in 1..Count : formulas'[i].fitness >= 0 /\ Len(formulas'[i].assocs) <= FormulaLimit
    BY <1>1 DEF Pool, Sound, Places
  <1>2. CASE AddExample
    <2>1. examples' \in 0..MaxExamples
      BY <1>0, <1>2 DEF AddExample
    <2> QED BY <1>0, <1>2, <2>1 DEF AddExample, IInv, TypeOK, Settled, OneAnswerPerQuestion, Ranked
  <1>3. ASSUME NEW q \in Questions, NEW a \in Answers, AddAssociation(q, a)
        PROVE  IInv'
    <2> DEFINE new == [q |-> q, a |-> a, at |-> told + 1]
    <2>1. examples' \in 0..MaxExamples
      BY <1>0, <1>3 DEF AddAssociation, OneMoreExample
    <2>2. told + 1 \in Nat /\ told' = told + 1
      BY <1>0, <1>3 DEF TypeOK, AddAssociation
    <2>3. new \in Association
      BY <2>2 DEF Association
    <2>4. associations' = Stored(associations, new)
      BY <1>3, <2>2 DEF AddAssociation
    <2>5. associations \in Seq(Association) /\ Len(associations) <= PoolLimit /\ Distinct(associations)
      BY <1>0 DEF TypeOK, OneAnswerPerQuestion, Distinct
    <2> HIDE DEF new
    <2>6. associations' \in Seq(Association) /\ Len(associations') <= PoolLimit /\ Distinct(associations')
      BY <2>3, <2>4, <2>5, StoredEntries
    <2>7. TypeOK'
      BY <1>0, <1>3, <2>1, <2>2, <2>6 DEF AddAssociation, TypeOK
    <2>8. OneAnswerPerQuestion'
      BY <2>6 DEF OneAnswerPerQuestion, Distinct
    <2>9. Ranked(formulas)' /\ Settled'
      BY <1>0, <1>3 DEF AddAssociation, Ranked, Settled
    <2> QED BY <2>7, <2>8, <2>9 DEF IInv
  <1>4. CASE ClearExamples
    <2>1. examples' \in 0..MaxExamples
      BY <1>0, <1>4 DEF ClearExamples
    <2>2. associations' \in Seq(Association) /\ Len(associations') = 0 /\ DOMAIN associations' = {}
      BY <1>4 DEF ClearExamples
    <2>3. TypeOK'
      BY <1>0, <1>4, <2>1, <2>2 DEF ClearExamples, TypeOK
    <2>4. Ranked(formulas)' /\ Settled' /\ OneAnswerPerQuestion'
      BY <1>0, <1>4, <2>2 DEF ClearExamples, Ranked, Settled, OneAnswerPerQuestion
    <2> QED BY <2>3, <2>4 DEF IInv
  <1>5. ASSUME NEW n \in 0..MaxGenerations, StartTick(n)
        PROVE  IInv'
    <2>1. left' \in Nat /\ left' # 0 /\ ticks' \in Nat
      BY <1>0, <1>5 DEF StartTick, TypeOK
    <2>2. TypeOK'
      BY <1>0, <1>5, <2>1 DEF StartTick, TypeOK
    <2>3. Ranked(formulas)' /\ Settled' /\ OneAnswerPerQuestion'
      BY <1>0, <1>5, <2>1 DEF StartTick, Ranked, Settled, OneAnswerPerQuestion
    <2> QED BY <2>2, <2>3 DEF IInv
  <1>6. CASE Generation
    <2>1. /\ formulas' \in Pool /\ Sound(formulas') /\ Ranked(formulas')
          /\ \A i \in Places : formulas'[i].fitness <= Scale
      BY <1>0, <1>6, GenerationStep
    <2>2. left' \in Nat
      BY <1>0, <1>6 DEF Generation, TypeOK
    <2>3. TypeOK'
      BY <1>0, <1>1, <1>6, <2>1, <2>2 DEF Generation, TypeOK
    <2>4. Ranked(formulas)' /\ Settled' /\ OneAnswerPerQuestion'
      BY <1>0, <1>6, <2>1 DEF Generation, Ranked, Settled, OneAnswerPerQuestion, Places
    <2> QED BY <2>3, <2>4 DEF IInv
  <1>7. CASE EndTick
    <2>1. formulas' \in Pool /\ Sound(formulas') /\ Ranked(formulas')
      <3>1. CASE associations = <<>>
        BY <1>0, <1>7, <3>1 DEF EndTick, TypeOK, Pool, Sound, Places
      <3>2. CASE associations # <<>>
        BY <1>0, <1>7, <3>2, EndTickStep
      <3> QED BY <3>1, <3>2
    <2>2. TypeOK'
      BY <1>0, <1>1, <1>7, <2>1 DEF EndTick, TypeOK
    <2>3. Ranked(formulas)' /\ Settled' /\ OneAnswerPerQuestion'
      BY <1>0, <1>7, <2>1 DEF EndTick, Ranked, Settled, OneAnswerPerQuestion
    <2> QED BY <2>2, <2>3 DEF IInv
  <1>8. ASSUME NEW g \in Genes, NEW delta \in {-1, 1}, Feedback(g, delta)
        PROVE  IInv'
    <2>1. formulas' \in Pool /\ Sound(formulas') /\ Ranked(formulas')
      BY <1>0, <1>8, FeedbackStep
    <2>2. marks' \in Nat
      BY <1>0, <1>8 DEF Feedback, TypeOK
    <2>3. TypeOK'
      BY <1>0, <1>1, <1>8, <2>1, <2>2 DEF Feedback, TypeOK
    <2>4. Ranked(formulas)' /\ Settled' /\ OneAnswerPerQuestion'
      BY <1>0, <1>8, <2>1 DEF Feedback, Ranked, Settled, OneAnswerPerQuestion
    <2> QED BY <2>3, <2>4 DEF IInv
  <1>9. CASE UNCHANGED vars
    BY <1>0, <1>9 DEF vars, IInv, TypeOK, Ranked, Settled, OneAnswerPerQuestion
  <1> QED BY <1>2, <1>3, <1>4, <1>5, <1>6, <1>7, <1>8, <1>9 DEF Next

-----------------------------------------------------------------------------
(* The best a pool achieves *)

\* What formula f achieves on n examples, as Evaluated says with the examples held.
Achieves(n, f) == Clamp(Score[n][f.gene] + f.feedback)

BestOf(n, s) == CHOOSE m \in {Achieves(n, s[i]) : i \in Places} :
    \A i \in Places : Achieves(n, s[i]) <= m

\* Max finds the best fitness that the pool holds.
LEMMA MaxSpelled == MaxOf(formulas) = BestOf(examples, formulas)
  BY DEF MaxOf, BestOf, Evaluated, Achieves, Places

\* Some formula achieves the best, and none achieves more.
LEMMA BestAttained ==
    ASSUME NEW n \in 0..MaxExamples, NEW s \in Pool
    PROVE  /\ BestOf(n, s) \in Int
           /\ \E i \in Places : BestOf(n, s) = Achieves(n, s[i])
           /\ \A i \in Places : Achieves(n, s[i]) <= BestOf(n, s)
  <1> DEFINE S == {Achieves(n, s[i]) : i \in Places}
  <1>1. Scale \in Nat /\ 1 \in Places
    BY EliteInPool, PoolAssumption DEF Places
  <1>2. ASSUME NEW i \in Places PROVE Achieves(n, s[i]) \in 0..Scale
    <2>1. s[i].gene \in Genes /\ s[i].feedback \in Int
      BY <1>1 DEF Pool, Formula
    <2>2. Score[n] \in [Genes -> 0..Scale]
      BY PoolAssumption
    <2>3. Score[n][s[i].gene] \in 0..Scale
      BY <2>1, <2>2
    <2> QED BY <1>1, <2>1, <2>3 DEF Achieves, Clamp
  <1>3. S \in SUBSET (0..Scale) /\ S # {}
    BY <1>1, <1>2
  <1>4. PICK m \in S : \A y \in S : m >= y
    BY <1>1, <1>3, GreatestExists
  <1>5. \A i \in Places : Achieves(n, s[i]) \in S
    OBVIOUS
  <1>6. m \in Int /\ \A i \in Places : Achieves(n, s[i]) <= m
    BY <1>2, <1>3, <1>4, <1>5
  <1>7. BestOf(n, s) \in S /\ \A i \in Places : Achieves(n, s[i]) <= BestOf(n, s)
    BY <1>6 DEF BestOf
  <1> QED BY <1>1, <1>3, <1>7

\* A pool that holds a match for whatever another achieves is as good as it.
LEMMA BestGrows ==
    ASSUME NEW n \in 0..MaxExamples, NEW s \in Pool, NEW t \in Pool,
           \A i \in Places : \E j \in Places : Achieves(n, t[j]) >= Achieves(n, s[i])
    PROVE  BestOf(n, t) >= BestOf(n, s)
  <1>1. PICK i \in Places : BestOf(n, s) = Achieves(n, s[i])
    BY BestAttained
  <1>2. PICK j \in Places : Achieves(n, t[j]) >= Achieves(n, s[i])
    OBVIOUS
  <1>3. /\ BestOf(n, s) \in Int /\ BestOf(n, t) \in Int
        /\ Achieves(n, t[j]) <= BestOf(n, t)
    BY BestAttained
  <1>4. Achieves(n, t[j]) \in Int
    <2>1. \E m \in Int : Achieves(n, t[j]) = m
      <3>0. Scale \in Nat /\ t[j] \in Formula
        BY PoolAssumption DEF Pool
      <3>1. t[j].gene \in Genes /\ t[j].feedback \in Int
        BY <3>0 DEF Formula
      <3>2. Score[n] \in [Genes -> 0..Scale]
        BY PoolAssumption
      <3>3. Score[n][t[j].gene] \in Int
        BY <3>0, <3>1, <3>2
      <3> QED BY <3>0, <3>1, <3>3 DEF Achieves, Clamp
    <2> QED BY <2>1
  <1> QED BY <1>1, <1>2, <1>3, <1>4

-----------------------------------------------------------------------------
(* The results *)

\* The pool keeps its types and limits, and is ranked in the middle of a tick too.
THEOREM Inductive == Spec => []IInv
  BY InvInit, InvStep, PTL DEF Spec

\* kf_pool_best names one of the fittest formulas, whatever mixture of ticks,
\* teaching and feedback came before.
THEOREM FirstIsBest == Spec => []BestFirst
  <1>1. IInv => BestFirst
    BY DEF IInv, BestFirst
  <1> QED BY <1>1, Inductive, PTL

\* No question is held twice, through updates and evictions.
THEOREM OneAnswer == Spec => []OneAnswerPerQuestion
  <1>1. IInv => OneAnswerPerQuestion
    BY DEF IInv
  <1> QED BY <1>1, Inductive, PTL

\* With the same examples and feedback, the best a pool achieves never gets worse.
THEOREM GroundIsKept == Spec => NeverWorse
  <1>1. ASSUME IInv, [Next]_vars, examples' = examples, marks' = marks
        PROVE  MaxOf(formulas)' >= MaxOf(formulas)
    <2>0. TypeOK /\ formulas \in Pool /\ examples \in 0..MaxExamples /\ TypeOK'
      BY <1>1, InvStep DEF IInv, TypeOK, Pool, Places
    <2>1. formulas' \in Pool
      BY <2>0 DEF TypeOK, Pool, Places
    <2>2. MaxOf(formulas)' = BestOf(examples, formulas')
      BY <1>1 DEF MaxOf, BestOf, Evaluated, Achieves, Places
    <2>3. \A i \in Places : Achieves(examples, formulas[i]) \in Int
      <3> TAKE i \in Places
      <3>1. Scored[i].fitness = Evaluated(formulas[i]) /\ Scored[i].fitness \in Int
        BY <2>0, ScoredEntries, PoolAssumption
      <3> QED BY <3>1 DEF Evaluated, Achieves
    <2>4. \A i \in Places : \E j \in Places :
              Achieves(examples, formulas'[j]) >= Achieves(examples, formulas[i])
      <3>1. CASE formulas' = formulas
        BY <2>3, <3>1
      <3>2. CASE Generation
        <4>1. 1 \in Places
          BY EliteInPool DEF Places
        <4>2. \A i \in Places : Evaluated(formulas'[1]) >= Evaluated(formulas[i])
          BY <2>0, <3>2, GenerationStep
        <4> QED BY <4>1, <4>2 DEF Evaluated, Achieves
      <3>3. CASE EndTick /\ associations # <<>>
        <4> TAKE i \in Places
        <4>1. PICK j \in Places : /\ formulas'[j].gene = formulas[i].gene
                                  /\ formulas'[j].feedback = formulas[i].feedback
          BY <2>0, <3>3, EndTickStep
        <4>2. Achieves(examples, formulas'[j]) = Achieves(examples, formulas[i])
          BY <4>1 DEF Achieves
        <4> QED BY <2>3, <4>2
      <3>4. ASSUME NEW g \in Genes, NEW delta \in {-1, 1}, Feedback(g, delta) PROVE FALSE
        BY <1>1, <2>0, <3>4 DEF Feedback, TypeOK
      <3> QED BY <1>1, <3>1, <3>2, <3>3, <3>4
              DEF Next, AddExample, AddAssociation, ClearExamples, StartTick, EndTick, vars
    <2> QED BY <2>0, <2>1, <2>2, <2>4, BestGrows, MaxSpelled
  <1>2. IInv /\ [Next]_vars =>
          [examples' = examples /\ marks' = marks => MaxOf(formulas)' >= MaxOf(formulas)]_vars
    BY <1>1
  <1> QED BY <1>2, Inductive, PTL DEF Spec, NeverWorse

\* A tick ends with one of the fittest formulas knowing the pool's associations.
THEOREM BestIsTaught == Spec => BestLearns
  <1>1. ASSUME IInv, [Next]_vars, phase = "evolving", phase' = "idle", associations # <<>>
        PROVE  \E i \in 1..Count :
                  formulas'[i].assocs = Dataset /\ formulas'[i].fitness = formulas'[1].fitness
    <2>1. EndTick /\ left = 0
      BY <1>1 DEF Next, AddExample, AddAssociation, ClearExamples, StartTick, Generation, EndTick,
                  Feedback, vars
    <2>2. TypeOK /\ \A i \in Places : formulas[i].fitness <= Scale
      BY <1>1, <2>1 DEF IInv, Settled, Places
    <2>3. /\ formulas' \in Pool /\ Ranked(formulas')
          /\ \A i \in Places : formulas'[i].fitness = Scale
                                 \/ \E j \in Places : formulas'[i].fitness = formulas[j].fitness
      BY <1>1, <2>1, <2>2, EndTickStep
    <2>4. PICK i \in Places : formulas'[i].assocs = Dataset /\ formulas'[i].fitness = Scale
      BY <1>1, <2>1, <2>2, EndTickStep
    <2>5. 1 \in Places /\ Scale \in Int
      BY EliteInPool, PoolAssumption DEF Places
    <2>6. formulas'[1].fitness >= formulas'[i].fitness
      BY <2>3, RankedFirst
    <2>7. formulas'[1].fitness \in Int
      BY <2>3, <2>5 DEF Pool, Formula
    <2>8. formulas'[1].fitness <= Scale
      BY <2>2, <2>3, <2>5
    <2>9. formulas'[1].fitness = Scale
      BY <2>4, <2>5, <2>6, <2>7, <2>8
    <2> QED BY <2>4, <2>9 DEF Places
  <1>2. IInv /\ [Next]_vars =>
          [phase = "evolving" /\ phase' = "idle" /\ associations # <<>> =>
              \E i \in 1..Count :
                  /\ formulas'[i].assocs = Dataset
                  /\ formulas'[i].fitness = formulas'[1].fitness]_vars
    BY <1>1
  <1> QED BY <1>2, Inductive, PTL DEF Spec, BestLearns


Doings == {"waiting", "teach", "tick", "auto", "import", "script"}

\* The invariant falls into what it says of the pool, ...
PoolInv == TypeOK /\ RankedWhenAsked /\ OneAnswerPerQuestion /\ Dated

\* ... of the command at work and the answer that may be judged, ...
DoingInv ==
    /\ doing \in Doings
    /\ lastAnswer # <<>> => lastAnswer.gene \in Genes /\ lastAnswer.q \in Inputs
    /\ lastAnswer \in {<<>>, seen} \/ doing \in {"teach", "tick"}
    /\ phase = "evolving" => doing \in {"tick", "auto", "import", "script"}

\* ... of the journal, and of formulas with unset associations.
BooksInv ==
    /\ journal \in [Kinds -> Nat] /\ lost \in [Kinds -> Nat]
    /\ AllLost <= MaxLost
    /\ unlogged \in Nat /\ boots \in 0..MaxBoots
    /\ ChangesAreRecorded

\* The invariant, in the parts that the lemmas keep one by one.
LEMMA InvInParts == NodeIInv <=> PoolInv /\ DoingInv /\ BooksInv /\ JunkIsNotBred
  BY DEF NodeIInv, NodeOK, PoolInv, DoingInv, BooksInv, Doings

-----------------------------------------------------------------------------
(* The pool inside the node *)

\* A pool drawn anew.
LEMMA FreshPool ==
    ASSUME NEW s \in Seeds, NEW fs, fs = [i \in 1..Count |-> NewFormula(s[i])]
    PROVE  /\ fs \in [1..Count -> Formula] /\ Ranked(fs)
           /\ \A i \in 1..Count : fs[i].fitness >= 0 /\ Len(fs[i].assocs) <= FormulaLimit
           /\ \A i \in 1..Count : fs[i].assocs = <<>>
  <1>1. /\ Count \in Nat /\ FormulaLimit \in Nat
        /\ 0 \in -Scale..Scale /\ s \in [1..Count -> Genes]
    BY PoolAssumption
  <1>2. ASSUME NEW i \in 1..Count
        PROVE  fs[i] \in Formula /\ fs[i].fitness = 0 /\ fs[i].assocs = <<>>
    BY <1>1 DEF NewFormula, Formula
  <1>3. fs \in [1..Count -> Formula]
    BY <1>2
  <1>4. Len(<<>>) <= FormulaLimit
    BY <1>1
  <1>5. \A i \in 1..Count : fs[i].fitness >= 0 /\ Len(fs[i].assocs) <= FormulaLimit
    BY <1>2, <1>4
  <1>6. Ranked(fs)
    <2>1. \A i \in Places : i < Count => i + 1 \in Places
      BY <1>1 DEF Places
    <2>2. \A i \in Places : i < Count => fs[i].fitness >= fs[i + 1].fitness
      BY <1>2, <2>1 DEF Places
    <2>3. fs \in Pool
      BY <1>3 DEF Pool, Places
    <2> QED BY <2>2, <2>3, RankedSpelled
  <1> QED BY <1>2, <1>3, <1>5, <1>6

\* A formula a neighbour may send.
LEMMA PeerFormula ==
    ASSUME NEW g \in PeerGenes, NEW fitness \in 0..Scale,
           NEW junk \in {<<>>} \cup {<<a>> : a \in [q: Questions, a: Answers, at: {0}]}
    PROVE  /\ [gene |-> g, fitness |-> fitness, feedback |-> 0, assocs |-> junk] \in Formula
           /\ Len(junk) <= FormulaLimit
  <1>1. g \in Genes /\ 0 \in -Scale..Scale /\ fitness \in Int /\ FormulaLimit \in Nat /\ FormulaLimit >= 1
    BY PoolAssumption, NodeAssumption
  <1>2. junk \in Seq(Association) /\ Len(junk) <= 1
    <2>1. CASE junk = <<>>
      BY <2>1
    <2>2. ASSUME NEW a \in [q: Questions, a: Answers, at: {0}], junk = <<a>>
          PROVE  junk \in Seq(Association) /\ Len(junk) <= 1
      <3>1. a \in Association
        BY DEF Association
      <3> QED BY <2>2, <3>1
    <2> QED BY <2>1, <2>2
  <1>3. Len(junk) \in Nat
    BY <1>2
  <1> QED BY <1>1, <1>2, <1>3 DEF Formula

\* The steps the node takes, each in terms of the pool's actions.
LEMMA PoolSteps ==
    ASSUME [NodeNext]_nodeVars
    PROVE  \/ Restart
           \/ UNCHANGED vars
           \/ \E delta \in {-1, 1} : lastAnswer # <<>> /\ Feedback(lastAnswer.gene, delta)
           \/ AddExample
           \/ StartTick(1)
           \/ \E g \in PeerGenes, fitness \in 0..Scale : Import(g, fitness)
           \/ Generation
           \/ EndTick
           \/ \E q \in Questions, a \in Answers : AddAssociation(q, a)
  BY DEF NodeNext, nodeVars, Ask, Rate, Rated, RateGone, Teach, TeachTick, TakeNoteOrShare, Evolve, PoolStep,
         Evolved, StartScript, ScriptStep, ScriptDone, ScriptFailed

\* No entry loses its time as another is stored.
LEMMA StoredAges ==
    ASSUME NEW s \in Seq(Association), Len(s) <= PoolLimit, \A k \in DOMAIN s : s[k].at > 0,
           NEW new \in Association, new.at > 0
    PROVE  \A k \in DOMAIN Stored(s, new) : Stored(s, new)[k].at > 0
  <1> DEFINE known == {i \in DOMAIN s : s[i].q = new.q}
             n == Len(s)
             t == Stored(s, new)
  <1>0. n \in Nat /\ n <= PoolLimit /\ PoolLimit \in Nat /\ PoolLimit >= 1 /\ DOMAIN s = 1..n
    BY PoolAssumption
  <1>1. CASE known # {}
    <2>1. t = [s EXCEPT ![Min(known)] = new]
      BY <1>1 DEF Stored
    <2> QED BY <2>1
  <1>2. CASE known = {} /\ n < PoolLimit
    <2>1. t = Append(s, new)
      BY <1>2 DEF Stored
    <2>2. DOMAIN t = 1..n + 1 /\ (\A i \in 1..n : t[i] = s[i]) /\ t[n + 1] = new
      BY <2>1
    <2> QED BY <1>0, <2>2
  <1>3. CASE known = {} /\ ~(n < PoolLimit)
    <2>1. t = Append(Tail(s), new)
      BY <1>3 DEF Stored
    <2>2. s # <<>>
      <3>1. ~(n < PoolLimit)
        BY <1>3
      <3>2. s = <<>> => n = 0
        OBVIOUS
      <3> HIDE DEF n
      <3> QED BY <1>0, <3>1, <3>2
    <2>3. /\ Tail(s) \in Seq(Association) /\ Len(Tail(s)) = n - 1
          /\ \A i \in 1..n - 1 : Tail(s)[i] = s[i + 1]
      BY <2>2, HeadTailProperties
    <2>4. DOMAIN t = 1..n /\ (\A i \in 1..n - 1 : t[i] = Tail(s)[i]) /\ t[n] = new
      BY <1>0, <2>1, <2>3
    <2>5. \A i \in 1..n - 1 : t[i].at > 0
      <3> SUFFICES ASSUME NEW i \in 1..n - 1 PROVE t[i].at > 0
        OBVIOUS
      <3>1. i + 1 \in 1..n /\ t[i] = s[i + 1]
        BY <1>0, <2>3, <2>4
      <3> HIDE DEF t
      <3> QED BY <1>0, <3>1
    <2> QED BY <1>0, <2>4, <2>5
  <1> QED BY <1>1, <1>2, <1>3

\* Every step keeps the pool a pool, best first when somebody may ask, ...
LEMMA NodePoolStep ==
    ASSUME PoolInv, DoingInv, [NodeNext]_nodeVars
    PROVE  PoolInv'
  <1>0. /\ TypeOK /\ (phase = "idle" \/ left = 0 => Ranked(formulas))
        /\ OneAnswerPerQuestion /\ Dated
        /\ MaxExamples \in Nat /\ examples \in 0..MaxExamples
        /\ PoolLimit \in Nat /\ 0 <= PoolLimit
        /\ Count \in Nat /\ FormulaLimit \in Nat
    BY PoolAssumption DEF PoolInv, RankedWhenAsked, TypeOK
  <1>a. ASSUME UNCHANGED associations PROVE OneAnswerPerQuestion' /\ Dated'
    BY <1>0, <1>a DEF OneAnswerPerQuestion, Dated
  <1>1. ASSUME formulas' \in Pool, Sound(formulas')
        PROVE  /\ formulas' \in [1..Count -> Formula]
               /\ \A i \in 1..Count : formulas'[i].fitness >= 0 /\ Len(formulas'[i].assocs) <= FormulaLimit
    BY <1>1 DEF Pool, Sound, Places
  <1>2. CASE Restart
    <2>1. PICK s \in Seeds : formulas' = [i \in 1..Count |-> NewFormula(s[i])]
      BY <1>2 DEF Restart
    <2>2. /\ formulas' \in [1..Count -> Formula] /\ Ranked(formulas')
          /\ \A i \in 1..Count : formulas'[i].fitness >= 0 /\ Len(formulas'[i].assocs) <= FormulaLimit
      BY <2>1, FreshPool
    <2>3. examples' \in 0..MaxExamples
      BY <1>0, <1>2 DEF Restart
    <2>4. associations' \in Seq(Association) /\ Len(associations') = 0
      BY <1>2 DEF Restart
    <2>5. TypeOK'
      BY <1>0, <1>2, <2>2, <2>3, <2>4 DEF Restart, TypeOK
    <2>6. OneAnswerPerQuestion' /\ Dated'
      BY <2>4 DEF OneAnswerPerQuestion, Dated
    <2> QED BY <2>2, <2>5, <2>6 DEF PoolInv, RankedWhenAsked
  <1>3. CASE UNCHANGED vars
    BY <1>0, <1>3, <1>a DEF vars, PoolInv, RankedWhenAsked, TypeOK, Ranked
  <1>4. ASSUME NEW delta \in {-1, 1}, lastAnswer # <<>>, Feedback(lastAnswer.gene, delta)
        PROVE  PoolInv'
    <2>1. lastAnswer.gene \in Genes /\ phase = "idle"
      BY <1>4 DEF DoingInv, Feedback
    <2>2. formulas' \in Pool /\ Sound(formulas') /\ Ranked(formulas')
      BY <1>0, <1>4, <2>1, FeedbackStep
    <2>3. marks' \in Nat
      BY <1>0, <1>4 DEF Feedback, TypeOK
    <2>4. TypeOK'
      BY <1>0, <1>1, <1>4, <2>2, <2>3 DEF Feedback, TypeOK
    <2> QED BY <1>4, <1>a, <2>2, <2>4 DEF Feedback, PoolInv, RankedWhenAsked
  <1>5. CASE AddExample
    <2>1. examples' \in 0..MaxExamples
      BY <1>0, <1>5 DEF AddExample
    <2> QED BY <1>0, <1>5, <1>a, <2>1 DEF AddExample, PoolInv, RankedWhenAsked, TypeOK, Ranked
  <1>6. CASE StartTick(1)
    <2>1. left' = 1 /\ phase' = "evolving" /\ ticks' \in Nat
      BY <1>0, <1>6 DEF StartTick, TypeOK
    <2> QED BY <1>0, <1>6, <1>a, <2>1 DEF StartTick, PoolInv, RankedWhenAsked, TypeOK
  <1>7. ASSUME NEW g \in PeerGenes, NEW fitness \in 0..Scale, Import(g, fitness)
        PROVE  PoolInv'
    <2>1. PICK junk \in {<<>>} \cup {<<a>> : a \in [q: Questions, a: Answers, at: {0}]} :
              formulas' = [formulas EXCEPT ![Count] =
                  [gene |-> g, fitness |-> fitness, feedback |-> 0, assocs |-> junk]]
      BY <1>7 DEF Import
    <2> DEFINE f == [gene |-> g, fitness |-> fitness, feedback |-> 0, assocs |-> junk]
    <2>2. f \in Formula /\ Len(f.assocs) <= FormulaLimit /\ f.fitness >= 0
      BY PeerFormula, PoolAssumption
    <2>3. formulas' = [formulas EXCEPT ![Count] = f]
      BY <2>1
    <2> HIDE DEF f
    <2>4. /\ formulas' \in [1..Count -> Formula]
          /\ \A i \in 1..Count : formulas'[i].fitness >= 0 /\ Len(formulas'[i].assocs) <= FormulaLimit
      BY <1>0, <2>2, <2>3 DEF TypeOK
    <2>5. left' = 1 /\ phase' = "evolving" /\ ticks' \in Nat
      BY <1>0, <1>7 DEF Import, TypeOK
    <2>6. TypeOK'
      BY <1>0, <1>7, <2>4, <2>5 DEF Import, TypeOK
    <2> QED BY <1>7, <1>a, <2>5, <2>6 DEF Import, PoolInv, RankedWhenAsked
  <1>8. CASE Generation
    <2>1. formulas' \in Pool /\ Sound(formulas') /\ Ranked(formulas')
      BY <1>0, <1>8, GenerationStep
    <2>2. left' \in Nat
      BY <1>0, <1>8 DEF Generation, TypeOK
    <2>3. TypeOK'
      BY <1>0, <1>1, <1>8, <2>1, <2>2 DEF Generation, TypeOK
    <2> QED BY <1>8, <1>a, <2>1, <2>3 DEF Generation, PoolInv, RankedWhenAsked
  <1>9. CASE EndTick
    <2>1. formulas' \in Pool /\ Sound(formulas') /\ Ranked(formulas')
      <3>1. CASE associations = <<>>
        BY <1>0, <1>9, <3>1 DEF EndTick, TypeOK, Pool, Sound, Places
      <3>2. CASE associations # <<>>
        BY <1>0, <1>9, <3>2, EndTickStep
      <3> QED BY <3>1, <3>2
    <2>2. TypeOK'
      BY <1>0, <1>1, <1>9, <2>1 DEF EndTick, TypeOK
    <2> QED BY <1>9, <1>a, <2>1, <2>2 DEF EndTick, PoolInv, RankedWhenAsked
  <1>10. ASSUME NEW q \in Questions, NEW a \in Answers, AddAssociation(q, a)
         PROVE  PoolInv'
    <2> DEFINE new == [q |-> q, a |-> a, at |-> told + 1]
    <2>1. examples' \in 0..MaxExamples
      BY <1>0, <1>10 DEF AddAssociation, OneMoreExample
    <2>2. told + 1 \in Nat /\ told' = told + 1
      BY <1>0, <1>10 DEF TypeOK, AddAssociation
    <2>3. new \in Association /\ new.at > 0
      BY <1>0, <2>2 DEF Association, TypeOK
    <2>4. associations' = Stored(associations, new)
      BY <1>10, <2>2 DEF AddAssociation
    <2>5. associations \in Seq(Association) /\ Len(associations) <= PoolLimit
      BY <1>0 DEF TypeOK
    <2> HIDE DEF new
    <2>6. associations' \in Seq(Association) /\ Len(associations') <= PoolLimit /\ Distinct(associations')
      BY <1>0, <2>3, <2>4, <2>5, StoredEntries DEF OneAnswerPerQuestion, Distinct
    <2>7. TypeOK'
      BY <1>0, <1>10, <2>1, <2>2, <2>6 DEF AddAssociation, TypeOK
    <2>8. RankedWhenAsked'
      BY <1>0, <1>10 DEF AddAssociation, RankedWhenAsked
    <2>9. Dated'
      BY <1>0, <2>3, <2>4, <2>5, StoredAges DEF Dated
    <2>10. OneAnswerPerQuestion'
      BY <2>6 DEF OneAnswerPerQuestion, Distinct
    <2> QED BY <2>7, <2>8, <2>9, <2>10 DEF PoolInv
  <1> QED BY <1>2, <1>3, <1>4, <1>5, <1>6, <1>7, <1>8, <1>9, <1>10, PoolSteps

-----------------------------------------------------------------------------
(* The command and the answer *)

\* The answer to be judged is the one the user saw last, unless a cycle he asked for
\* has begun since.
LEMMA NodeDoingStep ==
    ASSUME PoolInv, DoingInv, [NodeNext]_nodeVars
    PROVE  DoingInv'
  <1> USE DEF DoingInv, Doings
  <1>1. CASE Restart
    BY <1>1 DEF Restart
  <1>2. ASSUME NEW x \in Inputs, Ask(x) PROVE DoingInv'
    <2>1. 1 \in 1..Count /\ formulas \in [1..Count -> Formula]
      BY EliteInPool DEF PoolInv, TypeOK
    <2>2. formulas[1].gene \in Genes
      BY <2>1 DEF Formula
    <2> QED BY <1>2, <2>2 DEF Ask, Waiting, vars
  <1>3. ASSUME NEW delta \in {-1, 1}, Rate(delta) PROVE DoingInv'
    BY <1>3 DEF Rate, Waiting, Feedback
  <1>4. CASE RateGone
    BY <1>4 DEF RateGone, Waiting, vars
  <1>5. CASE Teach
    BY <1>5 DEF Teach, Waiting, AddExample
  <1>6. CASE TeachTick
    BY <1>6 DEF TeachTick, StartTick
  <1>7. CASE TakeNoteOrShare
    BY <1>7 DEF TakeNoteOrShare, vars
  <1>8. ASSUME NEW kind \in {"tick", "auto"}, Evolve(kind) PROVE DoingInv'
    BY <1>8 DEF Evolve, Waiting, StartTick
  <1>9. ASSUME NEW g \in PeerGenes, NEW fitness \in 0..Scale, Import(g, fitness) PROVE DoingInv'
    BY <1>9 DEF Import, Waiting
  <1>10. CASE PoolStep
    BY <1>10 DEF PoolStep, Generation
  <1>11. CASE Evolved
    BY <1>11 DEF Evolved, EndTick, Kept
  <1>12. CASE StartScript
    BY <1>12 DEF StartScript, Waiting, vars
  <1>13. CASE ScriptStep
    BY <1>13 DEF ScriptStep, AddAssociation, StartTick, EndTick
  <1>14. CASE ScriptDone
    BY <1>14 DEF ScriptDone, vars
  <1>15. CASE ScriptFailed
    BY <1>15 DEF ScriptFailed, vars
  <1>16. CASE UNCHANGED nodeVars
    BY <1>16 DEF nodeVars, vars
  <1> QED BY <1>1, <1>2, <1>3, <1>4, <1>5, <1>6, <1>7, <1>8, <1>9, <1>10, <1>11, <1>12, <1>13, <1>14,
             <1>15, <1>16 DEF NodeNext

-----------------------------------------------------------------------------
(* The journal *)

\* What was logged, or lost, is a number.
LEMMA LoggedIsNumber ==
    ASSUME journal \in [Kinds -> Nat], lost \in [Kinds -> Nat]
    PROVE  \A kind \in Kinds : Logged(kind) \in Nat
  BY DEF Logged

\* An event counts one of its kind, whether the genome could take it or not.
LEMMA RecordStep ==
    ASSUME journal \in [Kinds -> Nat], lost \in [Kinds -> Nat], AllLost <= MaxLost,
           NEW kind \in Kinds, Record(kind)
    PROVE  /\ journal' \in [Kinds -> Nat] /\ lost' \in [Kinds -> Nat]
           /\ AllLost' <= MaxLost
           /\ \A k \in Kinds : Logged(k)' = IF k = kind THEN Logged(k) + 1 ELSE Logged(k)
  <1>1. CASE journal' = [journal EXCEPT ![kind] = @ + 1] /\ UNCHANGED lost
    BY <1>1 DEF AllLost, Logged
  <1>2. CASE AllLost < MaxLost /\ lost' = [lost EXCEPT ![kind] = @ + 1] /\ UNCHANGED journal
    <2>1. lost' \in [Kinds -> Nat] /\ \A k \in Kinds : lost'[k] = IF k = kind THEN lost[k] + 1 ELSE lost[k]
      BY <1>2
    <2>2. \A k \in Kinds : Logged(k)' = IF k = kind THEN Logged(k) + 1 ELSE Logged(k)
      BY <1>2, <2>1 DEF Logged
    <2>3. AllLost' = AllLost + 1
      BY <2>1 DEF AllLost, Kinds
    <2>4. AllLost \in Nat /\ MaxLost \in Nat
      BY NodeAssumption DEF AllLost, Kinds
    <2> QED BY <1>2, <2>1, <2>2, <2>3, <2>4
  <1> QED BY <1>1, <1>2 DEF Record

\* ... and the journal in agreement with the pool, but for failed appends;
LEMMA NodeBooksStep ==
    ASSUME PoolInv, DoingInv, BooksInv, [NodeNext]_nodeVars
    PROVE  BooksInv'
  <1>0. /\ journal \in [Kinds -> Nat] /\ lost \in [Kinds -> Nat] /\ AllLost <= MaxLost
        /\ unlogged \in Nat /\ boots \in 0..MaxBoots /\ MaxBoots \in Nat
        /\ ticks \in Nat /\ marks \in Nat
        /\ ticks = Logged("EVOLVE") + Logged("IMPORT") + unlogged + Ticking
        /\ marks = Logged("USER_FEEDBACK")
    BY NodeAssumption DEF BooksInv, PoolInv, TypeOK, ChangesAreRecorded
  <1>a. \A kind \in Kinds : Logged(kind) \in Nat
    BY <1>0, LoggedIsNumber
  <1>k. {"TEACH", "EVOLVE", "IMPORT", "USER_FEEDBACK", "OTHER"} \subseteq Kinds
    BY DEF Kinds
  <1>b. ASSUME NEW kind \in Kinds, Record(kind)
        PROVE  /\ journal' \in [Kinds -> Nat] /\ lost' \in [Kinds -> Nat] /\ AllLost' <= MaxLost
               /\ \A k \in Kinds : Logged(k)' = IF k = kind THEN Logged(k) + 1 ELSE Logged(k)
    BY <1>0, <1>b, RecordStep
  <1>c. ASSUME UNCHANGED <<journal, lost>>
        PROVE  /\ journal' \in [Kinds -> Nat] /\ lost' \in [Kinds -> Nat] /\ AllLost' <= MaxLost
               /\ \A k \in Kinds : Logged(k)' = Logged(k)
    BY <1>0, <1>c DEF AllLost, Logged
  <1>1. CASE Restart
    <2>1. /\ boots' \in 0..MaxBoots /\ doing' = "waiting" /\ ticks' = ticks /\ marks' = marks
          /\ unlogged' = IF doing \in {"tick", "auto", "import"} THEN unlogged + 1 ELSE unlogged
          /\ Record("OTHER")
      BY <1>0, <1>1 DEF Restart
    <2> QED BY <1>0, <1>a, <1>b, <1>k, <2>1 DEF BooksInv, ChangesAreRecorded, Ticking
  <1>2. CASE Record("OTHER") /\ UNCHANGED <<ticks, marks, unlogged, boots>> /\ Ticking' = Ticking
    BY <1>0, <1>a, <1>b, <1>k, <1>2 DEF BooksInv, ChangesAreRecorded
  <1>3. ASSUME NEW delta \in {-1, 1}, Rate(delta) PROVE BooksInv'
    <2>1. /\ marks' = marks + 1 /\ Record("USER_FEEDBACK")
          /\ UNCHANGED <<ticks, unlogged, boots, doing>>
      BY <1>3 DEF Rate, Feedback
    <2> QED BY <1>0, <1>a, <1>b, <1>k, <2>1 DEF BooksInv, ChangesAreRecorded, Ticking
  <1>4. CASE UNCHANGED <<journal, lost, ticks, marks, unlogged, boots>> /\ Ticking' = Ticking
    BY <1>0, <1>a, <1>c, <1>k, <1>4 DEF BooksInv, ChangesAreRecorded
  <1>5. CASE Teach
    <2>1. /\ Record("TEACH") /\ UNCHANGED <<ticks, marks, unlogged, boots>>
          /\ Ticking = 0 /\ Ticking' = 0
      BY <1>5 DEF Teach, Waiting, AddExample, Ticking
    <2> QED BY <1>0, <1>a, <1>b, <1>k, <2>1 DEF BooksInv, ChangesAreRecorded
  <1>6. CASE /\ UNCHANGED <<journal, lost, marks, unlogged, boots>>
             /\ ticks' = ticks + 1 /\ Ticking = 0 /\ Ticking' = 1
    BY <1>0, <1>a, <1>c, <1>k, <1>6 DEF BooksInv, ChangesAreRecorded
  <1>7. CASE Evolved
    <2>1. /\ Record(EventOf(doing)) /\ UNCHANGED <<ticks, marks, unlogged, boots>>
          /\ Ticking = 1 /\ Ticking' = 0
          /\ EventOf(doing) \in {"IMPORT", "EVOLVE"}
      BY <1>7 DEF Evolved, EndTick, Ticking, EventOf
    <2> QED BY <1>0, <1>a, <1>b, <1>k, <2>1 DEF BooksInv, ChangesAreRecorded
  <1>8. CASE ScriptStep
    <2>1. CASE StartTick(1) /\ unlogged' = unlogged + 1
      BY <1>0, <1>a, <1>c, <1>k, <1>8, <2>1 DEF ScriptStep, StartTick, BooksInv, ChangesAreRecorded, Ticking
    <2>2. CASE UNCHANGED <<ticks, marks, unlogged>>
      BY <1>0, <1>a, <1>c, <1>k, <1>8, <2>2 DEF ScriptStep, BooksInv, ChangesAreRecorded, Ticking
    <2> QED BY <1>8, <2>1, <2>2 DEF ScriptStep, AddAssociation, EndTick
  <1>9. ASSUME NEW x \in Inputs, Ask(x) PROVE BooksInv'
    BY <1>2, <1>9 DEF Ask, vars, Ticking
  <1>10. ASSUME NEW kind \in {"tick", "auto"}, Evolve(kind) PROVE BooksInv'
    BY <1>6, <1>10 DEF Evolve, Waiting, StartTick, Ticking
  <1>11. ASSUME NEW g \in PeerGenes, NEW fitness \in 0..Scale, Import(g, fitness) PROVE BooksInv'
    BY <1>6, <1>11 DEF Import, Waiting, Ticking
  <1>12. CASE TeachTick
    BY <1>6, <1>12 DEF TeachTick, StartTick, Ticking
  <1>13. CASE TakeNoteOrShare \/ ScriptDone
    BY <1>2, <1>13 DEF TakeNoteOrShare, ScriptDone, vars, Ticking
  <1>14. CASE RateGone \/ PoolStep \/ StartScript \/ ScriptFailed \/ UNCHANGED nodeVars
    BY <1>4, <1>14 DEF RateGone, PoolStep, Generation, Waiting, StartScript, ScriptFailed, nodeVars, vars, Ticking
  <1> QED BY <1>1, <1>3, <1>5, <1>7, <1>8, <1>9, <1>10, <1>11, <1>12, <1>13, <1>14 DEF NodeNext

-----------------------------------------------------------------------------
(* Formulas with unset associations *)

JunkFormulas == {f \in Formula : \E k \in DOMAIN f.assocs : f.assocs[k].at = 0}
JunkIn(s) == {i \in 1..Count : \E k \in DOMAIN s[i].assocs : s[i].assocs[k].at = 0}

\* The junk in a pool can be counted.
LEMMA JunkHeld ==
    ASSUME NEW s \in Pool
    PROVE  /\ JunkIn(s) = Holding(s, JunkFormulas)
           /\ IsFiniteSet(JunkIn(s)) /\ Cardinality(JunkIn(s)) \in Nat
  <1>1. JunkIn(s) = Holding(s, JunkFormulas)
    BY DEF JunkIn, Holding, JunkFormulas, Pool, Places
  <1> QED BY <1>1, HoldingIsFinite

\* Formulas that hold no unset associations but where others did have no more.
LEMMA NoMoreJunk ==
    ASSUME NEW s \in Pool, NEW t \in Pool, JunkIn(t) \subseteq JunkIn(s)
    PROVE  Cardinality(JunkIn(t)) <= Cardinality(JunkIn(s))
  BY JunkHeld, FS_Subset

\* Sorting neither adds junk nor loses any.
LEMMA SortedJunk ==
    ASSUME NEW s \in Pool, NEW t \in Sorted(s)
    PROVE  Cardinality(JunkIn(t)) = Cardinality(JunkIn(s))
  <1>1. t \in Pool
    BY SortedEntries
  <1>2. JunkIn(t) = Holding(t, JunkFormulas) /\ JunkIn(s) = Holding(s, JunkFormulas)
    BY <1>1, JunkHeld
  <1> QED BY <1>2, SortedHolds

\* What breeds keeps its associations to itself.
LEMMA GenerationJunk ==
    ASSUME TypeOK, Generation
    PROVE  Cardinality(JunkIn(formulas')) <= Cardinality(JunkIn(formulas))
  <1>1. PICK s \in Sorted(Scored) : formulas' \in Bred(SubSeq(s, 1, Elite))
    BY DEF Generation
  <1>2. Scored \in Pool /\ formulas \in Pool
    BY ScoredEntries DEF TypeOK, Pool, Places
  <1>3. s \in Pool
    BY <1>2, SortedEntries
  <1>4. /\ formulas' \in Pool
        /\ \A i \in Places : formulas'[i] = s[i] \/ formulas'[i].assocs = <<>>
    BY <1>1, <1>3, BredEntries
  <1>5. JunkIn(formulas') \subseteq JunkIn(s)
    BY <1>4 DEF JunkIn, Places
  <1>6. JunkIn(Scored) \subseteq JunkIn(formulas)
    <2>1. \A i \in Places : Scored[i].assocs = formulas[i].assocs
      BY <1>2 DEF Scored, Pool, Places, Formula
    <2> QED BY <2>1 DEF JunkIn, Places
  <1>7. /\ Cardinality(JunkIn(formulas')) <= Cardinality(JunkIn(s))
        /\ Cardinality(JunkIn(s)) = Cardinality(JunkIn(Scored))
        /\ Cardinality(JunkIn(Scored)) <= Cardinality(JunkIn(formulas))
    BY <1>2, <1>3, <1>4, <1>5, <1>6, NoMoreJunk, SortedJunk
  <1>8. /\ Cardinality(JunkIn(formulas')) \in Nat /\ Cardinality(JunkIn(s)) \in Nat
        /\ Cardinality(JunkIn(Scored)) \in Nat /\ Cardinality(JunkIn(formulas)) \in Nat
    BY <1>2, <1>3, <1>4, JunkHeld
  <1> QED BY <1>7, <1>8

\* What is taught has a time.
LEMMA EndTickJunk ==
    ASSUME TypeOK, Dated, EndTick
    PROVE  Cardinality(JunkIn(formulas')) <= Cardinality(JunkIn(formulas))
  <1>0. formulas \in Pool
    BY DEF TypeOK, Pool, Places
  <1>1. CASE associations = <<>>
    <2>1. formulas' = formulas
      BY <1>1 DEF EndTick
    <2> QED BY <1>0, <2>1, NoMoreJunk
  <1>2. CASE associations # <<>>
    <2>1. formulas' \in Sorted(WithDataset)
      BY <1>2 DEF EndTick
    <2>2. Dataset \in Seq(Association) /\ \A k \in DOMAIN Dataset : Dataset[k].at > 0
      <3> DEFINE m == Min({FormulaLimit, Len(associations)})
      <3>1. /\ associations \in Seq(Association) /\ FormulaLimit \in Nat
            /\ Len(associations) \in Nat /\ DOMAIN associations = 1..Len(associations)
        BY PoolAssumption DEF TypeOK
      <3>2. m \in {FormulaLimit, Len(associations)} /\ m <= Len(associations)
        BY <3>1, MinIsLeast
      <3> HIDE DEF m
      <3>3. m \in 0..Len(associations)
        <4>1. m \in Nat /\ Len(associations) \in Nat /\ m <= Len(associations)
          BY <3>1, <3>2
        <4> QED BY <4>1
      <3>4. Dataset = SubSeq(associations, 1, m)
        BY DEF Dataset, m
      <3>5. \A k \in 1..m : Dataset[k] = associations[k] /\ k \in DOMAIN associations
        BY <3>1, <3>3, <3>4
      <3>6. DOMAIN Dataset = 1..m
        BY <3>1, <3>3, <3>4
      <3> QED BY <3>5, <3>6, DatasetFits DEF Dated
    <2>3. Scale \in Int /\ Count \in Nat
      BY PoolAssumption
    <2>4. \A i \in Places : /\ WithDataset[i] \in Formula
                            /\ WithDataset[i].assocs = IF i <= AssocTop THEN Dataset ELSE formulas[i].assocs
      BY <1>0, <2>2, <2>3 DEF WithDataset, Pool, Places, Formula
    <2>5. WithDataset \in Pool
      BY <2>4 DEF WithDataset, Pool, Places
    <2>6. JunkIn(WithDataset) \subseteq JunkIn(formulas)
      <3> SUFFICES ASSUME NEW i \in JunkIn(WithDataset) PROVE i \in JunkIn(formulas)
        OBVIOUS
      <3>1. PICK k \in DOMAIN WithDataset[i].assocs : WithDataset[i].assocs[k].at = 0
        BY DEF JunkIn
      <3>2. i \in Places
        BY DEF JunkIn, Places
      <3>3. CASE i <= AssocTop
        <4>1. k \in DOMAIN Dataset /\ Dataset[k].at = 0
          BY <2>4, <3>1, <3>2, <3>3
        <4> QED BY <2>2, <4>1
      <3>4. CASE ~(i <= AssocTop)
        <4>1. WithDataset[i].assocs = formulas[i].assocs
          BY <2>4, <3>2, <3>4
        <4> QED BY <3>1, <3>2, <4>1 DEF JunkIn, Places
      <3> QED BY <3>3, <3>4
    <2>7. Cardinality(JunkIn(WithDataset)) <= Cardinality(JunkIn(formulas))
      BY <1>0, <2>5, <2>6, NoMoreJunk
    <2> QED BY <2>1, <2>5, <2>7, SortedJunk
  <1> QED BY <1>1, <1>2

\* Feedback moves formulas with what they hold.
LEMMA FeedbackJunk ==
    ASSUME TypeOK, NEW g \in Genes, NEW delta \in {-1, 1}, Feedback(g, delta)
    PROVE  Cardinality(JunkIn(formulas')) <= Cardinality(JunkIn(formulas))
  <1>1. PICK i \in Places :
            formulas' = Moved([formulas EXCEPT ![i] = Adjusted(@, delta)], i, delta)
    BY DEF Feedback, Places
  <1> DEFINE s == [formulas EXCEPT ![i] = Adjusted(@, delta)]
  <1>2. formulas \in Pool /\ formulas[i] \in Formula /\ formulas[i].fitness >= 0
    BY DEF TypeOK, Pool, Places
  <1>3. Adjusted(formulas[i], delta) \in Formula /\ Adjusted(formulas[i], delta).assocs = formulas[i].assocs
    BY <1>2, AdjustedFormula
  <1>4. s \in Pool /\ \A k \in Places : s[k].assocs = formulas[k].assocs
    BY <1>2, <1>3 DEF Pool
  <1>5. formulas' = Moved(s, i, delta)
    BY <1>1
  <1> HIDE DEF s
  <1>6. Target(s, i, delta) \in Places
    <2>1. delta \in Int
      OBVIOUS
    <2>2. CASE delta > 0
      BY <1>4, <2>1, <2>2, RewardTarget
    <2>3. CASE delta <= 0
      BY <1>4, <2>1, <2>3, PenaltyTarget
    <2> QED BY <2>1, <2>2, <2>3
  <1>7. formulas' \in Pool
    BY <1>4, <1>5, <1>6, MovedEntries
  <1>8. Cardinality(Holding(formulas', JunkFormulas)) <= Cardinality(Holding(s, JunkFormulas))
    BY <1>4, <1>5, <1>6, MovedHolds
  <1>9. JunkIn(s) = JunkIn(formulas)
    BY <1>4 DEF JunkIn, Places
  <1> QED BY <1>4, <1>7, <1>8, <1>9, JunkHeld

\* How many formulas with unset associations the imports so far account for.
Imports == Logged("IMPORT") + IF doing = "import" THEN 1 ELSE 0

\* The journal's imports grow, until the node starts again.
LEMMA ImportsGrow ==
    ASSUME DoingInv, BooksInv, [NodeNext]_nodeVars
    PROVE  /\ Imports \in Nat /\ Imports' \in Nat
           /\ Restart \/ Imports' >= Imports
           /\ doing # "import" /\ doing' = "import" => Imports' = Imports + 1
  <1> DEFINE Grow == /\ Imports \in Nat /\ Imports' \in Nat
                     /\ Restart \/ Imports' >= Imports
                     /\ doing # "import" /\ doing' = "import" => Imports' = Imports + 1
  <1> SUFFICES Grow
    OBVIOUS
  <1>0. journal \in [Kinds -> Nat] /\ lost \in [Kinds -> Nat] /\ AllLost <= MaxLost
    BY DEF BooksInv
  <1>k. {"TEACH", "EVOLVE", "IMPORT", "USER_FEEDBACK", "OTHER"} \subseteq Kinds
    BY DEF Kinds
  <1>a. Logged("IMPORT") \in Nat
    BY <1>0, <1>k, LoggedIsNumber
  <1>b. ASSUME NEW kind \in Kinds, Record(kind)
        PROVE  Logged("IMPORT")' = IF kind = "IMPORT" THEN Logged("IMPORT") + 1 ELSE Logged("IMPORT")
    BY <1>0, <1>b, <1>k, RecordStep
  <1>c. ASSUME UNCHANGED <<journal, lost>>
        PROVE  Logged("IMPORT")' = Logged("IMPORT")
    BY <1>c DEF Logged
  <1>1. CASE Restart
    <2>1. doing' = "waiting" /\ Record("OTHER")
      BY <1>1 DEF Restart
    <2> QED BY <1>1, <1>a, <1>b, <1>k, <2>1 DEF Imports
  <1>2. CASE /\ \E kind \in Kinds : Record(kind)
             /\ doing # "import" /\ doing' # "import"
    BY <1>2, <1>a, <1>b DEF Imports
  <1>3. CASE UNCHANGED <<journal, lost>> /\ (doing # "import" \/ doing' = "import")
    BY <1>3, <1>a, <1>c DEF Imports
  <1>4. CASE Evolved
    <2>1. /\ doing \in {"tick", "auto", "import"} /\ doing' = "waiting" /\ Record(EventOf(doing))
          /\ EventOf(doing) \in Kinds /\ (doing = "import" => EventOf(doing) = "IMPORT")
      BY <1>4, <1>k DEF Evolved, EventOf
    <2> QED BY <1>a, <1>b, <2>1 DEF Imports
  <1>5. ASSUME NEW x \in Inputs, Ask(x) PROVE Grow
    BY <1>2, <1>5, <1>k DEF Ask, Waiting
  <1>6. ASSUME NEW delta \in {-1, 1}, Rate(delta) PROVE Grow
    BY <1>2, <1>6, <1>k DEF Rate, Waiting
  <1>7. CASE Teach \/ TakeNoteOrShare \/ ScriptDone
    BY <1>2, <1>7, <1>k DEF Teach, TakeNoteOrShare, ScriptDone, Waiting
  <1>8. ASSUME NEW kind \in {"tick", "auto"}, Evolve(kind) PROVE Grow
    BY <1>3, <1>8 DEF Evolve, Waiting
  <1>9. ASSUME NEW g \in PeerGenes, NEW fitness \in 0..Scale, Import(g, fitness) PROVE Grow
    BY <1>3, <1>9 DEF Import
  <1>10. CASE RateGone \/ TeachTick \/ PoolStep \/ StartScript \/ ScriptStep \/ ScriptFailed \/ UNCHANGED nodeVars
    BY <1>3, <1>10 DEF RateGone, TeachTick, PoolStep, StartScript, ScriptStep, ScriptFailed, Waiting, nodeVars
  <1> QED BY <1>1, <1>4, <1>5, <1>6, <1>7, <1>8, <1>9, <1>10 DEF NodeNext


\* a pool holds no more junk than was imported into it.
LEMMA NodeJunkStep ==
    ASSUME PoolInv, DoingInv, BooksInv, JunkIsNotBred, [NodeNext]_nodeVars
    PROVE  JunkIsNotBred'
  <1> DEFINE junk == Cardinality(JunkIn(formulas))
             then == Cardinality(JunkIn(formulas'))
  <1>1. TypeOK /\ Dated /\ TypeOK'
    BY NodePoolStep DEF PoolInv
  <1>2. formulas \in Pool /\ formulas' \in Pool
    BY <1>1 DEF TypeOK, Pool, Places
  <1>3. junk \in Nat /\ then \in Nat
    BY <1>2, JunkHeld
  <1>4. junk <= Imports
    BY DEF JunkIsNotBred, Junk, JunkIn, Imports
  <1>5. SUFFICES then <= Imports'
    BY DEF JunkIsNotBred, Junk, JunkIn, Imports
  <1>6. /\ Imports \in Nat /\ Imports' \in Nat
        /\ Restart \/ Imports' >= Imports
        /\ doing # "import" /\ doing' = "import" => Imports' = Imports + 1
    BY ImportsGrow
  <1>7. CASE Restart
    <2>1. PICK s \in Seeds : formulas' = [i \in 1..Count |-> NewFormula(s[i])]
      BY <1>7 DEF Restart
    <2>2. \A i \in 1..Count : formulas'[i].assocs = <<>>
      BY <2>1, FreshPool
    <2>3. JunkIn(formulas') = {}
      BY <2>2 DEF JunkIn
    <2> QED BY <1>6, <2>3, FS_EmptySet
  <1>8. ASSUME NEW g \in PeerGenes, NEW fitness \in 0..Scale, Import(g, fitness)
        PROVE  then <= Imports'
    <2>1. /\ Imports' = Imports + 1
          /\ \A i \in Places : i # Count => formulas'[i] = formulas[i]
      BY <1>2, <1>6, <1>8 DEF Import, Waiting, Pool
    <2>2. JunkIn(formulas') \subseteq JunkIn(formulas) \cup {Count}
      BY <2>1 DEF JunkIn, Places
    <2>3. /\ IsFiniteSet(JunkIn(formulas) \cup {Count})
          /\ Cardinality(JunkIn(formulas) \cup {Count}) = IF Count \in JunkIn(formulas) THEN junk ELSE junk + 1
      BY <1>2, JunkHeld, FS_AddElement
    <2>4. then <= Cardinality(JunkIn(formulas) \cup {Count})
      BY <2>2, <2>3, FS_Subset
    <2> HIDE DEF junk, then
    <2> QED BY <1>3, <1>4, <1>6, <2>1, <2>3, <2>4
  <1>9. CASE ~Restart /\ then <= junk
    BY <1>3, <1>4, <1>6, <1>9
  <1>10. ASSUME UNCHANGED formulas PROVE then <= junk
    BY <1>2, <1>10, NoMoreJunk
  <1>11. CASE UNCHANGED vars \/ AddExample \/ StartTick(1) \/ \E q \in Questions, a \in Answers : AddAssociation(q, a)
    <2>1. UNCHANGED formulas
      BY <1>11 DEF vars, AddExample, StartTick, AddAssociation
    <2> QED BY <1>7, <1>9, <1>10, <2>1
  <1>12. CASE Generation
    BY <1>1, <1>7, <1>9, <1>12, GenerationJunk
  <1>13. CASE EndTick
    BY <1>1, <1>7, <1>9, <1>13, EndTickJunk
  <1>14. ASSUME NEW delta \in {-1, 1}, lastAnswer # <<>>, Feedback(lastAnswer.gene, delta)
         PROVE  then <= Imports'
    <2>1. lastAnswer.gene \in Genes
      BY <1>14 DEF DoingInv
    <2>2. then <= junk
      BY <1>1, <1>14, <2>1, FeedbackJunk
    <2> QED BY <1>7, <1>9, <2>2
  <1> HIDE DEF junk, then
  <1> QED BY <1>7, <1>8, <1>11, <1>12, <1>13, <1>14, PoolSteps

-----------------------------------------------------------------------------
(* The invariant *)

\* A node that starts has the invariant, ...
LEMMA NodeStart == NodeInit => NodeIInv
  <1> SUFFICES ASSUME NodeInit PROVE NodeIInv
    OBVIOUS
  <1>1. PICK s \in Seeds : formulas = [i \in 1..Count |-> NewFormula(s[i])]
    BY DEF NodeInit, Init
  <1>2. PoolInv
    <2>1. IInv
      BY InvInit DEF NodeInit
    <2>2. associations = <<>>
      BY DEF NodeInit, Init
    <2> QED BY <2>1, <2>2 DEF IInv, PoolInv, RankedWhenAsked, Dated
  <1>3. DoingInv
    BY DEF NodeInit, Init, DoingInv, Doings
  <1>4. /\ journal \in [Kinds -> Nat] /\ lost \in [Kinds -> Nat]
        /\ \A kind \in Kinds : lost[kind] = 0 /\ journal[kind] = IF kind = "OTHER" THEN 1 ELSE 0
    BY DEF NodeInit, Kinds
  <1>5. BooksInv
    BY <1>4, NodeAssumption DEF NodeInit, Init, BooksInv, ChangesAreRecorded, AllLost, Logged, Ticking, Kinds
  <1>6. JunkIsNotBred
    <2>1. \A i \in 1..Count : formulas[i].assocs = <<>>
      BY <1>1, FreshPool
    <2>2. Junk = {}
      BY <2>1 DEF Junk
    <2>3. Logged("IMPORT") = 0 /\ doing = "waiting"
      BY <1>4 DEF NodeInit, Logged, Kinds
    <2> QED BY <2>2, <2>3, FS_EmptySet DEF JunkIsNotBred
  <1> QED BY <1>2, <1>3, <1>5, <1>6, InvInParts

\* ... and every command, exchange and failure keeps it.
LEMMA NodeStep == NodeIInv /\ [NodeNext]_nodeVars => NodeIInv'
  <1> SUFFICES ASSUME NodeIInv, [NodeNext]_nodeVars PROVE NodeIInv'
    OBVIOUS
  <1>1. PoolInv /\ DoingInv /\ BooksInv /\ JunkIsNotBred
    BY InvInParts
  <1>2. PoolInv' /\ DoingInv' /\ BooksInv' /\ JunkIsNotBred'
    BY <1>1, NodePoolStep, NodeDoingStep, NodeBooksStep, NodeJunkStep
  <1> QED BY <1>2 DEF NodeIInv, NodeOK, PoolInv, DoingInv, BooksInv, Doings

\* The node's invariant holds, whatever commands, neighbours and restarts do.
THEOREM NodeInductive == NodeSpec => []NodeIInv
  BY NodeStart, NodeStep, PTL DEF NodeSpec

\* The journal accounts for every tick and every mark, but for appends that failed,
\* scripts, and ticks that run or were cut off.
THEOREM JournalAccounts == NodeSpec => []ChangesAreRecorded
  <1>1. NodeIInv => ChangesAreRecorded
    BY DEF NodeIInv
  <1> QED BY <1>1, NodeInductive, PTL

\* No more formulas hold unset associations than there were imports.
THEOREM JunkStaysPut == NodeSpec => []JunkIsNotBred
  <1>1. NodeIInv => JunkIsNotBred
    BY DEF NodeIInv
  <1> QED BY <1>1, NodeInductive, PTL

\* What is left of a pool without a formula is the same however that formula changed.
LEMMA RestIsKept ==
    ASSUME NEW s \in Pool, NEW i \in Places, NEW f \in Formula
    PROVE  RemoveAt([s EXCEPT ![i] = f], i) = RemoveAt(s, i)
  <1> DEFINE t == [s EXCEPT ![i] = f]
             r == RemoveAt(s, i)
             q == RemoveAt(t, i)
  <1>1. t \in Pool /\ \A k \in Places : k # i => t[k] = s[k]
    BY DEF Pool
  <1>2. /\ s \in Seq(Formula) /\ Len(s) = Count /\ t \in Seq(Formula) /\ Len(t) = Count
        /\ Count \in Nat /\ i \in 1..Count
    BY <1>1, PoolIsSequence, EliteInPool DEF Places
  <1> HIDE DEF t
  <1>3. r \in Seq(Formula) /\ Len(r) = Count - 1 /\ \A k \in 1..Count - 1 : r[k] = IF k < i THEN s[k] ELSE s[k + 1]
    BY <1>2, WithoutEntry
  <1>4. q \in Seq(Formula) /\ Len(q) = Count - 1 /\ \A k \in 1..Count - 1 : q[k] = IF k < i THEN t[k] ELSE t[k + 1]
    BY <1>2, WithoutEntry
  <1> HIDE DEF r, q
  <1>5. \A k \in 1..Count - 1 : q[k] = r[k]
    <2> TAKE k \in 1..Count - 1
    <2>1. CASE k < i
      <3>1. k \in Places /\ k # i
        BY <1>2, <2>1 DEF Places
      <3> QED BY <1>1, <1>3, <1>4, <2>1, <3>1
    <2>2. CASE ~(k < i)
      <3>1. k + 1 \in Places /\ k + 1 # i
        BY <1>2, <2>2 DEF Places
      <3> QED BY <1>1, <1>3, <1>4, <2>2, <3>1
    <2> QED BY <2>1, <2>2
  <1>6. q = r
    BY <1>3, <1>4, <1>5, SeqEqual
  <1> QED BY <1>6 DEF q, r, t

\* A mark is about the answer seen last and hits a formula with the gene that gave it.
THEOREM MarkIsAboutAnswer == NodeSpec => MarkHitsAnswerer
  <1>1. ASSUME NodeIInv, NodeNext, marks' # marks
        PROVE  /\ seen # <<>>
               /\ \E i, j \in 1..Count, delta \in {-1, 1} :
                   /\ formulas[i].gene = seen.gene
                   /\ formulas' = InsertAt(RemoveAt(formulas, i), j, Adjusted(formulas[i], delta))
    <2>1. PICK delta \in {-1, 1} : Waiting /\ lastAnswer # <<>> /\ Feedback(lastAnswer.gene, delta)
      BY <1>1 DEF NodeNext, Restart, Ask, Rate, Rated, RateGone, Teach, AddExample, TeachTick, TakeNoteOrShare,
             Evolve, StartTick, Import, PoolStep, Generation, Evolved, EndTick, StartScript, ScriptStep,
             AddAssociation, ScriptDone, ScriptFailed, vars
    <2>2. lastAnswer = seen
      BY <1>1, <2>1 DEF NodeIInv, NodeOK, Waiting
    <2>3. formulas \in Pool
      BY <1>1 DEF NodeIInv, NodeOK, TypeOK, Pool, Places
    <2>4. PICK i \in Places :
              /\ formulas[i].gene = seen.gene
              /\ formulas' = Moved([formulas EXCEPT ![i] = Adjusted(@, delta)], i, delta)
      BY <2>1, <2>2 DEF Feedback, Places
    <2> DEFINE f == Adjusted(formulas[i], delta)
               s == [formulas EXCEPT ![i] = f]
               j == Target(s, i, delta)
    <2>5. f \in Formula
      <3>1. formulas[i] \in Formula /\ formulas[i].fitness >= 0
        BY <1>1 DEF NodeIInv, NodeOK, TypeOK, Places
      <3> QED BY <3>1, AdjustedFormula
    <2>6. formulas' = InsertAt(RemoveAt(s, i), j, s[i])
      BY <2>4 DEF Moved
    <2> HIDE DEF f
    <2>7. s \in Pool /\ s[i] = f /\ RemoveAt(s, i) = RemoveAt(formulas, i)
      BY <2>3, <2>5, RestIsKept DEF Pool
    <2> HIDE DEF s
    <2>8. j \in Places
      <3>1. delta \in Int /\ (delta > 0 \/ delta <= 0)
        OBVIOUS
      <3> QED BY <2>7, <3>1, RewardTarget, PenaltyTarget
    <2> HIDE DEF j
    <2> QED BY <2>1, <2>2, <2>4, <2>6, <2>7, <2>8 DEF f, Places
  <1>2. ASSUME NodeIInv, [NodeNext]_nodeVars
        PROVE  [marks' # marks =>
                   /\ seen # <<>>
                   /\ \E i, j \in 1..Count, delta \in {-1, 1} :
                       /\ formulas[i].gene = seen.gene
                       /\ formulas' = InsertAt(RemoveAt(formulas, i), j, Adjusted(formulas[i], delta))]_nodeVars
    BY <1>1, <1>2
  <1> QED BY <1>2, NodeInductive, PTL DEF NodeSpec, MarkHitsAnswerer

\* The formula that answers is one of the fittest, though imported genes are put
\* behind formulas they may be better than.
THEOREM FittestAnswers == NodeSpec => []BestFirst
  <1>1. NodeIInv => BestFirst
    BY DEF NodeIInv, RankedWhenAsked, BestFirst
  <1> QED BY <1>1, NodeInductive, PTL

-----------------------------------------------------------------------------
(* The exchange of genes *)

\* Who is who, and that nobody has sent nothing.
LEMMA WhoIsWho ==
    /\ Coordinator \in Processes /\ Nodes \subseteq Processes /\ Nobody \notin Rules
    /\ Unused \in Connections /\ Unused.at = "unused"
  <1>1. Nobody \notin Rules
    BY DEF Nobody, Rules
  <1> QED BY <1>1, ExchangeAssumption DEF Processes, Unused, Connections

\* What is left of connection c once s has closed those of its own.
Remains(c, s, d) ==
    /\ d.from = c.from
    /\ d.at = "open" <=> c.at = "open" /\ c.from # s
    /\ d.at = "unused" <=> c.at = "unused"
    /\ d.at = "rule" => (c.at = "rule" /\ d.rule = c.rule) \/ d.rule # Nobody

\* What closing makes of a connection.
LEMMA ClosedConnection ==
    ASSUME NEW c \in Connections, NEW s \in Processes, NEW at \in {"rule", "broken"},
           NEW rule \in Rules \cup {Nobody}, at = "rule" => rule # Nobody
    PROVE  /\ Closed(c, s, at, rule) \in Connections
           /\ Remains(c, s, Closed(c, s, at, rule))
  BY DEF Closed, Connections, Remains

\* The entries of a sequence made by closing those of another.
LEMMA ClosedQueue ==
    ASSUME NEW q \in Seq(Connections), NEW s \in Processes, NEW at \in {"rule", "broken"},
           NEW rule \in Rules \cup {Nobody}, at = "rule" => rule # Nobody
    PROVE  /\ [i \in DOMAIN q |-> Closed(q[i], s, at, rule)] \in Seq(Connections)
           /\ Len([i \in DOMAIN q |-> Closed(q[i], s, at, rule)]) = Len(q)
  <1> DEFINE c == [i \in DOMAIN q |-> Closed(q[i], s, at, rule)]
  <1>1. Len(q) \in Nat /\ DOMAIN q = 1..Len(q) /\ \A i \in DOMAIN q : q[i] \in Connections
    BY LenProperties, ElementOfSeq
  <1>2. \A i \in DOMAIN q : Closed(q[i], s, at, rule) \in Connections
    BY <1>1, ClosedConnection
  <1>3. c \in [1..Len(q) -> Connections]
    BY <1>1, <1>2
  <1> HIDE DEF c
  <1>4. c \in Seq(Connections) /\ DOMAIN c = 1..Len(q)
    BY <1>1, <1>3, SeqDef
  <1>5. Len(c) = Len(q)
    BY <1>1, <1>4, LenProperties
  <1> QED BY <1>4, <1>5 DEF c

\* Of who does not send no connection is open.
LEMMA NoneOpen ==
    ASSUME OpenOnesAreSent, NEW s, loop[s] # "send", NEW p \in Processes
    PROVE  /\ \A i \in DOMAIN queue[p] : queue[p][i].at = "open" => queue[p][i].from # s
           /\ served[p].at = "open" => served[p].from # s
  BY DEF OpenOnesAreSent, SendsTo

\* p goes on to something else than sending or serving, and leaves the connections alone.
LEMMA LoopGoesOn ==
    ASSUME NEW p \in Processes, NEW x \in {"poll", "act", "connect"}, ExchangeInv,
           loop[p] \notin {"serve", "send"},
           loop' = [loop EXCEPT ![p] = x],
           \A s \in Processes : s # p => peer'[s] = peer[s],
           peer' \in [Processes -> Processes],
           UNCHANGED <<heard, queue, served, taken, faults>>,
           targets' \in Seq(Nodes), shares' \in 0..MaxShares,
           (p = Coordinator /\ x = "connect") \/ targets' # <<>> => heard # Nobody
    PROVE  ExchangeInv'
  <1>1. \A q \in Processes : loop'[q] = IF q = p THEN x ELSE loop[q]
    BY DEF ExchangeInv, ExchangeOK
  <1>2. ExchangeOK'
    BY DEF ExchangeInv, ExchangeOK
  <1>3. \A s \in Processes, q \in Processes : SendsTo(s, q) => SendsTo(s, q)'
    BY <1>1 DEF SendsTo
  <1>4. \A q \in Processes : /\ \A i \in DOMAIN queue[q] : queue[q][i].from \in Processes
                             /\ served[q].from \in Processes
    <2> SUFFICES ASSUME NEW q \in Processes
                 PROVE  /\ \A i \in DOMAIN queue[q] : queue[q][i].from \in Processes
                        /\ served[q].from \in Processes
      OBVIOUS
    <2>1. queue[q] \in Seq(Connections) /\ served[q] \in Connections
      BY DEF ExchangeInv, ExchangeOK
    <2>2. \A i \in DOMAIN queue[q] : queue[q][i] \in Connections
      BY <2>1, LenProperties, ElementOfSeq
    <2> QED BY <2>1, <2>2 DEF Connections
  <1>5. OpenOnesAreSent'
    BY <1>3, <1>4 DEF ExchangeInv, OpenOnesAreSent
  <1>6. ServingInv'
    <2>1. \A q \in Processes : /\ loop'[q] = "serve" <=> served'[q].at # "unused"
                               /\ loop'[q] = "down" => queue'[q] = <<>>
      BY <1>1 DEF ExchangeInv, ServingInv
    <2>2. loop'[Coordinator] \in {"connect", "send"} \/ targets' # <<>> => heard' # Nobody
      BY <1>1, WhoIsWho DEF ExchangeInv, ServingInv
    <2> QED BY <2>1, <2>2 DEF ExchangeInv, ServingInv
  <1> QED BY <1>2, <1>5, <1>6 DEF ExchangeInv

\* Turning to something else, starting and failing to connect.
LEMMA QuietSteps ==
    ASSUME ExchangeInv,
           \/ \E p \in Processes : ConnectFails(p) \/ Turn(p) \/ Start(p)
           \/ BroadcastNext
           \/ Broadcast
           \/ \E n \in Nodes : Share(n)
    PROVE  ExchangeInv'
  <1>0. /\ targets \in Seq(Nodes) /\ shares \in 0..MaxShares /\ peer \in [Processes -> Processes]
        /\ loop[Coordinator] \in {"connect", "send"} \/ targets # <<>> => heard # Nobody
    BY DEF ExchangeInv, ExchangeOK, ServingInv
  <1>1. ASSUME NEW p \in Processes, ConnectFails(p) PROVE ExchangeInv'
    <2>1. PICK x \in {"poll", "act"} : loop' = [loop EXCEPT ![p] = x]
      BY <1>1 DEF ConnectFails, AfterSharing
    <2> QED BY <1>0, <1>1, <2>1, LoopGoesOn DEF ConnectFails, AfterSharing
  <1>2. ASSUME NEW p \in Processes, Turn(p) PROVE ExchangeInv'
    BY <1>0, <1>2, LoopGoesOn DEF Turn
  <1>3. ASSUME NEW p \in Processes, Start(p) PROVE ExchangeInv'
    BY <1>0, <1>3, LoopGoesOn DEF Start
  <1>4. CASE BroadcastNext
    <2>1. Head(targets) \in Nodes /\ targets' \in Seq(Nodes)
      BY <1>0, <1>4, HeadTailProperties DEF BroadcastNext
    <2>2. peer' \in [Processes -> Processes]
      BY <1>0, <1>4, <2>1, WhoIsWho DEF BroadcastNext, StartSharing
    <2> QED BY <1>0, <1>4, <2>1, <2>2, WhoIsWho, LoopGoesOn DEF BroadcastNext, StartSharing
  <1>5. CASE Broadcast
    <2>1. targets' \in Seq(Nodes)
      BY <1>5, ExchangeAssumption DEF Broadcast
    <2>2. loop[Coordinator] \notin {"serve", "send"}
      BY <1>5 DEF Broadcast, Free
    <2> QED BY <1>0, <1>5, <2>1, <2>2, WhoIsWho, LoopGoesOn DEF Broadcast
  <1>6. ASSUME NEW n \in Nodes, Share(n) PROVE ExchangeInv'
    <2>1. n \in Processes /\ n # Coordinator /\ Neighbour[n] \in Processes
      BY WhoIsWho, ExchangeAssumption
    <2>2. shares' \in 0..MaxShares
      BY <1>0, <1>6, ExchangeAssumption DEF Share
    <2>3. peer' \in [Processes -> Processes]
      BY <1>0, <1>6, <2>1 DEF Share, StartSharing
    <2>4. loop[n] \notin {"serve", "send"}
      BY <1>6 DEF Share, Free
    <2> QED BY <1>0, <1>6, <2>1, <2>2, <2>3, <2>4, LoopGoesOn DEF Share, StartSharing
  <1> QED BY <1>1, <1>2, <1>3, <1>4, <1>5, <1>6

\* A connection is taken from the queue.
LEMMA AcceptKeeps ==
    ASSUME NEW p \in Processes, ExchangeInv, Accept(p)
    PROVE  ExchangeInv'
  <1>1. /\ loop[p] = "poll" /\ queue[p] # <<>> /\ loop' = [loop EXCEPT ![p] = "serve"]
        /\ queue' = [queue EXCEPT ![p] = Tail(queue[p])]
        /\ served' = [served EXCEPT ![p] = Head(queue[p])]
        /\ UNCHANGED <<heard, peer, targets, taken, shares, faults>>
    BY DEF Accept
  <1>2. /\ queue \in [Processes -> Seq(Connections)] /\ served \in [Processes -> Connections]
        /\ DOMAIN loop = Processes
    BY DEF ExchangeInv, ExchangeOK
  <1>3. PICK old : old = queue[p] /\ old \in Seq(Connections)
    BY <1>2
  <1>4. PICK n \in Nat : n = Len(old) /\ DOMAIN old = 1..n
    BY <1>3, LenProperties
  <1>5. PICK t \in Seq(Connections) : t = Tail(old)
    BY <1>1, <1>3, HeadTailProperties
  <1>6. PICK h \in Connections : h = Head(old)
    BY <1>1, <1>3, HeadTailProperties
  <1>7. /\ h = old[1] /\ Len(t) = n - 1 /\ n # 0
        /\ \A i \in 1..n - 1 : t[i] = old[i + 1]
    BY <1>1, <1>3, <1>4, <1>5, <1>6, HeadTailProperties, EmptySeq
  <1>8. DOMAIN t = 1..n - 1
    BY <1>5, <1>7, LenProperties
  <1>9. /\ \A i \in 1..n - 1 : i + 1 \in 1..n /\ i + 1 # 1
        /\ 1 \in 1..n
        /\ \A i, j \in 1..n - 1 : i + 1 = j + 1 => i = j
    BY <1>4, <1>7
  <1>10. \A q \in Processes : /\ queue'[q] = IF q = p THEN t ELSE queue[q]
                              /\ served'[q] = IF q = p THEN h ELSE served[q]
                              /\ loop'[q] = IF q = p THEN "serve" ELSE loop[q]
    BY <1>1, <1>2, <1>3, <1>5, <1>6
  <1>11. ExchangeOK'
    <2>1. queue' \in [Processes -> Seq(Connections)] /\ served' \in [Processes -> Connections]
      BY <1>1, <1>2, <1>3, <1>5, <1>6
    <2>2. \A q \in Processes : Len(queue'[q]) <= Backlog
      <3>1. n <= Backlog /\ Backlog \in Nat
        BY <1>3, <1>4, ExchangeAssumption DEF ExchangeInv, ExchangeOK
      <3>2. Len(t) <= Backlog
        BY <1>7, <3>1
      <3> QED BY <1>10, <3>2 DEF ExchangeInv, ExchangeOK
    <2> QED BY <1>1, <2>1, <2>2 DEF ExchangeInv, ExchangeOK
  <1>12. \A s, q : SendsTo(s, q) => SendsTo(s, q)'
    BY <1>1, <1>2 DEF SendsTo
  <1>13. /\ \A i \in 1..n : old[i].at = "open" => SendsTo(old[i].from, p)
         /\ \A i, j \in 1..n : old[i].at = "open" /\ old[j].at = "open" /\ old[i].from = old[j].from => i = j
         /\ \A i \in 1..n : old[i].at # "unused" /\ (old[i].at = "rule" => old[i].rule # Nobody)
    BY <1>3, <1>4 DEF ExchangeInv, OpenOnesAreSent, ServingInv
  <1>14. OpenOnesAreSent'
    <2>1. ASSUME NEW q \in Processes, q # p
          PROVE  /\ \A i \in DOMAIN queue'[q] : queue'[q][i].at = "open" => SendsTo(queue[q][i].from, q)'
                 /\ served'[q].at = "open" => SendsTo(served[q].from, q)'
                 /\ \A i, j \in DOMAIN queue'[q] :
                        queue'[q][i].at = "open" /\ queue'[q][j].at = "open"
                        /\ queue'[q][i].from = queue'[q][j].from => i = j
                 /\ \A i \in DOMAIN queue'[q] :
                        ~(queue'[q][i].at = "open" /\ served'[q].at = "open"
                          /\ queue'[q][i].from = served'[q].from)
      <3>1. queue'[q] = queue[q] /\ served'[q] = served[q]
        BY <1>10, <2>1
      <3> QED BY <1>12, <3>1 DEF ExchangeInv, OpenOnesAreSent
    <2>2. /\ \A i \in 1..n - 1 : t[i].at = "open" => SendsTo(t[i].from, p)'
          /\ h.at = "open" => SendsTo(h.from, p)'
      BY <1>7, <1>9, <1>12, <1>13
    <2>3. \A i, j \in 1..n - 1 : t[i].at = "open" /\ t[j].at = "open" /\ t[i].from = t[j].from => i = j
      BY <1>7, <1>9, <1>13
    <2>4. \A i \in 1..n - 1 : ~(t[i].at = "open" /\ h.at = "open" /\ t[i].from = h.from)
      BY <1>7, <1>9, <1>13
    <2>5. queue'[p] = t /\ served'[p] = h
      BY <1>10
    <2> QED BY <1>8, <2>1, <2>2, <2>3, <2>4, <2>5 DEF OpenOnesAreSent
  <1>15. ServingInv'
    <2>1. /\ \A i \in DOMAIN t : t[i].at # "unused" /\ (t[i].at = "rule" => t[i].rule # Nobody)
          /\ h.at # "unused" /\ (h.at = "rule" => h.rule # Nobody)
      BY <1>7, <1>8, <1>9, <1>13
    <2>2. loop'[Coordinator] \in {"connect", "send"} \/ targets' # <<>> => heard' # Nobody
      BY <1>1, <1>10, WhoIsWho DEF ExchangeInv, ServingInv
    <2> QED BY <1>10, <2>1, <2>2 DEF ExchangeInv, ServingInv
  <1> QED BY <1>11, <1>14, <1>15 DEF ExchangeInv

\* A connection is served.
LEMMA ServedKeeps ==
    ASSUME NEW p \in Processes, NEW at, ExchangeInv, Served(p, at),
           heard' \in Rules \cup {Nobody}, heard # Nobody => heard' # Nobody,
           taken' \in [Nodes -> SUBSET GeneIds]
    PROVE  ExchangeInv'
  <1>1. /\ loop[p] = "serve" /\ loop' = [loop EXCEPT ![p] = "act"]
        /\ served' = [served EXCEPT ![p] = Unused]
        /\ UNCHANGED <<peer, targets, queue, shares, faults>>
    BY DEF Served
  <1>2. served \in [Processes -> Connections] /\ DOMAIN loop = Processes
    BY DEF ExchangeInv, ExchangeOK
  <1>3. \A q \in Processes : /\ served'[q] = IF q = p THEN Unused ELSE served[q]
                             /\ loop'[q] = IF q = p THEN "act" ELSE loop[q]
    BY <1>1, <1>2
  <1>4. ExchangeOK'
    BY <1>1, WhoIsWho DEF ExchangeInv, ExchangeOK
  <1>5. \A s, q : SendsTo(s, q) => SendsTo(s, q)'
    BY <1>1, <1>2 DEF SendsTo
  <1>6. OpenOnesAreSent'
    <2>1. \A q \in Processes : served'[q].at = "open" => served'[q] = served[q]
      BY <1>3, WhoIsWho
    <2> QED BY <1>1, <1>5, <2>1 DEF ExchangeInv, OpenOnesAreSent
  <1>7. ServingInv'
    <2>1. \A q \in Processes : /\ loop'[q] = "serve" <=> served'[q].at # "unused"
                               /\ loop'[q] = "down" => queue'[q] = <<>>
                               /\ served'[q].at = "rule" => served'[q].rule # Nobody
      BY <1>1, <1>3, WhoIsWho DEF ExchangeInv, ServingInv
    <2>2. loop'[Coordinator] \in {"connect", "send"} \/ targets' # <<>> => heard' # Nobody
      BY <1>1, <1>3, WhoIsWho DEF ExchangeInv, ServingInv
    <2> QED BY <1>1, <2>1, <2>2 DEF ExchangeInv, ServingInv
  <1> QED BY <1>4, <1>6, <1>7 DEF ExchangeInv

\* Taken in by the coordinator, by a node, or without a rule.
LEMMA ServingSteps ==
    ASSUME ExchangeInv,
           Compare \/ (\E n \in Nodes : ImportRule(n)) \/ (\E p \in Processes : NoRule(p))
    PROVE  ExchangeInv'
  <1>0. /\ heard \in Rules \cup {Nobody} /\ taken \in [Nodes -> SUBSET GeneIds]
        /\ \A p \in Processes : served[p].at = "rule" => served[p].rule \in Rules
    BY DEF ExchangeInv, ExchangeOK, ServingInv, Connections
  <1>1. CASE Compare
    <2>1. served[Coordinator].rule \in Rules
      BY <1>0, <1>1, WhoIsWho DEF Compare, Served
    <2>2. heard' \in Rules \cup {Nobody} /\ (heard # Nobody => heard' # Nobody)
      BY <1>0, <1>1, <2>1, WhoIsWho DEF Compare
    <2>3. Served(Coordinator, "rule") /\ taken' = taken
      BY <1>1 DEF Compare
    <2> QED BY <1>0, <2>2, <2>3, WhoIsWho, ServedKeeps
  <1>2. ASSUME NEW n \in Nodes, ImportRule(n) PROVE ExchangeInv'
    <2>1. served[n].rule.gene \in GeneIds
      BY <1>0, <1>2, WhoIsWho DEF ImportRule, Served, Rules
    <2>2. taken' \in [Nodes -> SUBSET GeneIds] /\ heard' = heard /\ Served(n, "rule")
      BY <1>0, <1>2, <2>1 DEF ImportRule
    <2> QED BY <1>0, <2>2, WhoIsWho, ServedKeeps
  <1>3. ASSUME NEW p \in Processes, NoRule(p) PROVE ExchangeInv'
    BY <1>0, <1>3, ServedKeeps DEF NoRule
  <1> QED BY <1>1, <1>2, <1>3

\* A connection is put into the queue of its listener.
LEMMA ConnectKeeps ==
    ASSUME NEW s \in Processes, ExchangeInv, Connect(s)
    PROVE  ExchangeInv'
  <1> DEFINE new == [from |-> s, at |-> "open", rule |-> Nobody]
  <1>1. /\ loop[s] = "connect" /\ loop[peer[s]] # "down" /\ Len(queue[peer[s]]) < Backlog
        /\ queue' = [queue EXCEPT ![peer[s]] = Append(queue[peer[s]], new)]
        /\ loop' = [loop EXCEPT ![s] = "send"]
        /\ UNCHANGED <<heard, peer, targets, served, taken, shares, faults>>
    BY DEF Connect
  <1>2. /\ queue \in [Processes -> Seq(Connections)] /\ DOMAIN loop = Processes
        /\ peer \in [Processes -> Processes]
    BY DEF ExchangeInv, ExchangeOK
  <1>3. PICK p \in Processes : p = peer[s]
    BY <1>2
  <1>4. PICK old : old = queue[p] /\ old \in Seq(Connections)
    BY <1>2
  <1>5. PICK n \in Nat : n = Len(old) /\ DOMAIN old = 1..n
    BY <1>4, LenProperties
  <1>6. new \in Connections
    BY DEF Connections
  <1>7. PICK more \in Seq(Connections) : more = Append(old, new)
    BY <1>4, <1>6, AppendProperties
  <1>8. /\ Len(more) = n + 1 /\ more[n + 1] = new /\ \A i \in 1..n : more[i] = old[i]
        /\ DOMAIN more = 1..n + 1
    BY <1>4, <1>5, <1>6, <1>7, AppendProperties, LenProperties
  <1>9. \A i \in 1..n + 1 : i \in 1..n \/ i = n + 1
    BY <1>5
  <1>10. \A q \in Processes : /\ queue'[q] = IF q = p THEN more ELSE queue[q]
                              /\ loop'[q] = IF q = s THEN "send" ELSE loop[q]
    BY <1>1, <1>2, <1>3, <1>4, <1>7
  <1> HIDE DEF new
  <1>11. new.from = s /\ new.at = "open"
    BY DEF new
  <1>12. ExchangeOK'
    <2>1. queue' \in [Processes -> Seq(Connections)]
      BY <1>1, <1>2, <1>3, <1>4, <1>7
    <2>2. \A q \in Processes : Len(queue'[q]) <= Backlog
      <3>1. n < Backlog /\ Backlog \in Nat
        BY <1>1, <1>3, <1>4, <1>5, ExchangeAssumption
      <3>2. Len(more) <= Backlog
        BY <1>8, <3>1
      <3> QED BY <1>10, <3>2 DEF ExchangeInv, ExchangeOK
    <2> QED BY <1>1, <2>1, <2>2 DEF ExchangeInv, ExchangeOK
  <1>13. (\A x, q : SendsTo(x, q) => SendsTo(x, q)') /\ SendsTo(s, p)'
    BY <1>1, <1>2, <1>3 DEF SendsTo
  <1>14. /\ \A i \in 1..n : old[i].at = "open" => SendsTo(old[i].from, p) /\ old[i].from # s
         /\ \A i, j \in 1..n : old[i].at = "open" /\ old[j].at = "open" /\ old[i].from = old[j].from => i = j
         /\ served[p].at = "open" => served[p].from # s
         /\ \A i \in 1..n : ~(old[i].at = "open" /\ served[p].at = "open" /\ old[i].from = served[p].from)
    <2>1. loop[s] # "send"
      BY <1>1
    <2> QED BY <1>4, <1>5, <2>1, NoneOpen DEF ExchangeInv, OpenOnesAreSent
  <1>15. OpenOnesAreSent'
    <2>1. ASSUME NEW q \in Processes, q # p
          PROVE  /\ \A i \in DOMAIN queue'[q] : queue'[q][i].at = "open" => SendsTo(queue[q][i].from, q)'
                 /\ served'[q].at = "open" => SendsTo(served[q].from, q)'
                 /\ \A i, j \in DOMAIN queue'[q] :
                        queue'[q][i].at = "open" /\ queue'[q][j].at = "open"
                        /\ queue'[q][i].from = queue'[q][j].from => i = j
                 /\ \A i \in DOMAIN queue'[q] :
                        ~(queue'[q][i].at = "open" /\ served'[q].at = "open"
                          /\ queue'[q][i].from = served'[q].from)
      <3>1. queue'[q] = queue[q] /\ served'[q] = served[q]
        BY <1>1, <1>10, <2>1
      <3> QED BY <1>13, <3>1 DEF ExchangeInv, OpenOnesAreSent
    <2>2. \A i \in 1..n + 1 : more[i].at = "open" => SendsTo(more[i].from, p)'
      BY <1>8, <1>9, <1>11, <1>13, <1>14
    <2>3. \A i, j \in 1..n + 1 :
              more[i].at = "open" /\ more[j].at = "open" /\ more[i].from = more[j].from => i = j
      BY <1>8, <1>9, <1>11, <1>14
    <2>4. \A i \in 1..n + 1 :
              ~(more[i].at = "open" /\ served[p].at = "open" /\ more[i].from = served[p].from)
      BY <1>8, <1>9, <1>11, <1>14
    <2>5. served[p].at = "open" => SendsTo(served[p].from, p)'
      BY <1>1, <1>13 DEF ExchangeInv, OpenOnesAreSent
    <2>6. queue'[p] = more /\ served' = served
      BY <1>1, <1>10
    <2> QED BY <1>8, <2>1, <2>2, <2>3, <2>4, <2>5, <2>6 DEF OpenOnesAreSent
  <1>16. ServingInv'
    <2>1. \A i \in 1..n + 1 : more[i].at # "unused" /\ (more[i].at = "rule" => more[i].rule # Nobody)
      BY <1>4, <1>5, <1>8, <1>9, <1>11 DEF ExchangeInv, ServingInv
    <2>2. loop'[Coordinator] \in {"connect", "send"} \/ targets' # <<>> => heard' # Nobody
      BY <1>1, <1>10, WhoIsWho DEF ExchangeInv, ServingInv
    <2>3. \A q \in Processes : /\ loop'[q] = "serve" <=> served'[q].at # "unused"
                               /\ loop'[q] = "down" => queue'[q] = <<>>
      <3>1. p # s => loop[p] # "down"
        BY <1>1, <1>3
      <3> QED BY <1>1, <1>3, <1>10, <3>1 DEF ExchangeInv, ServingInv
    <2> QED BY <1>1, <1>8, <1>10, <2>1, <2>2, <2>3 DEF ExchangeInv, ServingInv
  <1> QED BY <1>12, <1>15, <1>16 DEF ExchangeInv

\* s closes its connection and goes on, or is gone with all that waited for it.
LEMMA Quits ==
    ASSUME NEW s \in Processes, NEW x \in {"poll", "act", "down"}, ExchangeInv,
           NEW at \in {"rule", "broken"}, NEW rule \in Rules \cup {Nobody},
           at = "rule" => rule # Nobody, x # "down" => loop[s] # "serve",
           queue' = [q \in Processes |-> IF q = s /\ x = "down" THEN <<>>
                        ELSE [i \in DOMAIN queue[q] |-> Closed(queue[q][i], s, at, rule)]],
           served' = [q \in Processes |-> IF q = s /\ x = "down" THEN Unused
                        ELSE Closed(served[q], s, at, rule)],
           loop' = [loop EXCEPT ![s] = x], peer' = peer,
           heard' \in Rules \cup {Nobody}, targets' \in Seq(Nodes),
           heard' = Nobody => targets' = <<>> /\ (heard = Nobody \/ s = Coordinator),
           taken' \in [Nodes -> SUBSET GeneIds], shares' = shares, faults' \in 0..MaxFaults
    PROVE  ExchangeInv'
  <1>1. /\ queue \in [Processes -> Seq(Connections)] /\ served \in [Processes -> Connections]
        /\ DOMAIN loop = Processes
    BY DEF ExchangeInv, ExchangeOK
  <1>2. \A q \in Processes : loop'[q] = IF q = s THEN x ELSE loop[q]
    BY <1>1
  <1>3. \A q \in Processes : \A i \in DOMAIN queue[q] : queue[q][i] \in Connections
    BY <1>1, ElementOfSeq
  <1>4. ASSUME NEW q \in Processes, q = s /\ x = "down"
        PROVE  queue'[q] = <<>> /\ served'[q] = Unused /\ DOMAIN queue'[q] = {}
    BY <1>4, EmptySeq
  <1>5. ASSUME NEW q \in Processes, ~(q = s /\ x = "down")
        PROVE  /\ DOMAIN queue'[q] = DOMAIN queue[q]
               /\ \A i \in DOMAIN queue[q] : queue'[q][i] = Closed(queue[q][i], s, at, rule)
               /\ served'[q] = Closed(served[q], s, at, rule)
               /\ queue'[q] \in Seq(Connections) /\ Len(queue'[q]) = Len(queue[q])
    <2>1. queue'[q] = [i \in DOMAIN queue[q] |-> Closed(queue[q][i], s, at, rule)]
      BY <1>5
    <2>2. served'[q] = Closed(served[q], s, at, rule)
      BY <1>5
    <2>3. queue[q] \in Seq(Connections)
      BY <1>1
    <2>4. queue'[q] \in Seq(Connections) /\ Len(queue'[q]) = Len(queue[q])
      BY <2>1, <2>3, ClosedQueue
    <2>5. DOMAIN queue'[q] = DOMAIN queue[q]
      BY <2>1
    <2>6. \A i \in DOMAIN queue[q] : queue'[q][i] = Closed(queue[q][i], s, at, rule)
      BY <2>1
    <2> QED BY <2>2, <2>4, <2>5, <2>6
  <1>6. ASSUME NEW q \in Processes, ~(q = s /\ x = "down")
        PROVE  /\ \A i \in DOMAIN queue[q] : Remains(queue[q][i], s, queue'[q][i])
               /\ Remains(served[q], s, served'[q])
               /\ served'[q] \in Connections
    <2>1. served[q] \in Connections /\ served'[q] = Closed(served[q], s, at, rule)
      BY <1>1, <1>5, <1>6
    <2>2. \A i \in DOMAIN queue[q] : queue'[q][i] = Closed(queue[q][i], s, at, rule)
      BY <1>5, <1>6
    <2>3. \A i \in DOMAIN queue[q] : queue[q][i] \in Connections
      BY <1>3
    <2>4. \A i \in DOMAIN queue[q] : Remains(queue[q][i], s, queue'[q][i])
      BY <2>2, <2>3, ClosedConnection
    <2>5. Remains(served[q], s, served'[q]) /\ served'[q] \in Connections
      BY <2>1, ClosedConnection
    <2> QED BY <2>4, <2>5
  <1>7. ExchangeOK'
    <2>1. queue' \in [Processes -> Seq(Connections)]
      <3>1. \A q \in Processes : queue'[q] \in Seq(Connections)
        BY <1>4, <1>5, EmptySeq
      <3> QED BY <3>1
    <2>2. served' \in [Processes -> Connections]
      <3>1. \A q \in Processes : served'[q] \in Connections
        BY <1>4, <1>6, WhoIsWho
      <3> QED BY <3>1
    <2>3. \A q \in Processes : Len(queue'[q]) <= Backlog
      <3>1. 0 <= Backlog /\ Len(<<>>) = 0
        BY ExchangeAssumption
      <3> QED BY <1>4, <1>5, <3>1 DEF ExchangeInv, ExchangeOK
    <2> QED BY <2>1, <2>2, <2>3 DEF ExchangeInv, ExchangeOK
  <1>8. \A y, q : SendsTo(y, q) /\ y # s => SendsTo(y, q)'
    BY <1>1 DEF SendsTo
  <1>9. OpenOnesAreSent'
    <2> SUFFICES ASSUME NEW q \in Processes
                 PROVE  /\ \A i \in DOMAIN queue'[q] : queue'[q][i].at = "open" => SendsTo(queue[q][i].from, q)'
                        /\ served'[q].at = "open" => SendsTo(served[q].from, q)'
                        /\ \A i, j \in DOMAIN queue'[q] :
                               queue'[q][i].at = "open" /\ queue'[q][j].at = "open"
                               /\ queue'[q][i].from = queue'[q][j].from => i = j
                        /\ \A i \in DOMAIN queue'[q] :
                               ~(queue'[q][i].at = "open" /\ served'[q].at = "open"
                                 /\ queue'[q][i].from = served'[q].from)
      BY DEF OpenOnesAreSent
    <2>1. CASE q = s /\ x = "down"
      BY <1>4, <2>1, WhoIsWho
    <2>2. CASE ~(q = s /\ x = "down")
      <3>1. DOMAIN queue'[q] = DOMAIN queue[q]
        BY <1>5, <2>2
      <3>2. \A i \in DOMAIN queue[q] : queue[q][i].at = "open" => SendsTo(queue[q][i].from, q)
        BY DEF ExchangeInv, OpenOnesAreSent
      <3>3. \A i, j \in DOMAIN queue[q] : queue[q][i].at = "open" /\ queue[q][j].at = "open"
                                          /\ queue[q][i].from = queue[q][j].from => i = j
        BY DEF ExchangeInv, OpenOnesAreSent
      <3>4. /\ served[q].at = "open" => SendsTo(served[q].from, q)
            /\ \A i \in DOMAIN queue[q] : ~(queue[q][i].at = "open" /\ served[q].at = "open"
                                            /\ queue[q][i].from = served[q].from)
        BY DEF ExchangeInv, OpenOnesAreSent
      <3>5. /\ \A i \in DOMAIN queue[q] :
                /\ queue'[q][i].from = queue[q][i].from
                /\ queue'[q][i].at = "open" => queue[q][i].at = "open" /\ queue[q][i].from # s
            /\ served'[q].from = served[q].from
            /\ served'[q].at = "open" => served[q].at = "open" /\ served[q].from # s
        BY <1>6, <2>2 DEF Remains
      <3>6. \A i \in DOMAIN queue[q] : queue'[q][i].at = "open" => SendsTo(queue[q][i].from, q)'
        BY <1>8, <3>2, <3>5
      <3>7. served'[q].at = "open" => SendsTo(served[q].from, q)'
        BY <1>8, <3>4, <3>5
      <3>8. \A i, j \in DOMAIN queue[q] : queue'[q][i].at = "open" /\ queue'[q][j].at = "open"
                                          /\ queue'[q][i].from = queue'[q][j].from => i = j
        BY <3>3, <3>5
      <3>9. \A i \in DOMAIN queue[q] : ~(queue'[q][i].at = "open" /\ served'[q].at = "open"
                                          /\ queue'[q][i].from = served'[q].from)
        BY <3>4, <3>5
      <3> QED
        <4>1. \A i \in DOMAIN queue'[q] : queue'[q][i].at = "open" => SendsTo(queue[q][i].from, q)'
          BY <3>1, <3>6
        <4>2. \A i, j \in DOMAIN queue'[q] : queue'[q][i].at = "open" /\ queue'[q][j].at = "open"
                                             /\ queue'[q][i].from = queue'[q][j].from => i = j
          <5> TAKE i, j \in DOMAIN queue'[q]
          <5>1. i \in DOMAIN queue[q] /\ j \in DOMAIN queue[q]
            BY <3>1
          <5> QED BY <3>8, <5>1
        <4>3. \A i \in DOMAIN queue'[q] : ~(queue'[q][i].at = "open" /\ served'[q].at = "open"
                                             /\ queue'[q][i].from = served'[q].from)
          BY <3>1, <3>9
        <4> QED BY <3>7, <4>1, <4>2, <4>3
    <2> QED BY <2>1, <2>2
  <1>10. ServingInv'
    <2>1. loop'[Coordinator] \in {"connect", "send"} \/ targets' # <<>> => heard' # Nobody
      BY <1>2, WhoIsWho DEF ExchangeInv, ServingInv
    <2>2. ASSUME NEW q \in Processes
          PROVE  /\ loop'[q] = "serve" <=> served'[q].at # "unused"
                 /\ loop'[q] = "down" => queue'[q] = <<>>
                 /\ \A i \in DOMAIN queue'[q] :
                     /\ queue'[q][i].at # "unused"
                     /\ queue'[q][i].at = "rule" => queue'[q][i].rule # Nobody
                 /\ served'[q].at = "rule" => served'[q].rule # Nobody
      <3>1. CASE q = s /\ x = "down"
        BY <1>2, <1>4, <3>1, WhoIsWho
      <3>2. CASE ~(q = s /\ x = "down")
        <4>1. /\ loop[q] = "serve" <=> served[q].at # "unused"
              /\ loop[q] = "down" => queue[q] = <<>>
              /\ \A i \in DOMAIN queue[q] :
                  /\ queue[q][i].at # "unused"
                  /\ queue[q][i].at = "rule" => queue[q][i].rule # Nobody
              /\ served[q].at = "rule" => served[q].rule # Nobody
          BY DEF ExchangeInv, ServingInv
        <4>2. loop'[q] = "serve" <=> served'[q].at # "unused"
          <5>1. Remains(served[q], s, served'[q])
            BY <1>6, <3>2
          <5> QED BY <1>2, <3>2, <4>1, <5>1 DEF Remains
        <4>3. loop'[q] = "down" => queue'[q] = <<>>
          <5>1. ASSUME loop'[q] = "down" PROVE queue[q] = <<>>
            BY <1>2, <3>2, <4>1, <5>1
          <5>2. queue'[q] \in Seq(Connections) /\ Len(queue'[q]) = Len(queue[q])
            BY <1>5, <3>2
          <5> QED BY <5>1, <5>2, EmptySeq
        <4>4. /\ \A i \in DOMAIN queue'[q] :
                  /\ queue'[q][i].at # "unused"
                  /\ queue'[q][i].at = "rule" => queue'[q][i].rule # Nobody
              /\ served'[q].at = "rule" => served'[q].rule # Nobody
          <5>1. DOMAIN queue'[q] = DOMAIN queue[q]
            BY <1>5, <3>2
          <5>2. /\ \A i \in DOMAIN queue[q] : Remains(queue[q][i], s, queue'[q][i])
                /\ Remains(served[q], s, served'[q])
            BY <1>6, <3>2
          <5>3. \A i \in DOMAIN queue[q] :
                    /\ queue'[q][i].at # "unused"
                    /\ queue'[q][i].at = "rule" => queue'[q][i].rule # Nobody
            <6> TAKE i \in DOMAIN queue[q]
            <6>1. Remains(queue[q][i], s, queue'[q][i])
              BY <5>2
            <6>2. queue[q][i].at # "unused" /\ (queue[q][i].at = "rule" => queue[q][i].rule # Nobody)
              BY <4>1
            <6> QED BY <6>1, <6>2 DEF Remains
          <5>4. served'[q].at = "rule" => served'[q].rule # Nobody
            BY <4>1, <5>2 DEF Remains
          <5> QED BY <5>1, <5>3, <5>4
        <4> QED BY <4>2, <4>3, <4>4
      <3> QED BY <3>1, <3>2
    <2> QED BY <2>1, <2>2 DEF ServingInv
  <1> QED BY <1>7, <1>9, <1>10 DEF ExchangeInv

\* Sending, whether it fails or not, and dying.
LEMMA QuittingSteps ==
    ASSUME NEW s \in Processes, ExchangeInv, Send(s) \/ SendFails(s) \/ Crash(s) \/ Killed(s)
    PROVE  ExchangeInv'
  <1>0. /\ heard \in Rules \cup {Nobody} /\ taken \in [Nodes -> SUBSET GeneIds]
        /\ targets \in Seq(Nodes) /\ faults \in 0..MaxFaults
        /\ loop[Coordinator] \in {"connect", "send"} \/ targets # <<>> => heard # Nobody
    BY DEF ExchangeInv, ExchangeOK, ServingInv
  <1>1. ASSUME NEW at \in {"rule", "broken"}, NEW rule \in Rules \cup {Nobody},
               at = "rule" => rule # Nobody,
               loop[s] = "send", Close(s, at, rule), AfterSharing(s), targets' = targets,
               faults' \in 0..MaxFaults
        PROVE  ExchangeInv'
    <2>1. PICK x \in {"poll", "act"} : loop' = [loop EXCEPT ![s] = x]
      BY <1>1 DEF AfterSharing
    <2>2. /\ queue' = [q \in Processes |-> IF q = s /\ x = "down" THEN <<>>
                          ELSE [i \in DOMAIN queue[q] |-> Closed(queue[q][i], s, at, rule)]]
          /\ served' = [q \in Processes |-> IF q = s /\ x = "down" THEN Unused
                          ELSE Closed(served[q], s, at, rule)]
      BY <1>1, <2>1 DEF Close
    <2>3. /\ peer' = peer /\ heard' = heard /\ taken' = taken /\ shares' = shares
          /\ x # "down" /\ loop[s] # "serve"
      BY <1>1, <2>1 DEF AfterSharing
    <2>4. heard' = Nobody => targets' = <<>> /\ (heard = Nobody \/ s = Coordinator)
      BY <1>0, <1>1, <2>3
    <2>5. /\ heard' \in Rules \cup {Nobody} /\ taken' \in [Nodes -> SUBSET GeneIds]
          /\ targets' \in Seq(Nodes) /\ faults' \in 0..MaxFaults
      BY <1>0, <1>1, <2>3
    <2>6. x \in {"poll", "act", "down"} /\ (at = "rule" => rule # Nobody)
      BY <1>1, <2>1
    <2> QED BY <2>1, <2>2, <2>3, <2>4, <2>5, <2>6, Quits
  <1>2. CASE Send(s)
    <2>1. PICK rule \in Claims(s) : Close(s, "rule", rule)
      BY <1>2 DEF Send
    <2>2. rule \in Rules /\ rule # Nobody
      <3>1. CASE s = Coordinator
        BY <1>0, <1>2, <2>1, <3>1 DEF Claims, Send
      <3>2. CASE s # Coordinator
        <4>1. s \in Nodes /\ RulesOf[s] \in SUBSET Rules
          BY <3>2, ExchangeAssumption DEF Processes
        <4> QED BY <2>1, <3>2, <4>1, WhoIsWho DEF Claims
      <3> QED BY <3>1, <3>2
    <2> QED BY <1>0, <1>1, <1>2, <2>1, <2>2 DEF Send
  <1>3. CASE SendFails(s)
    <2>1. faults' \in 0..MaxFaults
      BY <1>0, <1>3, ExchangeAssumption DEF SendFails
    <2> QED BY <1>1, <1>3, <2>1 DEF SendFails
  <1>4. ASSUME Dies(s), faults' \in 0..MaxFaults PROVE ExchangeInv'
    <2>1. /\ heard' \in Rules \cup {Nobody} /\ taken' \in [Nodes -> SUBSET GeneIds]
          /\ targets' \in Seq(Nodes)
          /\ heard' = Nobody => targets' = <<>> /\ (heard = Nobody \/ s = Coordinator)
      <3>1. CASE s = Coordinator
        BY <1>0, <1>4, <3>1, EmptySeq DEF Dies
      <3>2. CASE s # Coordinator
        <4>1. s \in Nodes
          BY <3>2 DEF Processes
        <4> QED BY <1>0, <1>4, <3>2, <4>1 DEF Dies
      <3> QED BY <3>1, <3>2
    <2>2. /\ queue' = [q \in Processes |-> IF q = s THEN <<>>
                          ELSE [i \in DOMAIN queue[q] |-> Closed(queue[q][i], s, "broken", Nobody)]]
          /\ served' = [q \in Processes |-> IF q = s THEN Unused
                          ELSE Closed(served[q], s, "broken", Nobody)]
          /\ loop' = [loop EXCEPT ![s] = "down"] /\ peer' = peer /\ shares' = shares
      BY <1>4 DEF Dies
    <2> QED BY <1>4, <2>1, <2>2, Quits
  <1>5. CASE Crash(s)
    <2>1. faults' \in 0..MaxFaults
      BY <1>0, <1>5, ExchangeAssumption DEF Crash
    <2> QED BY <1>4, <1>5, <2>1 DEF Crash
  <1>6. CASE Killed(s)
    BY <1>0, <1>4, <1>6 DEF Killed
  <1> QED BY <1>2, <1>3, <1>5, <1>6

\* Whoever shares with whom, dies or fails to send: an open connection has its sender at
\* work on it, so that nobody who reads one waits for a sender that has gone.
THEOREM ExchangeInductive == ExchangeSpec => []ExchangeInv
  <1>1. ExchangeInit => ExchangeInv
    <2> SUFFICES ASSUME ExchangeInit PROVE ExchangeInv
      OBVIOUS
    <2>1. \A p \in Processes : /\ queue[p] = <<>> /\ DOMAIN queue[p] = {} /\ Len(queue[p]) = 0
                               /\ served[p] = Unused /\ loop[p] = "poll"
      BY EmptySeq DEF ExchangeInit
    <2>2. ExchangeOK
      <3>1. 0 \in 0..MaxShares /\ 0 \in 0..MaxFaults /\ 0 <= Backlog
        BY ExchangeAssumption
      <3>2. queue \in [Processes -> Seq(Connections)]
        BY EmptySeq DEF ExchangeInit
      <3>3. targets \in Seq(Nodes)
        BY EmptySeq DEF ExchangeInit
      <3> QED BY <2>1, <3>1, <3>2, <3>3, WhoIsWho DEF ExchangeInit, ExchangeOK
    <2>3. OpenOnesAreSent
      BY <2>1, WhoIsWho DEF OpenOnesAreSent
    <2>4. ServingInv
      BY <2>1, WhoIsWho DEF ServingInv, ExchangeInit
    <2> QED BY <2>2, <2>3, <2>4 DEF ExchangeInv
  <1>2. ExchangeInv /\ [ExchangeNext]_exchangeVars => ExchangeInv'
    <2> SUFFICES ASSUME ExchangeInv, [ExchangeNext]_exchangeVars PROVE ExchangeInv'
      OBVIOUS
    <2>1. ASSUME NEW p \in Processes, Step(p) \/ SendFails(p) \/ Crash(p) \/ Killed(p) \/ Start(p)
          PROVE  ExchangeInv'
      BY <2>1, AcceptKeeps, ServingSteps, ConnectKeeps, QuietSteps, QuittingSteps DEF Step
    <2>2. CASE CoordinatorStep \/ Broadcast
      BY <2>2, ServingSteps, QuietSteps DEF CoordinatorStep
    <2>3. ASSUME NEW n \in Nodes, ImportRule(n) \/ Share(n) PROVE ExchangeInv'
      BY <2>3, ServingSteps, QuietSteps
    <2>4. CASE UNCHANGED exchangeVars
      BY <2>4 DEF exchangeVars, ExchangeInv, ExchangeOK, OpenOnesAreSent, SendsTo, ServingInv
    <2> QED BY <2>1, <2>2, <2>3, <2>4 DEF ExchangeNext
  <1> QED BY <1>1, <1>2, PTL DEF ExchangeSpec
=============================================================================
