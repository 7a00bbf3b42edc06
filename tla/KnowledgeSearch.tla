--------------------------- MODULE KnowledgeSearch ---------------------------
(***************************************************************************)
(* The two searches over the knowledge documents.  That of the knowledge    *)
(* server (kolibri_knowledge_search_legacy, backend/src/knowledge.c) sorts  *)
(* all that match.  That of the index (kolibri_knowledge_search,            *)
(* backend/src/knowledge_index.c) goes through the documents once, keeps    *)
(* the best in the caller's array, and sorts that in the end; it compares   *)
(* scores in double with scores that it has rounded to float.               *)
(* A document's score is a small number, 0 for one that does not match;     *)
(* what the scores are made of (words, weights, cosines) is left out.       *)
(***************************************************************************)
EXTENDS Integers, Sequences, FiniteSets, SequencesExt

CONSTANTS
    DocCount,       \* documents of the index
    MaxScore,
    AsFloat,        \* AsFloat[s]: the float that a score s is kept as
    SearchLimits    \* how many documents a caller may ask for

\* Rounding keeps the order of the scores, and leaves a float what it is.
ASSUME SearchAssumption ==
    /\ DocCount \in Nat /\ MaxScore \in Nat
    /\ SearchLimits \subseteq Nat \ {0}
    /\ AsFloat \in [1..MaxScore -> Int]
    /\ \A s, t \in 1..MaxScore :
        /\ s <= t => AsFloat[s] <= AsFloat[t]
        /\ IF s > AsFloat[t] THEN AsFloat[s] >= AsFloat[t] ELSE AsFloat[s] <= AsFloat[t]

VARIABLES
    scores,         \* the score of each document
    limit,          \* the caller's
    seen,           \* documents gone through
    found,          \* out_indices
    settled         \* found is sorted, and the search over

searchVars == <<scores, limit, seen, found, settled>>

SearchDocs == 1..DocCount

SearchInit ==
    /\ scores \in [SearchDocs -> 0..MaxScore]
    /\ limit \in SearchLimits
    /\ seen = 0 /\ found = <<>> /\ settled = FALSE

\* out_scores.
Kept(i) == AsFloat[scores[found[i]]]

\* The first of the places with the least score.
Weakest ==
    CHOOSE i \in 1..limit :
        \A k \in 1..limit : Kept(i) < Kept(k) \/ (Kept(i) = Kept(k) /\ i <= k)

\* One document: left out, put behind the others, or put in the place of the weakest.
Consider ==
    /\ seen < DocCount
    /\ seen' = seen + 1
    /\ \/ scores[seen'] = 0 /\ UNCHANGED found
       \/ /\ scores[seen'] > 0 /\ Len(found) < limit
          /\ found' = Append(found, seen')
       \/ /\ scores[seen'] > 0 /\ Len(found) = limit
          /\ found' = IF scores[seen'] > Kept(Weakest)
                      THEN [found EXCEPT ![Weakest] = seen'] ELSE found
    /\ UNCHANGED <<scores, limit, settled>>

\* Two places are exchanged if the later one is better, ...
Swapped(docs, i, j) ==
    IF AsFloat[scores[docs[j]]] > AsFloat[scores[docs[i]]]
    THEN [docs EXCEPT ![i] = docs[j], ![j] = docs[i]] ELSE docs

\* ... one with each behind it, ...
Pass(docs, i) ==
    LET upTo[j \in i..Len(docs)] == IF j = i THEN docs ELSE Swapped(upTo[j - 1], i, j)
    IN  upTo[Len(docs)]

\* ... and so one after the other.
InOrder(docs) ==
    LET after[i \in 0..Len(docs)] == IF i = 0 THEN docs ELSE Pass(after[i - 1], i)
    IN  after[Len(docs)]

Settle ==
    /\ seen = DocCount /\ ~settled
    /\ settled' = TRUE
    /\ found' = InOrder(found)
    /\ UNCHANGED <<scores, limit, seen>>

SearchNext == Consider \/ Settle

SearchSpec == SearchInit /\ [][SearchNext]_searchVars

-----------------------------------------------------------------------------
\* compare_ranked: the higher score first, then the lower index.
Before(s, d, e) == s[d] > s[e] \/ (s[d] = s[e] /\ d < e)

\* kolibri_knowledge_search_legacy: the first n of the matching documents.
Ranking(s, n) ==
    LET hits == {d \in DOMAIN s : s[d] > 0}
        size == IF Cardinality(hits) < n THEN Cardinality(hits) ELSE n
    IN  [i \in 1..size |->
            CHOOSE d \in hits : Cardinality({e \in hits : Before(s, e, d)}) = i - 1]

-----------------------------------------------------------------------------
SearchOK ==
    /\ scores \in [SearchDocs -> 0..MaxScore] /\ limit \in SearchLimits
    /\ seen \in 0..DocCount
    /\ found \in Seq(1..seen) /\ Len(found) <= limit
    /\ settled \in BOOLEAN /\ (settled => seen = DocCount)

\* The search that keeps a few and the one that sorts them all agree on the scores
\* of what they find, as far as a float tells them apart: all along, no document
\* gone through is above one that is kept, none is kept twice, and none is
\* missing while there is room.
BestAreFound ==
    LET hits == {d \in 1..seen : scores[d] > 0}
        kept == {found[i] : i \in DOMAIN found}
        best == Ranking(scores, limit)
    IN  /\ kept \subseteq hits
        /\ Cardinality(kept) = Len(found)
        /\ Len(found) < limit => kept = hits
        /\ \A d \in hits \ kept, e \in kept : AsFloat[scores[d]] <= AsFloat[scores[e]]
        /\ settled => [i \in DOMAIN found |-> Kept(i)]
                      = [i \in DOMAIN best |-> AsFloat[scores[best[i]]]]

SearchInv == SearchOK /\ BestAreFound
=============================================================================
