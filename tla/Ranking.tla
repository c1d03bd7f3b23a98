------------------------------ MODULE Ranking ------------------------------
(***************************************************************************)
(* How a search orders the chunks of a segment (kb/search.py, _search):    *)
(* by similarity, by keywords, or by both, and what it returns of them.    *)
(* Scores are whole numbers, better when larger; fractions are kept as     *)
(* whole multiples of 1/Common.                                            *)
(***************************************************************************)
EXTENDS Integers, Sequences, FiniteSets, SequencesExt, FiniteSetsExt

CONSTANTS
  Common,    \* a common multiple of all denominators
  RankBase,  \* rrf_k
  Weights    \* the vector's share is weight / Weights

-----------------------------------------------------------------------------
\* A ranking is a sequence of chunks with their scores.
Entry(id, score) == [id |-> id, score |-> score]
Ids(ranking) == {ranking[k].id : k \in DOMAIN ranking}
RankOf(ranking, id) == CHOOSE k \in DOMAIN ranking : ranking[k].id = id
ScoreOf(ranking, id) == ranking[RankOf(ranking, id)].score
Cut(ranking, n) == SubSeq(ranking, 1, IF Len(ranking) < n THEN Len(ranking) ELSE n)

\* The ranking of entries by score; what is level goes by place.
Ranked(entries, place) ==
  SetToSortSeq(entries, LAMBDA x, y : x.score > y.score \/ (x.score = y.score /\ place[x.id] < place[y.id]))

\* The adapters rank by score, and chunks that are level as they found them; the
\* keywords rank by their score, then by where the chunk stands in its text.
Semantic(q) == Cut(Ranked({Entry(id, q.vector[id]) : id \in q.chunks}, q.ordinal), q.candidates)
Lexical(q) == Cut(Ranked({Entry(id, q.words[id]) : id \in {x \in q.chunks : q.words[x] > 0}}, q.ordinal), q.candidates)

\* What a ranking adds to a chunk's score: by rank, or min-max within the list.
Share(q, ranking, weight, id) ==
  LET scores == {ranking[k].score : k \in DOMAIN ranking}
      spread == Max(scores) - Min(scores)
  IN  CASE id \notin Ids(ranking) -> 0
        [] id \in Ids(ranking) /\ q.mode = "rrf" -> Common \div (RankBase + RankOf(ranking, id))
        [] OTHER -> (weight * Common * (IF spread = 0 THEN 1 ELSE ScoreOf(ranking, id) - Min(scores)))
                       \div (Weights * (IF spread = 0 THEN 1 ELSE spread))

\* Chunks that are level go by their rank in the first list that is not empty,
\* then by ID; a list with no weight is not made.
Fused(q) ==
  LET vector == IF q.mode = "hybrid" /\ q.weight = 0 THEN <<>> ELSE Semantic(q)
      words == IF q.mode = "hybrid" /\ q.weight = Weights THEN <<>> ELSE Lexical(q)
      first == IF vector = <<>> THEN words ELSE vector
      most == Cardinality(q.chunks) + 1
      place == [id \in q.chunks |-> most * (IF id \in Ids(first) THEN RankOf(first, id) ELSE most)
                                      + Cardinality({x \in q.chunks : x < id})]
  IN  Ranked({Entry(id, Share(q, vector, q.weight, id) + Share(q, words, Weights - q.weight, id))
                : id \in Ids(vector) \cup Ids(words)}, place)

Ordered(q) ==
  CASE q.mode = "similarity" -> Semantic(q)
    [] q.mode = "keyword" -> Lexical(q)
    [] OTHER -> Fused(q)

\* The results before any reranking.
Results(q) == LET r == Ordered(q) IN Cut([k \in DOMAIN r |-> r[k].id], q.top)

-----------------------------------------------------------------------------
\* IDs are drawn anew at each build: with other IDs for the same chunks a search
\* gives the same ones in the same order, but for chunks of a hybrid search that
\* no vector has found and that the words put level (search.py:264).
Repeatable(q, renamings) ==
  LET vector == Ids(Semantic(q))
      level == \E x, y \in q.chunks \ vector : x # y /\ q.words[x] = q.words[y] /\ q.words[x] > 0
  IN
  (q.mode = "hybrid" /\ level) \/
    \A to \in renamings :
      LET from == [id \in q.chunks |-> CHOOSE x \in q.chunks : to[x] = id]
          renamed == [q EXCEPT !.vector = [id \in q.chunks |-> q.vector[from[id]]],
                               !.words = [id \in q.chunks |-> q.words[from[id]]],
                               !.ordinal = [id \in q.chunks |-> q.ordinal[from[id]]]]
      IN  Results(renamed) = [k \in DOMAIN Results(q) |-> to[Results(q)[k]]]

\* A chunk that both rankings put before another comes before it; and with all
\* the weight on one ranking a hybrid search is that ranking.
ByMerit(q) ==
  LET results == Results(q)
      before(ranking, x, y) == x \in Ids(ranking) /\ (y \in Ids(ranking) => RankOf(ranking, x) < RankOf(ranking, y))
  IN
  /\ \A x, y \in q.chunks :
       before(Semantic(q), x, y) /\ before(Lexical(q), x, y) /\ y \in ToSet(results) =>
         x \in ToSet(results) /\ SelectInSeq(results, LAMBDA id : id = x) < SelectInSeq(results, LAMBDA id : id = y)
  /\ q.mode = "hybrid" /\ q.weight = Weights => results = Results([q EXCEPT !.mode = "similarity"])
  /\ q.mode = "hybrid" /\ q.weight = 0 => results = Results([q EXCEPT !.mode = "keyword"])
=============================================================================
