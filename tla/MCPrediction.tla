---------------------------- MODULE MCPrediction ----------------------------
(***************************************************************************)
(* The prediction engine on small instances: the vocabulary and its gate,  *)
(* the pair and triple counts, the recogniser's indexes, the n-gram's      *)
(* shortcut and the fusing of lists.  Here they share no state (a table    *)
(* one of them shares with another is a variable of each), so a behaviour  *)
(* runs one of them, and what is costly to check is checked where it runs. *)
(***************************************************************************)
EXTENDS VocabularyGate, ContextCounts, WordIndexes, NextWords, Ranking

-----------------------------------------------------------------------------
(* ContextCounts                                                           *)

PhraseTexts == {<<"of", "the">>, <<"the", "of", "zorb">>}
CorpusText  == <<"zorb", "of", "zorb">>
BroughtModels ==
    {[readable |-> TRUE, share |-> [e \in Edges |-> IF e = <<"of", "zorb">> THEN 12 ELSE 0],
      words |-> {"zorb"}]}
Shipped == {<<"of", "the">>}
ShippedTriples == {<<"the", "of", "zorb">>}
Seeds == {<<"of", "the">>, <<"the", "of">>}

-----------------------------------------------------------------------------
(* WordIndexes: letters on a row of keys, or on a ring that has no         *)
(* neighbours.                                                             *)

FewWords == {<<1, 2>>, <<1, 2, 3>>, <<2, 1, 3, 3>>, <<3, 2>>}
Starts == {[w \in FewWords |-> IF w \in S THEN 1 ELSE 0] :
              S \in {{<<1, 2, 3>>, <<3, 2>>}, {<<1, 2, 3>>, <<3, 2>>, <<1, 2>>}}}
FewTypings == {<<1, 2>>, <<2, 1>>, <<1, 3, 2>>, <<1, 2, 3>>, <<2, 1, 3>>, <<3, 1, 2>>,
               <<1, 2, 1, 3>>, <<2, 3, 3>>, <<1>>}
OnGrid == [g \in {"row", "ring"} |-> [c \in 1..3 |->
             [k \in {x \in 1..3 : x = c \/ (g = "row" /\ x \in {c - 1, c + 1})} |->
                IF k = c THEN 0 ELSE -1]]]
Omit  == -3
Extra == -4
Swap  == -1
Buy   == -2
Logs  == [f \in 0..2 |-> 8 * f]

-----------------------------------------------------------------------------
(* NextWords: 0 is the apostrophe.                                         *)

ScoredWords == {<<1>>, <<1, 2>>, <<1, 0, 2>>, <<2>>, <<1, 2, 2>>}
Counts(S, n) == [w \in ScoredWords |-> IF w \in S THEN n ELSE 0]
Frequencies == [w \in ScoredWords |-> IF w \in {<<1>>, <<2>>} THEN 3
                                      ELSE IF w = <<1, 2, 2>> THEN 0 ELSE 1]
Rows == {[tri |-> Counts({}, 0), bi |-> Counts({}, 0)],
         [tri |-> Counts({}, 0), bi |-> Counts({<<2>>, <<1, 0, 2>>}, 2)],
         [tri |-> Counts({<<1, 2, 2>>}, 1), bi |-> Counts({<<2>>, <<1, 0, 2>>}, 2)]}
Unranked == {<<1, 2, 2>>}
TypedBeginnings == {<<>>, <<1>>, <<1, 2>>, <<1, 0>>}
CountedByCorpus == {<<2>>, <<1, 2, 2>>}

-----------------------------------------------------------------------------
(* Ranking                                                                 *)

FourWords == {"we", "web", "wed", "fk"}
P(w, p) == [word |-> w, p |-> p]
NeverSeen == [w \in FourWords |-> 0]
FewSituations ==
    {[next |-> FALSE, twoLetters |-> TRUE, follows |-> NeverSeen,
      ngram |-> <<P("web", 4), P("wed", 4), P("fk", 1), P("we", 1)>>,
      fuzzy |-> <<P("we", 3), P("wed", 1)>>],
     [next |-> FALSE, twoLetters |-> TRUE, follows |-> NeverSeen,
      ngram |-> <<P("wed", 4), P("fk", 1), P("we", 1)>>,
      fuzzy |-> <<P("we", 3), P("wed", 1)>>],
     [next |-> FALSE, twoLetters |-> FALSE, follows |-> [NeverSeen EXCEPT !["fk"] = 3],
      ngram |-> <<P("wed", 3), P("we", 2)>>,
      fuzzy |-> <<P("wed", 3), P("fk", 2), P("we", 1)>>],
     [next |-> TRUE, twoLetters |-> FALSE, follows |-> [NeverSeen EXCEPT !["we"] = 1],
      ngram |-> <<P("fk", 3), P("wed", 2), P("we", 1)>>, fuzzy |-> <<>>]}

-----------------------------------------------------------------------------

VARIABLE engine
Engines == {"gate", "contexts", "indexes", "shortcut", "ranking"}

PredictionInit ==
    /\ engine \in Engines
    /\ Init /\ ContextInit /\ IndexInit /\ NextWordsInit /\ RankingInit
    \* What varies in the initial state of an engine that does not run.
    /\ engine # "gate" => candidates = Zero
    /\ engine # "indexes" =>
         /\ Cardinality(KnownIn(freq)) = 2
         /\ spatial = [grid |-> "row", address |-> "a"]
    /\ engine # "ranking" => strategy = "rank" /\ ~filtering

PredictionNext ==
    /\ UNCHANGED engine
    /\ \/ /\ engine = "gate" /\ Next
          /\ UNCHANGED <<contextVars, indexVars, nextWordsVars, rankingVars>>
       \/ /\ engine = "contexts" /\ ContextNext
          /\ UNCHANGED <<vars, indexVars, nextWordsVars, rankingVars>>
       \/ /\ engine = "indexes" /\ IndexNext
          /\ UNCHANGED <<vars, contextVars, nextWordsVars, rankingVars>>
       \/ /\ engine = "shortcut" /\ NextWordsNext
          /\ UNCHANGED <<vars, contextVars, indexVars, rankingVars>>
       \/ /\ engine = "ranking" /\ RankingNext
          /\ UNCHANGED <<vars, contextVars, indexVars, nextWordsVars>>

PredictionSpec ==
    PredictionInit
        /\ [][PredictionNext]_<<engine, vars, contextVars, indexVars, nextWordsVars, rankingVars>>

-----------------------------------------------------------------------------
(* Each where its engine runs: the properties of that name, without "Run". *)

\* The shipped and the user's shares of every pair and triple add up.
RunSharesAddUp == engine = "contexts" => SharesAddUp

\* A prefix index that was kept up answers as one built afresh.
RunIndexIsAsRebuilt == engine = "indexes" => IndexIsAsRebuilt

\* No word far from what was typed outranks a completion of it.
RunTypedLettersWin == engine = "indexes" => TypedLettersWin

\* The shortcut gives the answer of a full scan.
RunPruningLosesNothing == engine = "shortcut" => PruningLosesNothing

\* Marking a word bad never raises it.
RunDemotionNeverRaises == engine = "ranking" => DemotionNeverRaises

=============================================================================
