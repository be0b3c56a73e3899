----------------------------- MODULE NextWords -----------------------------
(***************************************************************************)
(* The n-gram's answer to a keystroke.  Scoring every shipped word is too  *)
(* slow, so of the words only the shipped list knows just the n commonest  *)
(* that match are scored, found in sorted lists that are built when first  *)
(* asked for and again whenever the shipped counts have moved.  The answer *)
(* must be the one a full scan would give.                                 *)
(*                                                                         *)
(* Scores are compared as whole numbers over common denominators.          *)
(***************************************************************************)
EXTENDS Spelling, SequencesExt, FiniteSets, FiniteSetsExt

CONSTANTS
    BarWords,      \* words any of the tables may hold
    Apostrophe,    \* the letter that may be left out
    Evidence,      \* what the context rows may say: a record of the triple
                   \* and the pair row, each a count for every word
    Partials,      \* beginnings typed
    BarSize,       \* n
    AlphaNum,      \* personal_weight is AlphaNum / AlphaDen
    AlphaDen,
    LambdaTri,     \* weights of the interpolation, out of LambdaSum
    LambdaBi,
    LambdaUni,
    LambdaSum,
    CorpusNum,     \* _CORPUS_PRIOR_WEIGHT is CorpusNum / CorpusDen
    CorpusDen,
    Wordlist,      \* the frequency list and dictionary, a function
    ExtraWords,    \* the unranked list
    PriorWords,    \* words the corpus prior may count
    MaxTimes       \* bound: times one word is typed

NoEvidence == [w \in BarWords |-> 0]

ASSUME NextWordsConstants ==
    /\ BarWords \cup Partials \subseteq Seq(Nat) /\ IsFiniteSet(BarWords)
    /\ BarSize \in Nat \ {0} /\ AlphaDen \in Nat \ {0} /\ AlphaNum \in 0..AlphaDen
    /\ {LambdaTri, LambdaBi, LambdaUni} \subseteq 0..LambdaSum /\ LambdaSum > 0
    /\ CorpusDen \in Nat \ {0} /\ CorpusNum \in 0..CorpusDen
    /\ Evidence \subseteq [tri : [BarWords -> Nat], bi : [BarWords -> Nat]]
    /\ Wordlist \in [BarWords -> Nat] /\ ExtraWords \cup PriorWords \subseteq BarWords

VARIABLES
    baseCounts,  \* _base_unigrams
    personal,    \* user_vocab
    fromCorpus,  \* _corpus_unigrams
    baseMoved,   \* its version is not the one the lists were built at
    sortedWords, \* the words of the sorted lists
    topRow       \* _base_candidate_top for BarSize; <<>> when there is none

nextWordsVars == <<baseCounts, personal, fromCorpus, baseMoved, sortedWords, topRow>>

Held(table) == {w \in BarWords : table[w] > 0}
Total(table) == SumFunctionOnSet(table, BarWords)
Atleast1(k) == IF k = 0 THEN 1 ELSE k

-----------------------------------------------------------------------------
(* Matching and scoring.                                                   *)

Bare(w) == SelectSeq(w, LAMBDA c : c # Apostrophe)
Contracted(w) == Apostrophe \in ToSet(w)

\* The apostrophe is optional in what is typed, until it is typed.
MatchesPartial(w, p) ==
    \/ StartsWith(w, p)
    \/ Contracted(w) /\ ~Contracted(p) /\ StartsWith(Bare(w), p)

TypingCount(w) == personal[w] * CorpusDen + CorpusNum * fromCorpus[w]
TypingTotal == Total(personal) * CorpusDen + CorpusNum * Total(fromCorpus)

\* P_uni over UniScale.
UniScale == AlphaDen * Atleast1(TypingTotal) * Atleast1(Total(baseCounts))
UniScore(w) == AlphaNum * TypingCount(w) * Atleast1(Total(baseCounts))
               + (AlphaDen - AlphaNum) * baseCounts[w] * Atleast1(TypingTotal)

\* The score of w after the evidence of a triple and a pair row.
WordScore(w, e) ==
    LET t == Atleast1(Total(e.tri))  b == Atleast1(Total(e.bi)) IN
    IF Held(e.tri) \cup Held(e.bi) = {} THEN UniScore(w)
    ELSE UniScale * (LambdaTri * e.tri[w] * b + LambdaBi * e.bi[w] * t)
         + LambdaUni * UniScore(w) * t * b

\* The best of the words scored: by score, then by the order of words.
BestWords(scored, p, e) ==
    LET score == [w \in {v \in scored : MatchesPartial(v, p)} |-> WordScore(w, e)]
        Ahead(v, w) == score[v] > score[w] \/ (score[v] = score[w] /\ Before(v, w))
    IN FirstBy(BarSize, {w \in DOMAIN score : score[w] > 0}, Ahead)

\* What is scored whatever the shipped list says.
SparseWords(e) == UNION {Held(e.tri), Held(e.bi), Held(personal), Held(fromCorpus)}

-----------------------------------------------------------------------------
(* The shortcut.                                                           *)

\* _top_base_candidates from lists that hold these words: a range of the
\* sorted words and, unless an apostrophe was typed, a range of the
\* contractions by their bare spelling.
TopOf(words, p) ==
    LET range == {w \in words : StartsWith(w, p)}
                     \cup {w \in words : p # <<>> /\ ~Contracted(p) /\ Contracted(w)
                                           /\ StartsWith(Bare(w), p)}
        Ahead(v, w) == \/ baseCounts[v] > baseCounts[w]
                       \/ baseCounts[v] = baseCounts[w] /\ Before(v, w)
    IN FirstBy(BarSize, range, Ahead)

\* (Slip) The kept row outlives the counts it was ranked by.
KeptTop(p) == IF p = <<>> /\ topRow # <<>> THEN topRow ELSE TopOf(Held(baseCounts), p)

\* The lists as a prediction finds them: built again if the counts moved,
\* the row of the empty beginning kept until then.
CurrentTop(p) ==
    IF baseMoved THEN TopOf(Held(baseCounts), p)
    ELSE IF p = <<>> /\ topRow # <<>> THEN topRow ELSE TopOf(sortedWords, p)

Predicted(p, e) ==
    BestWords(SparseWords(e) \cup ToSet(CurrentTop(p)), p, e)

\* A launch: the lists are read in, and nothing has been typed.
NextWordsInit ==
    /\ baseCounts = [w \in BarWords |-> IF Wordlist[w] = 0 /\ w \in ExtraWords THEN 1
                                        ELSE Wordlist[w]]
    /\ personal = NoEvidence /\ fromCorpus = NoEvidence
    /\ baseMoved = TRUE /\ sortedWords = {} /\ topRow = <<>>

\* predict_with_scores
Predict(p) ==
    /\ sortedWords' = IF baseMoved THEN Held(baseCounts) ELSE sortedWords
    /\ topRow' = IF p = <<>> THEN CurrentTop(p) ELSE IF baseMoved THEN <<>> ELSE topRow
    /\ baseMoved' = FALSE
    /\ UNCHANGED <<baseCounts, personal, fromCorpus>>

\* learn, learn_word, a tap; and the way back down.
CountTyping(w, n) ==
    /\ personal' = [personal EXCEPT ![w] = n]
    /\ UNCHANGED <<baseCounts, fromCorpus, baseMoved, sortedWords, topRow>>

\* load_corpus_prior
CountCorpus(S) ==
    /\ fromCorpus' = [w \in BarWords |-> IF w \in S THEN 2 ELSE 0]
    /\ UNCHANGED <<baseCounts, personal, baseMoved, sortedWords, topRow>>

\* A line of the dictionary, at launch and again after a clearing.
CountShipped(w) ==
    /\ Wordlist[w] > 0 /\ baseCounts[w] = Wordlist[w]  \* bound: once
    /\ baseCounts' = [baseCounts EXCEPT ![w] = @ + 2] /\ baseMoved' = TRUE
    /\ UNCHANGED <<personal, fromCorpus, sortedWords, topRow>>

\* clear_user_data: every table emptied, the lists and their extra words in.
ForgetCounts ==
    /\ baseCounts' = [w \in BarWords |-> IF Wordlist[w] = 0 /\ w \in ExtraWords THEN 1
                                         ELSE Wordlist[w]]
    /\ personal' = NoEvidence /\ fromCorpus' = NoEvidence /\ baseMoved' = TRUE
    /\ UNCHANGED <<sortedWords, topRow>>

NextWordsNext ==
    \/ \E p \in Partials : Predict(p)
    \/ \E w \in BarWords : CountShipped(w) \/ \E n \in 0..MaxTimes : CountTyping(w, n)
    \/ \E S \in SUBSET PriorWords : CountCorpus(S)
    \/ ForgetCounts

-----------------------------------------------------------------------------
(* Properties.                                                             *)

\* The shortcut loses nothing: at any moment and for any typed beginning and
\* evidence the bar gets the words, in the order, that scoring every word of
\* every table would give.
PruningLosesNothing ==
    \A p \in Partials, e \in Evidence :
        Predicted(p, e) =
            BestWords(SparseWords(e) \cup Held(baseCounts), p, e)
=============================================================================
