------------------------------ MODULE Ranking ------------------------------
(***************************************************************************)
(* From what the engines propose to what the bar offers: HybridPredictor   *)
(* filters the n-gram's list and the recogniser's list, fuses them by the  *)
(* strategy the user chose, lowers the words marked bad, and keeps the     *)
(* first few.  Words removed by the user come back only by hand or by      *)
(* being typed again.                                                      *)
(*                                                                         *)
(* Scores are compared as whole numbers; a strategy that works with        *)
(* logarithms is compared by the products they stand for.                  *)
(***************************************************************************)
EXTENDS Integers, Spelling, SequencesExt, Functions, FiniteSets

CONSTANTS
    RankWords,     \* words the engines may propose
    Unknowns,      \* those no table holds, proposed by a context row alone
    ShortWords,    \* those too short to be offered as next words
    Acronyms,      \* short ones the user taught
    Flagged,       \* words the explicit filter holds back
    Situations,    \* [next, twoLetters : is the word to come, or are there two
                   \* letters of one; ngram, fuzzy : the lists proposed, each of
                   \* [word, p]; follows : how often each word followed the last]
    NextWeight,    \* the n-gram's weight for a next word, against 1
    FuzzyWeight,
    MissingOdds,   \* a word missing from a list has probability 1/MissingOdds
    RescueFloor,   \* SHORT_PREFIX_RESCUE_FLOOR
    Longest,       \* bound: candidates in a list
    Sizes,         \* numbers of suggestions the user may ask for
    Rehabilitate,  \* _rehabilitate_threshold
    MaxDemotions   \* bound: times a word is marked bad

Strategies == {"rank", "rrf", "linear", "loglinear"}

ASSUME RankingConstants ==
    /\ IsFiniteSet(RankWords)
    /\ UNION {Unknowns, ShortWords, Acronyms, Flagged} \subseteq RankWords
    /\ {NextWeight, FuzzyWeight, MissingOdds, RescueFloor, Rehabilitate} \subseteq Nat \ {0}
    /\ Sizes \subseteq Nat \ {0} /\ Longest \in Nat /\ MaxDemotions \in Nat
    /\ \A s \in Situations :
         /\ s.follows \in [RankWords -> Nat]
         /\ \A q \in {s.ngram, s.fuzzy} :
              q \in Seq([word : RankWords, p : Nat]) /\ Len(q) <= Longest

VARIABLES
    removed,     \* blacklist
    typedAnyway, \* _blacklist_type_count
    demoted,     \* dispreference
    ownFlagged,    \* flagged words in user_vocab
    filtering,   \* _filter_explicit
    strategy     \* _merge_strategy

rankingVars == <<removed, typedAnyway, demoted, ownFlagged, filtering, strategy>>

-----------------------------------------------------------------------------
(* What may be offered.                                                    *)

\* _is_valid_word
Valid(w) == w \notin removed /\ w \notin Unknowns

\* _next_word_allowed
NextWordAllowed(w) == w \notin ShortWords \/ w \in Acronyms

\* _candidate_passes
Passes(w, next) == (next => NextWordAllowed(w)) /\ Valid(w)

\* _explicit_suppressed
HeldBack(w) == filtering /\ w \in Flagged /\ w \notin ownFlagged

FirstOf(q, n) == SubSeq(q, 1, IF Len(q) < n THEN Len(q) ELSE n)

\* What the rescue is decided on: the n-gram's list, asked for again when
\* fewer were asked for than the floor.
Window(s, n) ==
    LET asked == FirstOf(s.ngram, 2 * n)
    IN IF Len(asked) < RescueFloor THEN FirstOf(s.ngram, RescueFloor) ELSE asked

\* _short_prefix_needs_rescue
NeedsRescue(s, n) ==
    /\ ~s.next /\ s.twoLetters
    /\ Cardinality({i \in DOMAIN Window(s, n) : Passes(Window(s, n)[i].word, s.next)}) < RescueFloor

\* The lists a merge gets, each less what may not be offered, with the place
\* a word had: two letters are corrected only when they need rescue.
Listed(q, kept) == {[e |-> q[i], place |-> i] : i \in {j \in DOMAIN q : q[j].word \in kept}}
FromNgram(s, n) == Listed(FirstOf(s.ngram, 2 * n), {w \in RankWords : Passes(w, s.next)})
FromFuzzy(s, n) ==
    IF s.next \/ (s.twoLetters /\ ~NeedsRescue(s, n)) THEN {}
    ELSE Listed(FirstOf(s.fuzzy, n), {w \in RankWords : Valid(w)})

-----------------------------------------------------------------------------
(* Fusing.                                                                 *)

Weight(s) == IF s.next THEN NextWeight ELSE 1

\* _bigram_bonus, over 2: a word seen after the last one counts for more.
Bonus(s, w) == 2 + s.follows[w]
Bonuses(s) == [w \in RankWords |-> Bonus(s, w)]
Plain == [w \in RankWords |-> 1]

Entry(L, w) == {x \in L : x.e.word = w}
The(S) == CHOOSE x \in S : TRUE

\* What the probabilities of a list add up to, each times its word's bonus.
Mass(L, bonus) == SumFunctionOnSet([x \in L |-> x.e.p * bonus[x.e.word]], L)

\* f[1] * ... * f[n]
Product(f, n) ==
    LET upTo[i \in 0..n] == IF i = 0 THEN 1 ELSE upTo[i - 1] * f[i]
    IN upTo[n]

\* weight / (k + place), over the product of all the places can give.
Places(k) == Product([i \in 1..Longest |-> k + i], Longest)
ByPlace(L, w, k) == IF Entry(L, w) = {} THEN 0 ELSE Places(k) \div (k + The(Entry(L, w)).place)
PlacesScore(s, N, F, w, k) ==
    2 * Weight(s) * ByPlace(N, w, k) + FuzzyWeight * Bonus(s, w) * ByPlace(F, w, k)

\* P_i over its list's total.
Share(L, w, bonus) == IF Entry(L, w) = {} THEN 0 ELSE The(Entry(L, w)).e.p * bonus[w]

LinearScore(s, N, F, w) ==
    LET tn == Mass(N, Plain)  tf == Mass(F, Bonuses(s))
    IN Weight(s) * Share(N, w, Plain) * (IF tf = 0 THEN 1 ELSE tf)
         + FuzzyWeight * Share(F, w, Bonuses(s)) * (IF tn = 0 THEN 1 ELSE tn)

\* (Slip) Logarithms of chances, not taken back: every score is below nought.
LogScore(s, N, F, w) ==
    LET depth(L) == IF Entry(L, w) = {} THEN MissingOdds ELSE The(Entry(L, w)).place
    IN 0 - Weight(s) * depth(N) - FuzzyWeight * depth(F)

\* The product of the probabilities, each to its weight, over a factor all
\* words have; a missing word has 1/MissingOdds.
Power(b, e) == Product([i \in 1..e |-> b], e)
ProductScore(s, N, F, w) ==
    LET odds(L, bonus) ==
            IF Entry(L, w) # {} THEN Share(L, w, bonus) * MissingOdds
            ELSE IF Mass(L, bonus) = 0 THEN 1 ELSE Mass(L, bonus)
    IN Power(odds(N, Plain), Weight(s)) * Power(odds(F, Bonuses(s)), FuzzyWeight)

Scored(s, N, F, w) ==
    CASE strategy = "rank" -> PlacesScore(s, N, F, w, 0)
      [] strategy = "rrf" -> PlacesScore(s, N, F, w, 60)
      [] strategy = "linear" -> LinearScore(s, N, F, w)
      [] strategy = "loglinear" -> ProductScore(s, N, F, w)

\* _finalize_scores: a word marked bad d times has its score over 1 + d/2;
\* equals stay as they came, the n-gram's first.
Offered(s, n, bad) ==
    LET N == FromNgram(s, n)  F == FromFuzzy(s, n)
        score == [w \in {x.e.word : x \in N \cup F} |-> Scored(s, N, F, w)]
        came(w) == IF Entry(N, w) # {} THEN The(Entry(N, w)).place
                   ELSE Longest + The(Entry(F, w)).place
        Ahead(v, w) ==
            LET a == score[v] * (2 + bad[w])  b == score[w] * (2 + bad[v])
            IN a > b \/ (a = b /\ came(v) < came(w))
        kept == {w \in DOMAIN score : (s.next => NextWordAllowed(w)) /\ ~HeldBack(w)}
    IN FirstBy(n, kept, Ahead)

-----------------------------------------------------------------------------
(* What the user does about it.                                            *)

NoDemotions == [w \in RankWords |-> 0]

RankingInit ==
    /\ removed = {} /\ typedAnyway = NoDemotions /\ demoted = NoDemotions
    /\ ownFlagged = {} /\ filtering \in BOOLEAN /\ strategy \in Strategies

\* blacklist_word, unblacklist_word
RemoveWord(w) ==
    /\ removed' = removed \cup {w} /\ typedAnyway' = [typedAnyway EXCEPT ![w] = 0]
    /\ UNCHANGED <<demoted, ownFlagged, filtering, strategy>>
RestoreWord(w) ==
    /\ w \in removed
    /\ removed' = removed \ {w} /\ typedAnyway' = [typedAnyway EXCEPT ![w] = 0]
    /\ UNCHANGED <<demoted, ownFlagged, filtering, strategy>>

\* record_typed_word: a removed word typed often enough comes back.
TypeRemoved(w) ==
    /\ w \in removed
    /\ IF typedAnyway[w] + 1 >= Rehabilitate
       THEN removed' = removed \ {w} /\ typedAnyway' = [typedAnyway EXCEPT ![w] = 0]
       ELSE typedAnyway' = [typedAnyway EXCEPT ![w] = @ + 1] /\ UNCHANGED removed
    /\ UNCHANGED <<demoted, ownFlagged, filtering, strategy>>

\* mark_bad, and remove_dispreference (which mark_good begins with).
MarkBad(w) ==
    /\ demoted[w] < MaxDemotions
    /\ demoted' = [demoted EXCEPT ![w] = @ + 1]
    /\ UNCHANGED <<removed, typedAnyway, ownFlagged, filtering, strategy>>
Undisprefer(w) ==
    /\ demoted[w] > 0
    /\ demoted' = [demoted EXCEPT ![w] = 0]
    /\ UNCHANGED <<removed, typedAnyway, ownFlagged, filtering, strategy>>

\* A flagged word typed through the gate into user_vocab.
AdoptFlagged(w) ==
    /\ w \in Flagged \ ownFlagged
    /\ ownFlagged' = ownFlagged \cup {w}
    /\ UNCHANGED <<removed, typedAnyway, demoted, filtering, strategy>>

\* setExplicitFilter, setMergeStrategy
ChangeSettings ==
    /\ filtering' \in BOOLEAN /\ strategy' \in Strategies
    /\ UNCHANGED <<removed, typedAnyway, demoted, ownFlagged>>

\* clear_user_data
ClearRanking ==
    /\ removed' = {} /\ typedAnyway' = NoDemotions /\ demoted' = NoDemotions
    /\ ownFlagged' = {} /\ UNCHANGED <<filtering, strategy>>

RankingNext ==
    \/ \E w \in RankWords : \/ RemoveWord(w) \/ RestoreWord(w) \/ TypeRemoved(w)
                            \/ MarkBad(w) \/ Undisprefer(w) \/ AdoptFlagged(w)
    \/ ChangeSettings \/ ClearRanking

-----------------------------------------------------------------------------
(* Properties.                                                             *)

\* Marking a word bad never raises it, adds no word before its place and
\* leaves the others as they stood, whichever strategy fuses the lists.
DemotionNeverRaises ==
    \A s \in Situations, n \in Sizes :
        LET was == Offered(s, n, demoted) IN
        \A w \in ToSet(was) :
            LET now == Offered(s, n, [demoted EXCEPT ![w] = @ + 1])
            IN /\ IsPrefix(RemoveFirst(was, w), RemoveFirst(now, w))
               /\ \A i \in DOMAIN now : now[i] = w => \E j \in 1..i : was[j] = w

=============================================================================
