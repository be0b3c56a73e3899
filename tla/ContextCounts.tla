--------------------------- MODULE ContextCounts ---------------------------
(***************************************************************************)
(* The pair and triple tables of NgramPredictor.  The merged table every   *)
(* reader uses holds two shares: what the shipped files and corpus say,    *)
(* put in anew at every launch and never written, and the user's, a        *)
(* fraction that typing raises, decay lowers and only the file keeps.      *)
(*                                                                         *)
(* An edge is a pair or a triple of words, the last one its continuation   *)
(* and the rest its row.  The user's share is counted in parts, Unit of    *)
(* which are one typing; decay rounds a share to whole parts.              *)
(***************************************************************************)
EXTENDS Integers, Sequences, FiniteSets, Functions

CONSTANTS
    Lexicon,        \* words of the shipped lists (_base_unigrams)
    Texts,          \* sentences typed, and contexts with the pill tapped
    Corpus,         \* the words of training_corpus.txt
    CorpusGate,     \* sightings an unknown corpus word needs (3)
    CuratedPairs,   \* common_bigrams.txt
    CuratedTriples, \* common_trigrams.txt
    SeedEdges,      \* the generated seed files
    PairWeight,     \* what a curated pair or triple adds (50)
    LinkWeight,     \* what a curated triple adds to each of its pairs (10)
    SeedWeight,     \* what a generated seed adds
    Unit,           \* parts of one typing
    LeastShare,     \* _USER_CONTEXT_MIN, in parts
    SavedParts,     \* precision a share is saved with, in parts (1/1000)
    ShareNum,       \* _decay_factor is ShareNum / ShareDen
    ShareDen,
    LearnsPerDecay, \* _decay_interval
    PriorFloor,     \* _CONTEXT_PRIOR_FLOOR, in parts
    BaseTrust,      \* _CONTEXT_BASE_TRUST, in parts
    Imports,        \* model files an import may bring
    MaxShare        \* bound: parts counted for one edge

EdgesOf(s) == {SubSeq(s, i - 1, i) : i \in 2..Len(s)} \cup {SubSeq(s, i - 2, i) : i \in 3..Len(s)}

Edges == UNION {EdgesOf(s) : s \in Texts \cup CuratedTriples \cup {Corpus}}
             \cup CuratedPairs \cup SeedEdges

Nothing == [e \in Edges |-> 0]

ASSUME ContextConstants ==
    /\ Unit \in Nat \ {0} /\ LeastShare \in 1..Unit /\ SavedParts \in Nat \ {0}
    /\ ShareDen \in Nat \ {0} /\ ShareNum \in 0..ShareDen
    /\ CorpusGate \in Nat \ {0} /\ LearnsPerDecay \in Nat \ {0}
    /\ PriorFloor \in Nat \ {0} /\ BaseTrust \in Nat
    /\ PairWeight \in Nat /\ LinkWeight \in Nat /\ SeedWeight \in Nat
    /\ \A f \in Imports : f.share \in [Edges -> Nat]
    /\ \A s \in Edges \cup Texts \cup {Corpus} : Len(s) \in Nat
    /\ IsFiniteSet(CuratedTriples)

VARIABLES
    userShare,   \* _user_bigrams and _user_trigrams, in parts
    mergedCount, \* bigrams and trigrams
    ownWords,    \* user_vocab
    corpusWords, \* _corpus_unigrams
    learnsSince, \* _learn_count
    modelFile,   \* ngram_model.json: the user's share and words
    loadedFor,   \* the user's words when the files were last read in
    seededTwice  \* the files were read in over tables that held them

contextVars == <<userShare, mergedCount, ownWords, corpusWords, learnsSince, modelFile,
                 loadedFor, seededTwice>>

-----------------------------------------------------------------------------
(* Linking a sequence of words.                                            *)

\* Times edge e occurs in s with every word of it accepted; a word that was
\* not breaks the chain.  (_link_context)
Linked(s, accepted, e) ==
    Cardinality({i \in Len(e)..Len(s) :
        /\ SubSeq(s, i - Len(e) + 1, i) = e
        /\ (i - Len(e) + 1)..i \subseteq accepted})

\* Positions of the corpus that are accepted for a user with these words.
CorpusAccepted(words) ==
    {i \in DOMAIN Corpus :
        \/ Corpus[i] \in Lexicon \cup words
        \/ Cardinality({j \in 1..i : Corpus[j] = Corpus[i]}) >= CorpusGate}

Given(weight, condition) == IF condition THEN weight ELSE 0

\* What the shipped files put under an edge.
SeedShare(e) ==
    Given(PairWeight, e \in CuratedPairs \cup CuratedTriples)
    + Given(SeedWeight, e \in SeedEdges)
    + LinkWeight * Cardinality({p \in CuratedTriples \X {1, 2} : SubSeq(p[1], p[2], p[2] + 1) = e})

ShippedShare(e, words) == SeedShare(e) + Linked(Corpus, CorpusAccepted(words), e)

-----------------------------------------------------------------------------
(* The two shares kept in step.                                            *)

\* _ri: whole typings, a half rounded up.
Whole(parts) == (2 * parts + Unit) \div (2 * Unit)

\* _bump_user_context for n[e] sightings of each edge.
Raised(n) == [e \in Edges |-> userShare[e] + n[e] * Unit]
MergedRaised(n) ==
    [e \in Edges |-> mergedCount[e] + Whole(Raised(n)[e]) - Whole(userShare[e])]

\* _decay_user_context of share u under merged counts m.
Faded(u) == [e \in Edges |-> LET left == (u[e] * ShareNum) \div ShareDen
                             IN Given(left, left >= LeastShare)]
\* (Slip) The whole merged count decays, seeds included.
MergedFadedWhole(m, u) == [e \in Edges |-> Given((m[e] * ShareNum) \div ShareDen, m[e] > 0)]
MergedFaded(m, u) ==
    [e \in Edges |-> LET left == m[e] - (Whole(u[e]) - Whole(Faded(u)[e]))
                     IN Given(left, left > 0)]

\* round(count, 3)
Saved(u) == [e \in Edges |-> ((2 * u[e] + SavedParts) \div (2 * SavedParts)) * SavedParts]

KnownWord(w) == w \in Lexicon \cup ownWords \cup corpusWords

InBounds == \A e \in Edges : userShare[e] <= MaxShare

\* Each launch, clearing and import ends with the files read in over the
\* user's share, and the corpus prior rebuilt for the user's words.
LoadShares(u, words) ==
    /\ userShare' = u /\ ownWords' = words
    /\ mergedCount' = [e \in Edges |-> Whole(u[e]) + ShippedShare(e, words)]
    /\ corpusWords' = {Corpus[i] : i \in CorpusAccepted(words)}
    /\ loadedFor' = words /\ seededTwice' = FALSE

NoModel == [readable |-> FALSE, share |-> Nothing, words |-> {}]

ContextInit ==
    /\ userShare = Nothing /\ ownWords = {} /\ learnsSince = 0
    /\ mergedCount = [e \in Edges |-> ShippedShare(e, {})]
    /\ corpusWords = {Corpus[i] : i \in CorpusAccepted({})}
    /\ modelFile = NoModel /\ loadedFor = {} /\ seededTwice = FALSE

-----------------------------------------------------------------------------
(* Operations.                                                             *)

\* learn(s): a known word is accepted, an unknown one only if this sighting
\* takes it past the gate (VocabularyGate), and then so are its later ones.
MayAccept(s, accepted) ==
    /\ \A i \in DOMAIN s : KnownWord(s[i]) => i \in accepted
    /\ \A i, j \in DOMAIN s : i < j /\ s[i] = s[j] /\ i \in accepted => j \in accepted

TypeText(s, accepted) ==
    LET n == [e \in Edges |-> Linked(s, accepted, e)]
        words == ownWords \cup {s[i] : i \in accepted}
    IN /\ MayAccept(s, accepted)
       /\ IF learnsSince + 1 < LearnsPerDecay
          THEN /\ userShare' = Raised(n) /\ mergedCount' = MergedRaised(n)
               /\ ownWords' = words /\ learnsSince' = learnsSince + 1
          ELSE /\ userShare' = Faded(Raised(n))
               /\ mergedCount' = MergedFaded(MergedRaised(n), Raised(n))
               /\ ownWords' \in SUBSET words  \* counts that decay to nothing
               /\ learnsSince' = 0
       /\ InBounds'
       /\ UNCHANGED <<corpusWords, modelFile, loadedFor, seededTwice>>

\* reinforce_context: a tapped pill raises the edges that end in it, whether
\* or not its word is known; context and pill are one text here.
TapAfter(s) ==
    LET ends == {SubSeq(s, i, Len(s)) : i \in {Len(s) - 1, Len(s) - 2} \cap DOMAIN s}
        n == [e \in Edges |-> Given(1, e \in ends)]
    IN /\ userShare' = Raised(n) /\ mergedCount' = MergedRaised(n)
       /\ InBounds'
       /\ UNCHANGED <<ownWords, corpusWords, learnsSince, modelFile, loadedFor, seededTwice>>

\* save(): only the user's share is written.
SaveModel ==
    /\ modelFile' = [readable |-> TRUE, share |-> Saved(userShare), words |-> ownWords]
    /\ UNCHANGED <<userShare, mergedCount, ownWords, corpusWords, learnsSince, loadedFor,
                   seededTwice>>

\* A start, after a quit or a crash.  A file that cannot be read is none.
LaunchModel ==
    /\ LoadShares(modelFile.share, modelFile.words)
    /\ learnsSince' = 0 /\ UNCHANGED modelFile

\* reload_from_disk after an import.
ImportModel(f) ==
    /\ modelFile' = f /\ LoadShares(f.share, f.words) /\ UNCHANGED learnsSince

\* The same when load() gives up on the imported file (too large, not
\* JSON): the tables stay as they were, and are seeded all the same.
ImportUnreadable ==
    /\ modelFile' = NoModel
    /\ mergedCount' = [e \in Edges |-> mergedCount[e] + ShippedShare(e, ownWords)]
    /\ corpusWords' = {Corpus[i] : i \in CorpusAccepted(ownWords)}
    /\ ~seededTwice /\ seededTwice' = TRUE  \* once is enough to explore
    /\ UNCHANGED <<userShare, ownWords, learnsSince, loadedFor>>

\* Clear Learned Data, which then saves.
ClearModel ==
    /\ LoadShares(Nothing, {}) /\ learnsSince' = 0
    /\ modelFile' = [NoModel EXCEPT !.readable = TRUE]

ContextNext ==
    \/ \E s \in Texts : TapAfter(s) \/ \E accepted \in SUBSET DOMAIN s : TypeText(s, accepted)
    \/ \E f \in Imports : ImportModel(f)
    \/ SaveModel \/ LaunchModel \/ ImportUnreadable \/ ClearModel

-----------------------------------------------------------------------------
(* Scoring a row (_context_probs).                                         *)

Row(e) == {f \in Edges : Len(f) = Len(e) /\ SubSeq(f, 1, Len(f) - 1) = SubSeq(e, 1, Len(e) - 1)}

\* (Slip) Parts are taken from whole typings.
BaseCountInParts(e) == LET base == mergedCount[e] - userShare[e] IN Given(base, base > 0)

\* The shipped evidence is what the merged count has over the user's.
BaseCount(e) == LET base == mergedCount[e] - Whole(userShare[e]) IN Given(base, base > 0)

\* P(continuation | row) of an edge as a fraction.
Probability(e) ==
    LET typed == SumFunctionOnSet(userShare, Row(e))
        base  == SumFunctionOnSet([f \in Row(e) |-> BaseCount(f)], Row(e))
        prior == PriorFloor + BaseTrust * base
    IN IF typed = 0 THEN <<mergedCount[e], SumFunctionOnSet(mergedCount, Row(e))>>
       ELSE IF base = 0 THEN <<userShare[e], typed + prior>>
       ELSE <<userShare[e] * base + prior * BaseCount(e), (typed + prior) * base>>

\* p <= q, where 0/0 stands for a row without any evidence.
AtMost(p, q) == p[1] * q[2] <= q[1] * p[2]

-----------------------------------------------------------------------------
(* Properties.                                                             *)

\* The merged count of every pair and triple is what this version ships for
\* it and the user's own typings, rounded: through typing, taps, decay,
\* saves, relaunches, imports and clearing the shipped evidence neither
\* grows nor fades, unless an import left a file load() could not read.
SharesAddUp ==
    ~seededTwice =>
        \A e \in Edges :
            mergedCount[e] = ShippedShare(e, loadedFor) + Whole(userShare[e])

\* A sighting of one continuation never makes it less likely after the same
\* words than it was before.
SightingHelps ==
    [][\A e \in Edges :
        /\ loadedFor' = loadedFor /\ seededTwice' = seededTwice
        /\ userShare'[e] > userShare[e]
        /\ \A f \in Row(e) \ {e} : userShare'[f] = userShare[f]
        => AtMost(Probability(e), Probability(e)')]_contextVars
=============================================================================
