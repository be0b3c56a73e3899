-------------------------- MODULE PredictionProofs --------------------------
(***************************************************************************)
(* What the n-gram engine keeps consistent however long it learns.  The    *)
(* unigram tables of VocabularyGate agree, for any words, threshold,       *)
(* boost, decay and bounds.  The pair and triple tables of ContextCounts   *)
(* are the shipped evidence and the user's typings, for any texts, lists,  *)
(* weights and decay: the two shares are moved together or, when tables    *)
(* are read in, computed afresh from the same file.  And what they make of *)
(* a row is monotone: a sighting never lowers its own chances.  Then the  *)
(* pruned list of NextWords answers as a scan of every word would; the     *)
(* indexes of WordIndexes, kept up by overlays, as ones built afresh; and  *)
(* its beam ranks the words the typed letters begin first.  Last, in the   *)
(* fused list of Ranking a word marked bad only moves back.                *)
(***************************************************************************)
EXTENDS MCPrediction, FiniteSetTheorems, SequenceTheorems, WellFoundedInduction, TLAPS

\* What the tables promise one another, of any three functions.
Good(u, m, c) ==
    /\ u \in [Words -> Nat] /\ m \in [Words -> Nat]
    /\ c \in [Words -> 0..(Threshold - 1)]
    /\ \A w \in Words : u[w] <= m[w] /\ (c[w] > 0 => w \notin Base /\ u[w] = 0)

\* The inductive invariant: a retraction or an un-boost keeps merged in Nat
\* only because merged covers user, and a word taken out of the pool leaves
\* the user's count alone only because it has none.
TablesAgree ==
    /\ Good(user, merged, candidates)
    /\ preferred \in [Words -> Nat]
    /\ sentence \in Seq(Words)

-----------------------------------------------------------------------------

\* Decay shrinks a count and never makes it negative.
LEMMA DecayShrinks ==
    ASSUME NEW n \in Nat
    PROVE  Decayed(n) \in Nat /\ Decayed(n) <= n
<1> DEFINE q == Decayed(n)
<1>1. DecayDen \in Nat \ {0} /\ DecayNum \in Nat /\ DecayNum <= DecayDen
  BY ConstantsAssumption
<1>2. n * DecayNum \in Nat /\ n * DecayNum <= n * DecayDen
  BY <1>1, Z3
<1>3. q \in Int /\ q * DecayDen <= n * DecayNum /\ n * DecayNum < (q + 1) * DecayDen
  BY <1>1, <1>2, Z3 DEF Decayed
<1>4. q >= 0
  BY <1>1, <1>2, <1>3, Z3
<1>5. q <= n
  BY <1>1, <1>2, <1>3, <1>4, Z3
<1> QED BY <1>3, <1>4, <1>5

\* How often a word occurs in a sentence is a number.
LEMMA OccurrencesIsNat ==
    ASSUME NEW s \in Seq(Words), NEW w \in Words
    PROVE  Occurrences(s, w) \in Nat
<1>1. IsFiniteSet(DOMAIN s)
  BY FS_Interval
<1>2. {i \in DOMAIN s : s[i] = w} \subseteq DOMAIN s
  OBVIOUS
<1>3. IsFiniteSet({i \in DOMAIN s : s[i] = w})
  BY <1>1, <1>2, FS_Subset
<1> QED BY <1>3, FS_CardinalityType DEF Occurrences

\* Sightings of any weight keep the tables in agreement: a word is either
\* known, and has no candidate record, or waits, or is promoted whole.
LEMMA SightingsKeepTables ==
    ASSUME Good(user, merged, candidates),
           NEW n \in [Words -> Nat], NEW k \in Nat
    PROVE  Good(UserAfter(n, k), MergedAfter(n, k), CandidatesAfter(n))
<1>1. Threshold \in Nat \ {0}
  BY ConstantsAssumption
<1>2. ASSUME NEW w \in Words
      PROVE  Gain(w, n[w], k) \in Nat
  <2>1. n[w] \in Nat /\ candidates[w] \in Nat
    BY <1>1 DEF Good
  <2>2. n[w] * k \in Nat /\ (candidates[w] + n[w]) * k \in Nat
    BY <2>1, Z3
  <2> QED BY <2>2 DEF Gain
<1>3. ASSUME NEW w \in Words
      PROVE  /\ CandidatesAfter(n)[w] \in 0..(Threshold - 1)
             /\ CandidatesAfter(n)[w] > 0 => w \notin Base /\ UserAfter(n, k)[w] = 0
  <2>1. n[w] \in Nat /\ candidates[w] \in 0..(Threshold - 1) /\ user[w] \in Nat
    BY DEF Good
  <2>2. candidates[w] > 0 => ~Known(w)
    BY <2>1 DEF Good, Known
  <2>3. CASE Known(w)
    BY <1>1, <2>1, <2>2, <2>3 DEF CandidatesAfter
  <2>4. CASE ~Known(w) /\ Promoted(w, n[w])
    BY <1>1, <2>4 DEF CandidatesAfter
  <2>5. CASE ~Known(w) /\ ~Promoted(w, n[w])
    <3>1. candidates[w] + n[w] < Threshold
      BY <1>1, <2>1, <2>5 DEF Promoted
    <3>2. Gain(w, n[w], k) = 0 /\ user[w] = 0 /\ w \notin Base
      BY <2>1, <2>5 DEF Gain, Known
    <3> QED BY <1>1, <2>1, <2>5, <3>1, <3>2 DEF CandidatesAfter, UserAfter
  <2> QED BY <2>3, <2>4, <2>5
<1>4. ASSUME NEW w \in Words
      PROVE  /\ user[w] + Gain(w, n[w], k) \in Nat
             /\ merged[w] + Gain(w, n[w], k) \in Nat
             /\ user[w] + Gain(w, n[w], k) <= merged[w] + Gain(w, n[w], k)
  BY <1>2 DEF Good
<1>5. CandidatesAfter(n) \in [Words -> 0..(Threshold - 1)]
  <2>1. CandidatesAfter(n) = [w \in Words |-> CandidatesAfter(n)[w]]
    BY DEF CandidatesAfter
  <2> QED BY <1>3, <2>1
<1> QED BY <1>3, <1>4, <1>5 DEF Good, UserAfter, MergedAfter

\* Decay lowers the user's share and the pool, and leaves merged alone.
LEMMA DecayKeepsTables ==
    ASSUME NEW u, NEW m, NEW c, NEW seen, Good(u, m, c)
    PROVE  Good([w \in Words |-> Decayed(u[w])], m, CandidatesDecayed(c, seen))
<1>1. Threshold \in Nat \ {0}
  BY ConstantsAssumption
<1>2. ASSUME NEW w \in Words
      PROVE  /\ Decayed(u[w]) \in Nat /\ Decayed(u[w]) <= m[w]
             /\ u[w] = 0 => Decayed(u[w]) = 0
  <2>1. u[w] \in Nat /\ m[w] \in Nat /\ u[w] <= m[w]
    BY DEF Good
  <2>2. Decayed(u[w]) \in Nat /\ Decayed(u[w]) <= u[w]
    BY <2>1, DecayShrinks
  <2> QED BY <2>1, <2>2
<1>3. ASSUME NEW w \in Words
      PROVE  /\ CandidatesDecayed(c, seen)[w] \in 0..(Threshold - 1)
             /\ CandidatesDecayed(c, seen)[w] > 0 => c[w] > 0
  <2>1. c[w] \in 0..(Threshold - 1)
    BY DEF Good
  <2>2. Decayed(c[w]) \in Nat /\ Decayed(c[w]) <= c[w]
    BY <1>1, <2>1, DecayShrinks
  <2> QED BY <1>1, <2>1, <2>2 DEF CandidatesDecayed
<1>4. CandidatesDecayed(c, seen) \in [Words -> 0..(Threshold - 1)]
  <2>1. CandidatesDecayed(c, seen) = [w \in Words |-> CandidatesDecayed(c, seen)[w]]
    BY DEF CandidatesDecayed
  <2> QED BY <1>3, <2>1
<1> QED BY <1>2, <1>3, <1>4 DEF Good

\* What learn() does to the tables.
LEMMA LearnKeepsTables ==
    ASSUME Good(user, merged, candidates), NEW s \in Seq(Words), Learn(s)
    PROVE  Good(user', merged', candidates')
<1>1. CASE s = <<>>
  BY <1>1 DEF Learn, tables
<1>2. CASE s # <<>>
  <2> DEFINE n == [w \in Words |-> Occurrences(s, w)]
  <2>1. n \in [Words -> Nat]
    BY OccurrencesIsNat
  <2>2. LearnTables(n)
    BY <1>2 DEF Learn
  <2> HIDE DEF n
  <2>3. Good(UserAfter(n, 1), MergedAfter(n, 1), CandidatesAfter(n))
    BY <2>1, SightingsKeepTables
  <2>4. CASE learnCount + 1 < DecayInterval
    <3>1. user' = UserAfter(n, 1) /\ merged' = MergedAfter(n, 1)
                                /\ candidates' = CandidatesAfter(n)
      BY <2>2, <2>4 DEF LearnTables
    <3> QED BY <2>3, <3>1
  <2>5. CASE ~(learnCount + 1 < DecayInterval)
    <3>1. /\ user' = [w \in Words |-> Decayed(UserAfter(n, 1)[w])]
          /\ merged' = MergedAfter(n, 1)
          /\ candidates' = CandidatesDecayed(CandidatesAfter(n), SeenAfter(n))
      BY <2>2, <2>5 DEF LearnTables
    <3>2. Good([w \in Words |-> Decayed(UserAfter(n, 1)[w])], MergedAfter(n, 1),
               CandidatesDecayed(CandidatesAfter(n), SeenAfter(n)))
      BY <2>3, DecayKeepsTables
    <3> QED BY <3>1, <3>2
  <2> QED BY <2>4, <2>5
<1> QED BY <1>1, <1>2

-----------------------------------------------------------------------------

\* They agree when an engine starts.
LEMMA TablesAgreeInitially == Init => TablesAgree
  BY ConstantsAssumption DEF Init, TablesAgree, Good, Zero

\* Every action keeps the tables in agreement.
LEMMA TablesAgreeNext == TablesAgree /\ [Next]_vars => TablesAgree'
<1> SUFFICES ASSUME TablesAgree, [Next]_vars PROVE TablesAgree'
  OBVIOUS
<1> USE DEF TablesAgree
<1>1. Threshold \in Nat \ {0} /\ Boost \in Nat \ {0}
  BY ConstantsAssumption
<1>2. Good(user', merged', candidates') /\ preferred' \in [Words -> Nat]
                                       /\ sentence' \in Seq(Words) => TablesAgree'
  BY DEF Good
<1>3. ASSUME NEW w \in Words, TypeSpace(w) PROVE TablesAgree'
  <2>1. sentence' \in Seq(Words)
    BY <1>3 DEF TypeSpace
  <2>2. Good(user', merged', candidates')
    BY <1>3, <2>1, LearnKeepsTables DEF TypeSpace
  <2> QED BY <1>2, <1>3, <2>1, <2>2 DEF TypeSpace
<1>4. ASSUME NEW w \in Words, TypeComma(w) PROVE TablesAgree'
  BY <1>4 DEF TypeComma, tables, Good
<1>5. ASSUME NEW ws \in Seq(Words), TypeReturn(ws) PROVE TablesAgree'
  <2>1. sentence \o ws \in Seq(Words)
    BY <1>5
  <2>2. Good(user', merged', candidates')
    BY <1>5, <2>1, LearnKeepsTables DEF TypeReturn
  <2> QED BY <1>2, <1>5, <2>2 DEF TypeReturn
<1>6. ASSUME NEW w \in Words, TypeStop(w) PROVE TablesAgree'
  <2>1. Append(sentence, w) \in Seq(Words)
    OBVIOUS
  <2>2. Good(user', merged', candidates')
    BY <1>6, <2>1, LearnKeepsTables DEF TypeStop
  <2> QED BY <1>2, <1>6, <2>2 DEF TypeStop
<1>7. CASE BackspaceIntoWord
  <2> DEFINE w == context[Len(context)]
  <2>1. CASE w = Mark
    BY <1>7, <2>1 DEF BackspaceIntoWord, tables, Good
  <2>2. CASE w # Mark
    <3>1. UnlearnWord(w) /\ UNCHANGED <<preferred, sentence>>
      BY <1>7, <2>2 DEF BackspaceIntoWord
    <3> HIDE DEF w
    <3>2. CASE candidates[w] > 0
      <4>1. /\ candidates' = [candidates EXCEPT ![w] = @ - 1]
            /\ user' = user /\ merged' = merged
        BY <3>1, <3>2 DEF UnlearnWord
      <4>2. CASE w \in Words
        BY <1>1, <1>2, <3>1, <3>2, <4>1, <4>2 DEF Good
      <4>3. CASE w \notin Words
        <5>1. candidates' = candidates
          BY <4>1, <4>3 DEF Good
        <5> QED BY <1>2, <3>1, <4>1, <5>1
      <4> QED BY <4>2, <4>3
    <3>3. CASE ~(candidates[w] > 0) /\ user[w] > 0
      <4>1. /\ user' = [user EXCEPT ![w] = @ - 1]
            /\ merged' = [merged EXCEPT ![w] = @ - 1]
            /\ candidates' = candidates
        BY <3>1, <3>3 DEF UnlearnWord, TakeAway
      <4>2. CASE w \in Words
        <5>1. Good(user', merged', candidates')
          BY <1>1, <3>3, <4>1, <4>2 DEF Good
        <5> QED BY <1>2, <3>1, <5>1
      <4>3. CASE w \notin Words
        <5>1. user' = user /\ merged' = merged
          BY <4>1, <4>3 DEF Good
        <5> QED BY <1>2, <3>1, <4>1, <5>1
      <4> QED BY <4>2, <4>3
    <3>4. CASE ~(candidates[w] > 0) /\ ~(user[w] > 0)
      BY <1>2, <3>1, <3>4 DEF UnlearnWord
    <3> QED BY <3>2, <3>3, <3>4
  <2> QED BY <2>1, <2>2
<1>8. CASE ResetContext
  BY <1>8 DEF ResetContext, tables, Good
<1>9. ASSUME NEW w \in Words, TapPill(w) PROVE TablesAgree'
  <2>1. Only(w) \in [Words -> Nat]
    BY DEF Only
  <2>2. Good(user', merged', candidates')
    BY <1>1, <1>9, <2>1, SightingsKeepTables DEF TapPill
  <2> QED BY <1>2, <1>9, <2>2 DEF TapPill
<1>10. ASSUME NEW w \in Words, Unprefer(w) PROVE TablesAgree'
  <2>1. Rollback(w) \in Nat /\ Rollback(w) <= user[w]
    BY DEF Rollback, Good
  <2>2. /\ user' = [user EXCEPT ![w] = @ - Rollback(w)]
        /\ merged' = [merged EXCEPT ![w] = @ - Rollback(w)]
        /\ preferred' = [preferred EXCEPT ![w] = 0]
        /\ candidates' = candidates /\ sentence' = sentence
    BY <1>10 DEF Unprefer, buffers
  <2> HIDE DEF TablesAgree
  <2>3. Good(user', merged', candidates')
    BY <2>1, <2>2 DEF TablesAgree, Good
  <2>4. preferred' \in [Words -> Nat] /\ sentence' \in Seq(Words)
    BY <2>2 DEF TablesAgree
  <2> QED BY <2>3, <2>4 DEF TablesAgree
<1>11. ASSUME NEW w \in Words, BoostWord(w) PROVE TablesAgree'
  <2>1. /\ user' = [user EXCEPT ![w] = @ + Boost]
        /\ merged' = [merged EXCEPT ![w] = @ + Boost]
        /\ candidates' = [candidates EXCEPT ![w] = 0] /\ sentence' = sentence
        /\ preferred' \in {preferred, [preferred EXCEPT ![w] = @ + Boost]}
    BY <1>11 DEF BoostWord, LearnWord, buffers
  <2> HIDE DEF TablesAgree
  <2>2. Good(user', merged', candidates')
    BY <1>1, <2>1 DEF TablesAgree, Good
  <2>3. preferred' \in [Words -> Nat] /\ sentence' \in Seq(Words)
    BY <1>1, <2>1 DEF TablesAgree
  <2> QED BY <2>2, <2>3 DEF TablesAgree
<1>12. CASE ClearUserData
  BY <1>1, <1>12 DEF ClearUserData, Zero, Good, buffers
<1>13. CASE TimePasses
  BY <1>13 DEF TimePasses, buffers, Good
<1>14. CASE Restart
  BY <1>14 DEF Restart, Good
<1>15. CASE UNCHANGED vars
  BY <1>15 DEF vars, tables, buffers, Good
<1>16. <<>> \in Seq(Words) /\ \A w \in Words : <<w>> \in Seq(Words)
  OBVIOUS
<1>17. Boosted \subseteq Words
  BY ConstantsAssumption
<1> QED
  BY <1>3, <1>4, <1>5, <1>6, <1>7, <1>8, <1>9, <1>10, <1>11, <1>12, <1>13, <1>14, <1>15,
     <1>16, <1>17 DEF Next

\* The tables agree for ever.
LEMMA TablesAlwaysAgree == Spec => []TablesAgree
  BY TablesAgreeInitially, TablesAgreeNext, PTL DEF Spec

\* learn(), the pill tap, the explicit boost, decay and retraction together
\* never leave a word both waiting in the pool and known, so unlearn_word
\* always takes a sighting from where it was put.
THEOREM NoWordOnBothSides == Spec => []CandidatesAreUnknown
<1>1. TablesAgree => CandidatesAreUnknown
  BY DEF TablesAgree, Good, CandidatesAreUnknown, Known
<1> QED BY <1>1, TablesAlwaysAgree, PTL

\* Whatever sequence of learning, retraction, decay and un-boosting, the
\* merged count covers the user's share, so no subtraction ever cuts into
\* what the shipped dictionary put there.
THEOREM ShippedCountsSurvive == Spec => []MergedCoversUser
<1>1. TablesAgree => MergedCoversUser
  BY DEF TablesAgree, Good, MergedCoversUser
<1> QED BY <1>1, TablesAlwaysAgree, PTL

-----------------------------------------------------------------------------
(* The two shares of a pair or a triple.                                   *)

Shares == [Edges -> Nat]

\* The inductive invariant: the shares are numbers, in memory and in the
\* file, and the merged count is the shipped evidence and the typings.
SharesInv ==
    /\ userShare \in Shares /\ modelFile.share \in Shares
    /\ SharesAddUp

\* Some of the numbers between two bounds are so many.
LEMMA CountIsNat ==
    ASSUME NEW a \in Nat, NEW b \in Nat, NEW T, T \subseteq a..b
    PROVE  Cardinality(T) \in Nat
<1>1. IsFiniteSet(a..b)
  BY FS_Interval
<1>2. IsFiniteSet(T)
  BY <1>1, FS_Subset
<1> QED BY <1>2, FS_CardinalityType

\* What is shipped for an edge is a number.
LEMMA ShippedIsNat ==
    ASSUME NEW e \in Edges, NEW words
    PROVE  ShippedShare(e, words) \in Nat
<1>1. Linked(Corpus, CorpusAccepted(words), e) \in Nat
  <2>1. Len(e) \in Nat /\ Len(Corpus) \in Nat
    BY ContextConstants
  <2> QED BY <2>1, CountIsNat DEF Linked
<1> DEFINE T == {p \in CuratedTriples \X {1, 2} : SubSeq(p[1], p[2], p[2] + 1) = e}
<1>2. Cardinality(T) \in Nat
  <2>1. IsFiniteSet({1, 2})
    <3>1. IsFiniteSet({1}) /\ IsFiniteSet({2})
      BY FS_Singleton
    <3>2. {1, 2} = {1} \cup {2}
      OBVIOUS
    <3> QED BY <3>1, <3>2, FS_Union
  <2>2. IsFiniteSet(CuratedTriples \X {1, 2})
    BY <2>1, FS_Product, ContextConstants
  <2>3. T \subseteq CuratedTriples \X {1, 2}
    OBVIOUS
  <2> QED BY <2>2, <2>3, FS_Subset, FS_CardinalityType
<1> HIDE DEF T
<1>3. LinkWeight * Cardinality(T) \in Nat
  BY <1>2, ContextConstants
<1>4. SeedShare(e) \in Nat
  BY <1>3, ContextConstants DEF SeedShare, Given, T
<1> QED BY <1>1, <1>4 DEF ShippedShare

\* Halves, quotients and remainders of numbers are numbers.
LEMMA QuotientIsNat ==
    ASSUME NEW n \in Nat, NEW d \in Nat \ {0}
    PROVE  n \div d \in Nat
<1> DEFINE q == n \div d
<1>1. q \in Int /\ q * d <= n /\ n < (q + 1) * d
  BY Z3
<1>2. q >= 0
  BY <1>1, Z3
<1> QED BY <1>1, <1>2

\* A share counts whole typings.
LEMMA WholeIsNat ==
    ASSUME NEW p \in Nat
    PROVE  Whole(p) \in Nat
<1>1. 2 * p + Unit \in Nat /\ 2 * Unit \in Nat \ {0}
  BY ContextConstants
<1> QED BY <1>1, QuotientIsNat DEF Whole

\* Fading leaves shares.
LEMMA FadedIsShares ==
    ASSUME NEW u \in Shares
    PROVE  Faded(u) \in Shares
<1> SUFFICES ASSUME NEW e \in Edges
             PROVE  Given((u[e] * ShareNum) \div ShareDen,
                          (u[e] * ShareNum) \div ShareDen >= LeastShare) \in Nat
  BY DEF Faded, Shares
<1>1. u[e] \in Nat /\ ShareNum \in Nat /\ ShareDen \in Nat \ {0}
  BY ContextConstants DEF Shares
<1>2. u[e] * ShareNum \in Nat
  BY <1>1, Z3
<1>3. (u[e] * ShareNum) \div ShareDen \in Nat
  BY <1>1, <1>2, QuotientIsNat
<1> QED BY <1>3 DEF Given

\* So do a save and what it reads back.
LEMMA SavedIsShares ==
    ASSUME NEW u \in Shares
    PROVE  Saved(u) \in Shares
<1> SUFFICES ASSUME NEW e \in Edges
             PROVE  ((2 * u[e] + SavedParts) \div (2 * SavedParts)) * SavedParts \in Nat
  BY DEF Saved, Shares
<1>1. u[e] \in Nat /\ SavedParts \in Nat \ {0}
  BY ContextConstants DEF Shares
<1>2. 2 * u[e] + SavedParts \in Nat /\ 2 * SavedParts \in Nat \ {0}
  BY <1>1
<1>3. (2 * u[e] + SavedParts) \div (2 * SavedParts) \in Nat
  BY <1>2, QuotientIsNat
<1> QED BY <1>1, <1>3, Z3

\* Sightings raise the shares by whole typings.
LEMMA RaisedIsShares ==
    ASSUME userShare \in Shares, NEW n \in Shares
    PROVE  Raised(n) \in Shares
<1> SUFFICES ASSUME NEW e \in Edges PROVE userShare[e] + n[e] * Unit \in Nat
  BY DEF Raised, Shares
<1>1. userShare[e] \in Nat /\ n[e] \in Nat /\ Unit \in Nat
  BY ContextConstants DEF Shares
<1>2. n[e] * Unit \in Nat
  BY <1>1, Z3
<1> QED BY <1>1, <1>2

\* How often an edge occurs in a text is a number.
LEMMA LinkedIsShares ==
    ASSUME NEW s, Len(s) \in Nat, NEW accepted
    PROVE  [e \in Edges |-> Linked(s, accepted, e)] \in Shares
<1> SUFFICES ASSUME NEW e \in Edges PROVE Linked(s, accepted, e) \in Nat
  BY DEF Shares
<1>1. Len(e) \in Nat
  BY ContextConstants
<1> QED BY <1>1, CountIsNat DEF Linked

\* Tables read in over shares that are numbers add up.
LEMMA LoadedAddsUp ==
    ASSUME NEW u \in Shares, NEW words, LoadShares(u, words)
    PROVE  userShare' \in Shares /\ SharesAddUp'
BY WholeIsNat, ShippedIsNat DEF LoadShares, SharesAddUp, Shares

\* Sightings move the merged count and the user's share alike, and decay
\* takes from the merged count what it took from the share.
LEMMA RaisedAddsUp ==
    ASSUME SharesInv, NEW n \in Shares, UNCHANGED <<loadedFor, seededTwice>>,
           \/ userShare' = Raised(n) /\ mergedCount' = MergedRaised(n)
           \/ /\ userShare' = Faded(Raised(n))
              /\ mergedCount' = MergedFaded(MergedRaised(n), Raised(n))
    PROVE  userShare' \in Shares /\ SharesAddUp'
<1>1. Raised(n) \in Shares /\ Faded(Raised(n)) \in Shares
  BY RaisedIsShares, FadedIsShares DEF SharesInv
<1>2. SUFFICES ASSUME ~seededTwice, NEW e \in Edges
               PROVE  mergedCount'[e] = ShippedShare(e, loadedFor) + Whole(userShare'[e])
  BY <1>1 DEF SharesAddUp
<1> DEFINE shipped == ShippedShare(e, loadedFor)
           raised == Whole(Raised(n)[e])
           faded == Whole(Faded(Raised(n))[e])
<1>3. shipped \in Nat /\ raised \in Nat /\ faded \in Nat /\ Whole(userShare[e]) \in Nat
  BY <1>1, ShippedIsNat, WholeIsNat DEF Shares, SharesInv
<1>4. mergedCount[e] = shipped + Whole(userShare[e])
  BY <1>2 DEF SharesInv, SharesAddUp
<1> HIDE DEF shipped
<1>5. MergedRaised(n)[e] = shipped + raised
  BY <1>3, <1>4 DEF MergedRaised
<1>6. CASE userShare' = Raised(n) /\ mergedCount' = MergedRaised(n)
  BY <1>5, <1>6 DEF shipped
<1>7. CASE /\ userShare' = Faded(Raised(n))
           /\ mergedCount' = MergedFaded(MergedRaised(n), Raised(n))
  <2> DEFINE m == MergedRaised(n)
             u == Raised(n)
  <2>1. m[e] - (Whole(u[e]) - Whole(Faded(u)[e])) = shipped + faded
    BY <1>3, <1>5
  <2> HIDE DEF m, u
  <2>2. MergedFaded(m, u)[e] = Given(shipped + faded, shipped + faded > 0)
    BY <2>1 DEF MergedFaded
  <2>3. Given(shipped + faded, shipped + faded > 0) = shipped + faded
    BY <1>3 DEF Given
  <2> QED BY <1>7, <2>2, <2>3 DEF m, u, shipped
<1> QED BY <1>6, <1>7

\* No typings at all are shares.
LEMMA NothingIsShares == Nothing \in Shares
BY DEF Nothing, Shares

\* The shares add up when an engine starts.
LEMMA SharesInvInit == ContextInit => SharesInv
<1> SUFFICES ASSUME ContextInit PROVE SharesInv
  OBVIOUS
<1>1. Whole(0) = 0
  <2>1. Unit \in Nat \ {0} /\ 2 * 0 + Unit = Unit
    BY ContextConstants
  <2>2. Unit \div (2 * Unit) = 0
    BY <2>1, Z3
  <2> QED BY <2>1, <2>2 DEF Whole
<1>2. \A e \in Edges : ShippedShare(e, {}) \in Nat
  BY ShippedIsNat
<1> QED BY NothingIsShares, <1>1, <1>2 DEF ContextInit, SharesInv, SharesAddUp, NoModel, Nothing

\* Whatever is done to one share is done to the other.
LEMMA SharesInvNext == SharesInv /\ [ContextNext]_contextVars => SharesInv'
<1> SUFFICES ASSUME SharesInv, [ContextNext]_contextVars PROVE SharesInv'
  OBVIOUS
<1>1. ASSUME NEW s \in Texts, NEW accepted \in SUBSET DOMAIN s, TypeText(s, accepted)
      PROVE  SharesInv'
  <2>1. [e \in Edges |-> Linked(s, accepted, e)] \in Shares
    BY LinkedIsShares, ContextConstants
  <2> DEFINE n == [e \in Edges |-> Linked(s, accepted, e)]
  <2>2. /\ UNCHANGED <<loadedFor, seededTwice, modelFile>>
        /\ \/ userShare' = Raised(n) /\ mergedCount' = MergedRaised(n)
           \/ /\ userShare' = Faded(Raised(n))
              /\ mergedCount' = MergedFaded(MergedRaised(n), Raised(n))
    BY <1>1 DEF TypeText
  <2> HIDE DEF n
  <2> QED BY <2>1, <2>2, RaisedAddsUp DEF SharesInv, n
<1>2. ASSUME NEW s \in Texts, TapAfter(s) PROVE SharesInv'
  <2> DEFINE ends == {SubSeq(s, i, Len(s)) : i \in {Len(s) - 1, Len(s) - 2} \cap DOMAIN s}
             n == [e \in Edges |-> Given(1, e \in ends)]
  <2>1. n \in Shares
    BY DEF Given, Shares
  <2>2. /\ UNCHANGED <<loadedFor, seededTwice, modelFile>>
        /\ userShare' = Raised(n) /\ mergedCount' = MergedRaised(n)
    BY <1>2 DEF TapAfter
  <2> HIDE DEF n
  <2> QED BY <2>1, <2>2, RaisedAddsUp DEF SharesInv
<1>3. ASSUME NEW f \in Imports, ImportModel(f) PROVE SharesInv'
  <2>1. f.share \in Shares
    BY ContextConstants DEF Shares
  <2> QED BY <1>3, <2>1, LoadedAddsUp DEF ImportModel, SharesInv
<1>4. CASE SaveModel
  BY <1>4, SavedIsShares DEF SaveModel, SharesInv, SharesAddUp
<1>5. CASE LaunchModel
  BY <1>5, LoadedAddsUp DEF LaunchModel, SharesInv
<1>6. CASE ImportUnreadable
  BY NothingIsShares, <1>6 DEF ImportUnreadable, SharesInv, SharesAddUp, NoModel
<1>7. CASE ClearModel
  BY NothingIsShares, <1>7, LoadedAddsUp DEF ClearModel, SharesInv, NoModel
<1>8. CASE UNCHANGED contextVars
  BY <1>8 DEF contextVars, SharesInv, SharesAddUp
<1> QED BY <1>1, <1>2, <1>3, <1>4, <1>5, <1>6, <1>7, <1>8 DEF ContextNext

\* The merged count of every pair and triple is what this version ships for
\* it and the user's own typings, for any texts, lists, weights and decay:
\* no start, import, save, clearing or fading leaves anything in or takes
\* anything out that is not the user's.
THEOREM CountsAddUp ==
    ContextInit /\ [][ContextNext]_contextVars => []SharesAddUp
<1>1. SharesInv => SharesAddUp
  BY DEF SharesInv
<1> QED BY <1>1, SharesInvInit, SharesInvNext, PTL

\* The same beside the other engines.
THEOREM CountsAddUpInTheEngine == PredictionSpec => []RunSharesAddUp
<1>1. PredictionInit => ContextInit
  BY DEF PredictionInit
<1>2. [PredictionNext]_<<engine, vars, contextVars, indexVars, nextWordsVars, rankingVars>>
        => [ContextNext]_contextVars
  BY DEF PredictionNext
<1>3. SharesAddUp => RunSharesAddUp
  BY DEF RunSharesAddUp
<1> QED BY <1>1, <1>2, <1>3, CountsAddUp, PTL DEF PredictionSpec

-----------------------------------------------------------------------------
(* Sums over finite sets.                                                  *)

\* A set of numbers has a least one.
LEMMA NatMin ==
    ASSUME NEW T \in SUBSET Nat, T # {}
    PROVE  \E x \in T : \A y \in T : x <= y
<1> DEFINE R == {p \in Nat \X Nat : p[1] < p[2]}
<1>1. IsWellFoundedOn(OpToRel(<, Nat), Nat)
  BY NatLessThanWellFounded
<1>2. IsWellFoundedOn(R, Nat)
  BY <1>1 DEF OpToRel
<1>3. \A x, y \in Nat : x < y => <<x, y>> \in R
  OBVIOUS
<1> HIDE DEF R
<1>4. PICK x \in T : \A y \in T : ~ (<<y, x>> \in R)
  BY <1>2, WFMin
<1>5. \A y \in T : x <= y
  <2> TAKE y \in T
  <2>1. x \in Nat /\ y \in Nat
    OBVIOUS
  <2>2. ~(y < x)
    BY <1>3, <1>4, <2>1
  <2> QED BY <2>1, <2>2
<1> QED BY <1>5

\* What a sum over s takes first.
Picked(s) == CHOOSE x \in s : TRUE

\* Induction over the subsets of a finite set, each from the one that lacks
\* what the sum takes first.
LEMMA PickInduction ==
    ASSUME NEW S, IsFiniteSet(S), NEW T, {} \in T,
           \A s \in SUBSET S : s # {} /\ s \ {Picked(s)} \in T => s \in T
    PROVE  SUBSET S \subseteq T
<1> DEFINE B == {n \in Nat : \E s \in SUBSET S : s \notin T /\ Cardinality(s) = n}
<1>1. SUFFICES ASSUME NEW s \in SUBSET S, s \notin T
               PROVE  FALSE
  OBVIOUS
<1>2. \A t \in SUBSET S : IsFiniteSet(t) /\ Cardinality(t) \in Nat
  BY FS_Subset, FS_CardinalityType
<1>3. B \in SUBSET Nat /\ B # {}
  BY <1>1, <1>2
<1>4. PICK n \in B : \A m \in B : n <= m
  <2> HIDE DEF B
  <2> QED BY <1>3, NatMin
<1>5. PICK t \in SUBSET S : t \notin T /\ Cardinality(t) = n
  BY <1>4
<1> DEFINE r == t \ {Picked(t)}
<1>6. t # {} /\ Picked(t) \in t
  BY <1>5 DEF Picked
<1>7. Cardinality(r) = n - 1 /\ r \in SUBSET S /\ n \in Nat
  BY <1>2, <1>5, <1>6, FS_RemoveElement
<1>8. r \notin T
  BY <1>5, <1>6
<1>9. n - 1 \in B
  BY <1>2, <1>7, <1>8
<1> QED BY <1>4, <1>7, <1>9

\* How the sum D of F goes on to a set from the set that lacks one element.
SumNext(F, D, s) == IF s = {} THEN 0 ELSE F[Picked(s)] + D[s \ {Picked(s)}]

\* The function that a sum over a finite set defines by recursion is there.
LEMMA SumExists ==
    ASSUME NEW S, IsFiniteSet(S), NEW F
    PROVE  \E D : /\ \A s \in SUBSET S : D[s] = SumNext(F, D, s)
                  /\ SumFunctionOnSet(F, S) = D[S]
<1> DEFINE Sums(D, n) == \A s \in SUBSET S : Cardinality(s) <= n => D[s] = SumNext(F, D, s)
           Depths == {n \in Nat : \E D : D = [s \in SUBSET S |-> D[s]] /\ Sums(D, n)}
<1>1. \A s \in SUBSET S : IsFiniteSet(s) /\ Cardinality(s) \in Nat
  BY FS_Subset, FS_CardinalityType
<1>2. 0 \in Depths
  <2> DEFINE D == [s \in SUBSET S |-> 0]
  <2>1. Sums(D, 0)
    <3> SUFFICES ASSUME NEW s \in SUBSET S, Cardinality(s) <= 0
                 PROVE  D[s] = SumNext(F, D, s)
      OBVIOUS
    <3>1. s = {}
      BY <1>1, FS_EmptySet
    <3> QED BY <3>1 DEF SumNext
  <2> QED BY <2>1
<1>3. ASSUME NEW n \in Depths PROVE n + 1 \in Depths
  <2>1. PICK D : D = [s \in SUBSET S |-> D[s]] /\ Sums(D, n)
    BY <1>3
  <2> DEFINE E == [s \in SUBSET S |-> SumNext(F, D, s)]
  <2>2. n \in Nat
    OBVIOUS
  <2>3. \A s \in SUBSET S : Cardinality(s) <= n => E[s] = D[s]
    BY <2>1
  <2>4. Sums(E, n + 1)
    <3> SUFFICES ASSUME NEW s \in SUBSET S, Cardinality(s) <= n + 1
                 PROVE  E[s] = SumNext(F, E, s)
      OBVIOUS
    <3>1. CASE s = {}
      BY <3>1 DEF SumNext
    <3>2. CASE s # {}
      <4> DEFINE r == s \ {Picked(s)}
      <4>1. Picked(s) \in s
        BY <3>2 DEF Picked
      <4>2. r \in SUBSET S /\ Cardinality(r) <= n
        BY <1>1, <2>2, <4>1, FS_RemoveElement
      <4>3. E[r] = D[r]
        BY <2>3, <4>2
      <4> HIDE DEF r, E
      <4>4. E[s] = SumNext(F, D, s)
        BY DEF E
      <4> QED BY <3>2, <4>3, <4>4 DEF SumNext, r
    <3> QED BY <3>1, <3>2
  <2>5. E = [s \in SUBSET S |-> E[s]]
    OBVIOUS
  <2> HIDE DEF E
  <2>6. \E C : C = [s \in SUBSET S |-> C[s]] /\ Sums(C, n + 1)
    <3> HIDE DEF Sums
    <3> QED BY <2>4, <2>5
  <2>7. n + 1 \in Nat
    BY <2>2
  <2> HIDE DEF Sums
  <2> QED BY <2>6, <2>7
<1>4. Cardinality(S) \in Depths
  <2> DEFINE B == {n \in Nat : n \notin Depths}
  <2>1. SUFFICES ASSUME Cardinality(S) \notin Depths PROVE FALSE
    OBVIOUS
  <2> HIDE DEF Depths
  <2>2. B \in SUBSET Nat /\ B # {}
    BY <1>1, <2>1
  <2>3. PICK n \in B : \A m \in B : n <= m
    <3> HIDE DEF B
    <3> QED BY <2>2, NatMin
  <2>4. n \in Nat /\ n # 0 /\ n - 1 \in Nat
    BY <1>2
  <2>5. n - 1 \in Depths
    BY <2>3, <2>4
  <2>6. (n - 1) + 1 \in Depths
    BY <1>3, <2>5
  <2> QED BY <2>4, <2>6
<1>5. PICK D : D = [s \in SUBSET S |-> D[s]] /\ Sums(D, Cardinality(S))
  BY <1>4
<1>6. \A s \in SUBSET S : D[s] = SumNext(F, D, s)
  BY <1>5, FS_Subset
<1> DEFINE IsSum(C) == C = [s \in SUBSET S |-> SumNext(F, C, s)]
           C == CHOOSE C : IsSum(C)
<1>7. IsSum(D)
  BY <1>5, <1>6
<1>8. IsSum(C)
  BY <1>7
<1>9. SumFunctionOnSet(F, S) = C[S]
  BY Zenon DEF SumFunctionOnSet, FoldFunctionOnSet, MapThenFoldSet, SumNext, Picked
<1>10. \A s \in SUBSET S : C[s] = SumNext(F, C, s)
  <2> HIDE DEF C
  <2> QED BY <1>8
<1> QED BY <1>9, <1>10

\* A sum of numbers is a number, at least each of its terms.
LEMMA SumBounds ==
    ASSUME NEW S, IsFiniteSet(S), NEW F, \A x \in S : F[x] \in Nat
    PROVE  /\ SumFunctionOnSet(F, S) \in Nat
           /\ \A x \in S : F[x] <= SumFunctionOnSet(F, S)
<1>1. PICK D : /\ \A s \in SUBSET S : D[s] = SumNext(F, D, s)
               /\ SumFunctionOnSet(F, S) = D[S]
  BY SumExists
<1> DEFINE T == {s \in SUBSET S : D[s] \in Nat /\ \A x \in s : F[x] <= D[s]}
<1>2. {} \in T
  <2>1. D[{}] = SumNext(F, D, {})
    BY <1>1
  <2>2. D[{}] = 0
    BY <2>1 DEF SumNext
  <2> QED BY <2>2
<1>3. ASSUME NEW s \in SUBSET S, s # {}, s \ {Picked(s)} \in T
      PROVE  s \in T
  <2> DEFINE r == s \ {Picked(s)}
  <2>1. Picked(s) \in s
    BY <1>3 DEF Picked
  <2>2. D[s] = F[Picked(s)] + D[r]
    BY <1>1, <1>3 DEF SumNext
  <2>3. D[r] \in Nat /\ F[Picked(s)] \in Nat /\ \A x \in r : F[x] \in Nat /\ F[x] <= D[r]
    BY <1>3, <2>1
  <2>4. \A x \in s : x = Picked(s) \/ x \in r
    OBVIOUS
  <2> HIDE DEF r
  <2>5. D[s] \in Nat /\ \A x \in s : F[x] <= D[s]
    BY <2>2, <2>3, <2>4
  <2> QED BY <2>5
<1>4. S \in T
  <2> HIDE DEF T
  <2> QED BY <1>2, <1>3, PickInduction
<1> QED BY <1>1, <1>4

\* It moves with the one term that changes.
LEMMA SumMoves ==
    ASSUME NEW S, IsFiniteSet(S), NEW F, NEW G, NEW e \in S,
           \A x \in S : F[x] \in Nat /\ G[x] \in Nat,
           \A x \in S \ {e} : G[x] = F[x]
    PROVE  SumFunctionOnSet(G, S) = SumFunctionOnSet(F, S) + (G[e] - F[e])
<1>1. PICK D : /\ \A s \in SUBSET S : D[s] = SumNext(F, D, s)
               /\ SumFunctionOnSet(F, S) = D[S]
  BY SumExists
<1>2. PICK E : /\ \A s \in SUBSET S : E[s] = SumNext(G, E, s)
               /\ SumFunctionOnSet(G, S) = E[S]
  BY SumExists
<1> DEFINE T == {s \in SUBSET S : D[s] \in Nat /\ E[s] = D[s] + IF e \in s THEN G[e] - F[e] ELSE 0}
<1>3. {} \in T
  <2>1. D[{}] = SumNext(F, D, {}) /\ E[{}] = SumNext(G, E, {})
    BY <1>1, <1>2
  <2>2. D[{}] = 0 /\ E[{}] = 0
    BY <2>1 DEF SumNext
  <2> QED BY <2>2
<1>4. ASSUME NEW s \in SUBSET S, s # {}, s \ {Picked(s)} \in T
      PROVE  s \in T
  <2> DEFINE r == s \ {Picked(s)}
             p == Picked(s)
  <2>1. p \in s /\ p \in S /\ (e \in r <=> e \in s /\ e # p)
    BY <1>4 DEF Picked
  <2>2. D[s] = F[p] + D[r] /\ E[s] = G[p] + E[r]
    BY <1>1, <1>2, <1>4 DEF SumNext
  <2>3. D[r] \in Nat /\ E[r] = D[r] + IF e \in r THEN G[e] - F[e] ELSE 0
    BY <1>4
  <2>4. F[p] \in Nat /\ G[p] \in Nat /\ (p # e => G[p] = F[p])
    BY <2>1
  <2> HIDE DEF r, p
  <2>5. D[s] \in Nat /\ E[s] = D[s] + IF e \in s THEN G[e] - F[e] ELSE 0
    BY <2>1, <2>2, <2>3, <2>4
  <2> QED BY <2>5
<1>5. S \in T
  <2> HIDE DEF T
  <2> QED BY <1>3, <1>4, PickInduction
<1> QED BY <1>1, <1>2, <1>5

-----------------------------------------------------------------------------
(* What a sighting does to the chances of a row.                           *)

\* What is shipped for an edge is the merged count less the typings, and not
\* below nought even where an import seeded the tables twice.
BaseStands ==
    \A e \in Edges : mergedCount[e] \in Nat /\ Whole(userShare[e]) <= mergedCount[e]

\* What the scores of a row rest on.
ScoresInv == SharesInv /\ BaseStands

\* What the merged count of an edge has over the user's typings.
Over(e) == mergedCount[e] - Whole(userShare[e])

\* So BaseCount is what the merged count has over the typings, as it is.
LEMMA BaseIsOver ==
    ASSUME ScoresInv, NEW e \in Edges
    PROVE  BaseCount(e) \in Nat /\ BaseCount(e) = Over(e)
<1>1. Whole(userShare[e]) \in Nat
  BY WholeIsNat DEF ScoresInv, SharesInv, Shares
<1> QED BY <1>1 DEF BaseCount, Over, Given, ScoresInv, BaseStands

\* Where the shares add up, that is what is shipped.
LEMMA AddedStands ==
    ASSUME SharesInv, ~seededTwice
    PROVE  BaseStands /\ \A e \in Edges : Over(e) = ShippedShare(e, loadedFor)
<1> SUFFICES ASSUME NEW e \in Edges
             PROVE  /\ mergedCount[e] \in Nat /\ Whole(userShare[e]) <= mergedCount[e]
                    /\ Over(e) = ShippedShare(e, loadedFor)
  BY DEF BaseStands
<1>1. Whole(userShare[e]) \in Nat /\ ShippedShare(e, loadedFor) \in Nat
  BY WholeIsNat, ShippedIsNat DEF SharesInv, Shares
<1>2. mergedCount[e] = ShippedShare(e, loadedFor) + Whole(userShare[e])
  BY DEF SharesInv, SharesAddUp
<1> QED BY <1>1, <1>2 DEF Over

\* Typing and fading leave it alone.
LEMMA RaisedKeepsBase ==
    ASSUME ScoresInv, NEW n \in Shares,
           \/ userShare' = Raised(n) /\ mergedCount' = MergedRaised(n)
           \/ /\ userShare' = Faded(Raised(n))
              /\ mergedCount' = MergedFaded(MergedRaised(n), Raised(n))
    PROVE  /\ BaseStands'
           /\ \A e \in Edges : Over(e)' = Over(e)
<1>1. Raised(n) \in Shares /\ Faded(Raised(n)) \in Shares
  BY RaisedIsShares, FadedIsShares DEF ScoresInv, SharesInv
<1>2. SUFFICES ASSUME NEW e \in Edges
               PROVE  /\ mergedCount'[e] \in Nat /\ Whole(userShare'[e]) <= mergedCount'[e]
                      /\ mergedCount'[e] - Whole(userShare'[e])
                           = mergedCount[e] - Whole(userShare[e])
  BY DEF BaseStands, Over
<1> DEFINE m == MergedRaised(n)
           u == Raised(n)
           was == Whole(userShare[e])
           raised == Whole(u[e])
           faded == Whole(Faded(u)[e])
<1>3. raised \in Nat /\ faded \in Nat /\ was \in Nat
  BY <1>1, WholeIsNat DEF Shares, ScoresInv, SharesInv
<1>4. mergedCount[e] \in Nat /\ was <= mergedCount[e]
  BY DEF ScoresInv, BaseStands
<1>5. m[e] = mergedCount[e] + raised - was
  BY DEF MergedRaised
<1>6. CASE userShare' = u /\ mergedCount' = m
  BY <1>3, <1>4, <1>5, <1>6
<1>7. CASE userShare' = Faded(u) /\ mergedCount' = MergedFaded(m, u)
  <2> DEFINE left == m[e] - (raised - faded)
  <2>1. MergedFaded(m, u)[e] = Given(left, left > 0)
    BY DEF MergedFaded
  <2> HIDE DEF m, raised, faded, was
  <2>2. left = (mergedCount[e] - was) + faded /\ left \in Nat
    BY <1>3, <1>4, <1>5
  <2>3. Given(left, left > 0) = left
    BY <2>2 DEF Given
  <2>4. mergedCount'[e] = left /\ Whole(userShare'[e]) = faded
    BY <1>7, <2>1, <2>3 DEF faded
  <2> QED BY <1>3, <1>4, <2>2, <2>4 DEF was
<1> QED BY <1>6, <1>7

\* The tables are read in with what is shipped for the user's words.
LEMMA LoadedKeepsBase ==
    ASSUME NEW u \in Shares, NEW words, LoadShares(u, words)
    PROVE  /\ BaseStands'
           /\ SharesInv /\ ~seededTwice /\ loadedFor' = loadedFor
                => \A e \in Edges : Over(e)' = Over(e)
<1>1. \A e \in Edges : Whole(u[e]) \in Nat /\ ShippedShare(e, words) \in Nat
  BY WholeIsNat, ShippedIsNat DEF Shares
<1>2. /\ userShare' = u /\ loadedFor' = words
      /\ \A e \in Edges : mergedCount'[e] = Whole(u[e]) + ShippedShare(e, words)
  BY DEF LoadShares
<1>3. BaseStands' /\ \A e \in Edges : Over(e)' = ShippedShare(e, words)
  BY <1>1, <1>2 DEF BaseStands, Over
<1>4. ASSUME SharesInv, ~seededTwice, loadedFor' = loadedFor
      PROVE  \A e \in Edges : Over(e)' = Over(e)
  BY <1>2, <1>3, <1>4, AddedStands
<1> QED BY <1>3, <1>4

\* A step keeps the base of every edge, unless it reads the tables in for other
\* words or over themselves.
LEMMA StepKeepsBase ==
    ASSUME ScoresInv, [ContextNext]_contextVars
    PROVE  /\ BaseStands'
           /\ loadedFor' = loadedFor /\ seededTwice' = seededTwice
                => \A e \in Edges : Over(e)' = Over(e)
<1>1. ASSUME NEW s \in Texts, NEW accepted \in SUBSET DOMAIN s, TypeText(s, accepted)
      PROVE  BaseStands' /\ \A e \in Edges : Over(e)' = Over(e)
  <2> DEFINE n == [e \in Edges |-> Linked(s, accepted, e)]
  <2>1. n \in Shares
    BY LinkedIsShares, ContextConstants
  <2>2. \/ userShare' = Raised(n) /\ mergedCount' = MergedRaised(n)
        \/ /\ userShare' = Faded(Raised(n))
           /\ mergedCount' = MergedFaded(MergedRaised(n), Raised(n))
    BY <1>1 DEF TypeText
  <2> HIDE DEF n
  <2> QED BY <2>1, <2>2, RaisedKeepsBase
<1>2. ASSUME NEW s \in Texts, TapAfter(s)
      PROVE  BaseStands' /\ \A e \in Edges : Over(e)' = Over(e)
  <2> DEFINE ends == {SubSeq(s, i, Len(s)) : i \in {Len(s) - 1, Len(s) - 2} \cap DOMAIN s}
             n == [e \in Edges |-> Given(1, e \in ends)]
  <2>1. n \in Shares
    BY DEF Given, Shares
  <2>2. userShare' = Raised(n) /\ mergedCount' = MergedRaised(n)
    BY <1>2 DEF TapAfter
  <2> HIDE DEF n
  <2> QED BY <2>1, <2>2, RaisedKeepsBase
<1>3. ASSUME NEW u \in Shares, NEW words, LoadShares(u, words)
      PROVE  /\ BaseStands'
             /\ loadedFor' = loadedFor /\ seededTwice' = seededTwice
                  => \A e \in Edges : Over(e)' = Over(e)
  <2>1. seededTwice' = FALSE
    BY <1>3 DEF LoadShares
  <2> QED BY <1>3, <2>1, LoadedKeepsBase DEF ScoresInv
<1>4. ASSUME NEW f \in Imports PROVE f.share \in Shares
  BY ContextConstants DEF Shares
<1>5. modelFile.share \in Shares
  BY DEF ScoresInv, SharesInv
<1>6. CASE SaveModel \/ UNCHANGED contextVars
  <2>1. userShare' = userShare /\ mergedCount' = mergedCount
    BY <1>6 DEF SaveModel, contextVars
  <2> QED BY <2>1 DEF ScoresInv, BaseStands, Over
<1>7. CASE ImportUnreadable
  <2>1. /\ userShare' = userShare /\ seededTwice' # seededTwice
        /\ \A e \in Edges : mergedCount'[e] = mergedCount[e] + ShippedShare(e, ownWords)
    BY <1>7 DEF ImportUnreadable
  <2>2. ASSUME NEW e \in Edges
        PROVE  mergedCount'[e] \in Nat /\ Whole(userShare'[e]) <= mergedCount'[e]
    <3>1. Whole(userShare[e]) \in Nat /\ ShippedShare(e, ownWords) \in Nat
      BY WholeIsNat, ShippedIsNat DEF ScoresInv, SharesInv, Shares
    <3> QED BY <2>1, <3>1 DEF ScoresInv, BaseStands
  <2> QED BY <2>1, <2>2 DEF BaseStands
<1>8. CASE \E f \in Imports : ImportModel(f)
  BY <1>3, <1>4, <1>8 DEF ImportModel
<1>9. CASE LaunchModel
  BY <1>3, <1>5, <1>9 DEF LaunchModel
<1>10. CASE ClearModel
  BY <1>3, <1>10, NothingIsShares DEF ClearModel
<1> QED BY <1>1, <1>2, <1>6, <1>7, <1>8, <1>9, <1>10 DEF ContextNext

\* What the scores rest on holds throughout.
LEMMA ScoresInvHolds == ContextInit /\ [][ContextNext]_contextVars => []ScoresInv
<1>1. ContextInit => ScoresInv
  BY SharesInvInit, AddedStands DEF ContextInit, ScoresInv
<1>2. ScoresInv /\ [ContextNext]_contextVars => ScoresInv'
  BY SharesInvNext, StepKeepsBase DEF ScoresInv
<1> QED BY <1>1, <1>2, PTL

-----------------------------------------------------------------------------

\* Arithmetic of products, which the blended chances are made of.
LEMMA Products ==
    ASSUME NEW a \in Nat, NEW b \in Nat, NEW c \in Nat
    PROVE  /\ a * b \in Nat /\ a * b = b * a /\ (a + b) * c = a * c + b * c
           /\ (a <= b => a * c <= b * c)
BY Z3

\* A fraction of at most one that y is added to above and below is no less.
LEMMA Mediant ==
    ASSUME NEW x \in Nat, NEW q \in Nat, NEW y \in Nat, x <= q
    PROVE  x * (q + y) <= (x + y) * q
<1>1. x * y <= q * y
  BY Products
<1>2. (x + y) * q = x * q + y * q /\ (q + y) * x = q * x + y * x
  BY Products
<1>3. q + y \in Nat /\ x + y \in Nat
  OBVIOUS
<1>4. x * (q + y) = (q + y) * x /\ x * y = y * x /\ q * y = y * q /\ x * q = q * x
  BY <1>3, Products
<1>5. x * y \in Nat /\ q * y \in Nat /\ x * q \in Nat
  BY Products
<1> QED BY <1>1, <1>2, <1>4, <1>5

\* The chances of u typings among t, and of b shipped among s, d sightings on.
LEMMA OnlyTyped ==
    ASSUME NEW u \in Nat, NEW t \in Nat, NEW d \in Nat, NEW prior \in Nat, u <= t
    PROVE  AtMost(<<u, t + prior>>, <<u + d, t + d + prior>>)
<1>1. u <= t + prior /\ t + prior \in Nat /\ t + d + prior = (t + prior) + d
  OBVIOUS
<1>2. u * ((t + prior) + d) <= (u + d) * (t + prior)
  BY <1>1, Mediant
<1> QED BY <1>1, <1>2 DEF AtMost

\* The first sighting in its row,
LEMMA FirstTyped ==
    ASSUME NEW b \in Nat, NEW s \in Nat, NEW d \in Nat, NEW prior \in Nat, b <= s
    PROVE  AtMost(<<b, s>>, <<d * s + prior * b, (d + prior) * s>>)
<1>1. /\ (d + prior) * s = d * s + prior * s
      /\ d * s \in Nat /\ prior * s \in Nat /\ prior * b \in Nat
      /\ d * s = s * d /\ prior * s = s * prior /\ prior * b = b * prior
  BY Products
<1> DEFINE y == d * s
           z == prior * s
           w == prior * b
<1>2. b * y <= s * y
  BY <1>1, Products
<1>3. b * z = w * s
  BY Z3
<1>4. b * (y + z) = b * y + b * z /\ (y + w) * s = y * s + w * s /\ s * y = y * s
  <2>1. y \in Nat /\ z \in Nat /\ w \in Nat /\ y + z \in Nat
    BY <1>1
  <2> HIDE DEF y, z, w
  <2>2. b * (y + z) = (y + z) * b /\ b * y = y * b /\ b * z = z * b
    BY <2>1, Products
  <2> QED BY <2>1, <2>2, Products
<1>5. b * (y + z) <= (y + w) * s
  <2>1. y \in Nat /\ z \in Nat /\ w \in Nat
    BY <1>1
  <2> HIDE DEF y, z, w
  <2>2. b * y \in Nat /\ b * z \in Nat /\ s * y \in Nat /\ w * s \in Nat
    BY <2>1, Products
  <2> QED BY <1>2, <1>3, <1>4, <2>2
<1> QED BY <1>1, <1>5 DEF AtMost

\* and one where the row has typings and shipped counts.
LEMMA BothKnown ==
    ASSUME NEW u \in Nat, NEW t \in Nat, NEW b \in Nat, NEW s \in Nat,
           NEW d \in Nat, NEW prior \in Nat, u <= t, b <= s
    PROVE  AtMost(<<u * s + prior * b, (t + prior) * s>>,
                  <<(u + d) * s + prior * b, (t + d + prior) * s>>)
<1> DEFINE x == u * s + prior * b
           q == (t + prior) * s
           y == d * s
<1>1. x \in Nat /\ q \in Nat /\ y \in Nat
  <2>1. t + prior \in Nat
    OBVIOUS
  <2> QED BY <2>1, Products
<1>2. x <= q
  <2>1. u * s <= t * s
    BY Products
  <2>2. b * prior <= s * prior
    BY Products
  <2>3. q = t * s + prior * s
    BY Products
  <2>4. /\ prior * b = b * prior /\ prior * s = s * prior
        /\ u * s \in Nat /\ t * s \in Nat /\ prior * b \in Nat /\ prior * s \in Nat
    BY Products
  <2> HIDE DEF q
  <2> QED BY <2>1, <2>2, <2>3, <2>4
<1>3. (u + d) * s + prior * b = x + y
  <2>1. (u + d) * s = u * s + d * s
    BY Products
  <2>2. u * s \in Nat /\ d * s \in Nat /\ prior * b \in Nat
    BY Products
  <2> QED BY <2>1, <2>2
<1>4. (t + d + prior) * s = q + y
  <2>1. t + prior \in Nat /\ t + d + prior = (t + prior) + d
    OBVIOUS
  <2>2. ((t + prior) + d) * s = (t + prior) * s + d * s
    BY <2>1, Products
  <2> QED BY <2>1, <2>2
<1> HIDE DEF x, q, y
<1>5. x * (q + y) <= (x + y) * q
  BY <1>1, <1>2, Mediant
<1>6. AtMost(<<x, q>>, <<x + y, q + y>>)
  BY <1>5 DEF AtMost
<1> QED BY <1>3, <1>4, <1>6 DEF x, q

-----------------------------------------------------------------------------

\* The pseudo-count of a row is a number.
LEMMA PriorIsNat ==
    ASSUME NEW s \in Nat
    PROVE  PriorFloor + BaseTrust * s \in Nat
<1>1. BaseTrust * s \in Nat
  BY Products, ContextConstants
<1> QED BY <1>1, ContextConstants

\* The chances of an edge before and after a sighting of it alone.
LEMMA SightingHelpsHere ==
    ASSUME IsFiniteSet(Edges), ScoresInv, ScoresInv', NEW e \in Edges,
           \A f \in Edges : Over(f)' = Over(f),
           userShare'[e] > userShare[e],
           \A f \in Row(e) \ {e} : userShare'[f] = userShare[f]
    PROVE  AtMost(Probability(e), Probability(e)')
<1> DEFINE row == Row(e)
           base == [f \in row |-> BaseCount(f)]
           u == userShare[e]
           d == userShare'[e] - u
           t == SumFunctionOnSet(userShare, row)
           tt == SumFunctionOnSet(userShare', row)
           b == BaseCount(e)
           s == SumFunctionOnSet(base, row)
           m == SumFunctionOnSet(mergedCount, row)
           prior == PriorFloor + BaseTrust * s
<1>1. row \subseteq Edges /\ e \in row /\ IsFiniteSet(row)
  <2>1. row \subseteq Edges /\ e \in row
    BY DEF Row
  <2> HIDE DEF row
  <2> QED BY <2>1, FS_Subset
<1>2. \A f \in row : userShare[f] \in Nat /\ userShare'[f] \in Nat
  <2>1. \A f \in Edges : userShare[f] \in Nat /\ userShare'[f] \in Nat
    BY DEF ScoresInv, SharesInv, Shares
  <2> HIDE DEF row
  <2> QED BY <1>1, <2>1
<1>3. \A f \in row : BaseCount(f) \in Nat /\ BaseCount(f) = Over(f)
  <2> HIDE DEF row
  <2> QED BY <1>1, BaseIsOver
<1>4. \A f \in row : BaseCount(f)' = BaseCount(f)
  <2>1. ASSUME NEW f \in Edges PROVE BaseCount(f)' = BaseCount(f)
    <3>1. BaseCount(f) = Over(f)
      BY BaseIsOver
    <3>2. BaseCount(f)' = Over(f)'
      <4>1. mergedCount'[f] \in Nat /\ Whole(userShare'[f]) <= mergedCount'[f]
        BY DEF ScoresInv, BaseStands
      <4>2. Whole(userShare'[f]) \in Nat
        BY WholeIsNat DEF ScoresInv, SharesInv, Shares
      <4> QED BY <4>1, <4>2 DEF BaseCount, Over, Given
    <3> QED BY <3>1, <3>2
  <2> HIDE DEF row
  <2> QED BY <1>1, <2>1
<1>5. /\ u \in Nat /\ d \in Nat /\ d > 0 /\ userShare'[e] = u + d
      /\ b \in Nat /\ BaseCount(e)' = b
  <2> HIDE DEF row
  <2> QED BY <1>1, <1>2, <1>3, <1>4
<1>6. t \in Nat /\ u <= t /\ \A f \in row : userShare[f] <= t
  <2> HIDE DEF row
  <2> QED BY <1>1, <1>2, SumBounds
<1>7. tt = t + d
  <2> HIDE DEF row
  <2>1. \A f \in row \ {e} : userShare'[f] = userShare[f]
    BY DEF row
  <2> QED BY <1>1, <1>2, <2>1, SumMoves
<1>8. s \in Nat /\ b <= s
  <2>1. \A f \in row : base[f] \in Nat /\ base[f] = BaseCount(f)
    BY <1>3
  <2> HIDE DEF row, base
  <2> QED BY <1>1, <2>1, SumBounds
<1>9. prior \in Nat
  <2> HIDE DEF s
  <2> QED BY <1>8, PriorIsNat
<1>10. [f \in row |-> BaseCount(f)'] = base
  <2> HIDE DEF row
  <2> QED BY <1>4
<1>11. Probability(e)' =
         IF s = 0 THEN <<u + d, t + d + prior>>
         ELSE <<(u + d) * s + prior * b, (t + d + prior) * s>>
  <2>1. tt # 0 /\ tt = t + d
    BY <1>5, <1>6, <1>7
  <2>2. Probability(e)' =
          LET st == SumFunctionOnSet([f \in row |-> BaseCount(f)'], row)
              p == PriorFloor + BaseTrust * st
          IN IF tt = 0 THEN <<mergedCount'[e], SumFunctionOnSet(mergedCount', row)>>
             ELSE IF st = 0 THEN <<userShare'[e], tt + p>>
             ELSE <<userShare'[e] * st + p * BaseCount(e)', (tt + p) * st>>
    BY DEF Probability, Row
  <2> HIDE DEF row, base, u, d, t, tt, b
  <2> QED BY <1>5, <1>10, <2>1, <2>2 DEF base
<1>12. CASE t = 0
  <2>1. u = 0 /\ \A f \in row : userShare[f] = 0
    <3> HIDE DEF row
    <3> QED BY <1>2, <1>5, <1>6, <1>12
  <2>2. \A f \in row : mergedCount[f] = BaseCount(f)
    <3>1. Whole(0) = 0
      <4>1. Unit \in Nat \ {0} /\ 2 * 0 + Unit = Unit
        BY ContextConstants
      <4>2. Unit \div (2 * Unit) = 0
        BY <4>1, Z3
      <4> QED BY <4>1, <4>2 DEF Whole
    <3>2. \A f \in row : mergedCount[f] \in Nat
      <4> HIDE DEF row
      <4> QED BY <1>1 DEF ScoresInv, BaseStands
    <3> HIDE DEF row
    <3> QED BY <1>3, <2>1, <3>1, <3>2 DEF Over
  <2>3. m = s
    <3>1. \A f \in row : base[f] \in Nat /\ mergedCount[f] \in Nat /\ mergedCount[f] = base[f]
      BY <1>3, <2>2
    <3> HIDE DEF row, base
    <3>2. /\ \A f \in row : base[f] \in Nat /\ mergedCount[f] \in Nat
          /\ \A f \in row \ {e} : mergedCount[f] = base[f]
      BY <3>1
    <3>3. m = s + (mergedCount[e] - base[e])
      <4> DEFINE g == mergedCount
      <4>1. /\ \A f \in row : base[f] \in Nat /\ g[f] \in Nat
            /\ \A f \in row \ {e} : g[f] = base[f]
        BY <3>2
      <4> HIDE DEF g
      <4>2. SumFunctionOnSet(g, row) = SumFunctionOnSet(base, row) + (g[e] - base[e])
        BY <1>1, <4>1, SumMoves
      <4> QED BY <4>2 DEF g
    <3> QED BY <1>1, <1>8, <3>1, <3>3
  <2>4. Probability(e) = <<b, s>>
    <3>1. Probability(e) = <<mergedCount[e], m>>
      BY <1>12 DEF Probability
    <3> HIDE DEF row, m, s
    <3> QED BY <1>1, <2>2, <2>3, <3>1
  <2> HIDE DEF row, base, u, d, t, tt, b, s, m, prior
  <2>5. CASE s = 0
    <3>1. b = 0
      BY <1>5, <1>8, <2>5
    <3>2. AtMost(<<0, 0>>, <<u + d, t + d + prior>>)
      <4>1. u + d \in Nat /\ t + d + prior \in Nat
        BY <1>5, <1>6, <1>9
      <4>2. 0 * (t + d + prior) = 0 /\ (u + d) * 0 = 0
        BY <4>1
      <4> QED BY <4>2 DEF AtMost
    <3> QED BY <1>11, <2>4, <2>5, <3>1, <3>2
  <2>6. CASE s # 0
    <3>1. u + d = d /\ t + d = d
      BY <1>5, <1>12, <2>1
    <3>2. AtMost(<<b, s>>, <<d * s + prior * b, (d + prior) * s>>)
      BY <1>5, <1>8, <1>9, FirstTyped
    <3> QED BY <1>11, <2>4, <2>6, <3>1, <3>2
  <2> QED BY <2>5, <2>6
<1>13. CASE t # 0
  <2>1. Probability(e) =
          IF s = 0 THEN <<u, t + prior>>
          ELSE <<u * s + prior * b, (t + prior) * s>>
    BY <1>13 DEF Probability
  <2> HIDE DEF row, base, u, d, t, tt, b, s, m, prior
  <2>2. CASE s = 0
    <3>1. AtMost(<<u, t + prior>>, <<u + d, t + d + prior>>)
      BY <1>5, <1>6, <1>9, OnlyTyped
    <3> QED BY <1>11, <2>1, <2>2, <3>1
  <2>3. CASE s # 0
    <3>1. AtMost(<<u * s + prior * b, (t + prior) * s>>,
                 <<(u + d) * s + prior * b, (t + d + prior) * s>>)
      BY <1>5, <1>6, <1>8, <1>9, BothKnown
    <3> QED BY <1>11, <2>1, <2>3, <3>1
  <2> QED BY <2>2, <2>3
<1> QED BY <1>12, <1>13

\* A sighting of one continuation never makes it less likely after the same
\* words, for any tables, weights, decay and pseudo-counts: the blend of typed
\* and shipped chances is a mediant, and no step but a reading in of the tables
\* for other words moves what is shipped.
THEOREM SightingsHelp ==
    ASSUME IsFiniteSet(Edges)
    PROVE  ContextInit /\ [][ContextNext]_contextVars => SightingHelps
<1> DEFINE Helps ==
        \A e \in Edges :
            /\ loadedFor' = loadedFor /\ seededTwice' = seededTwice
            /\ userShare'[e] > userShare[e]
            /\ \A f \in Row(e) \ {e} : userShare'[f] = userShare[f]
            => AtMost(Probability(e), Probability(e)')
<1>1. ScoresInv /\ ScoresInv' /\ [ContextNext]_contextVars => [Helps]_contextVars
  BY StepKeepsBase, SightingHelpsHere
<1> QED BY <1>1, ScoresInvHolds, PTL DEF SightingHelps

-----------------------------------------------------------------------------
(* The order of words, and ranks in an order.                              *)

\* Before, letter by letter.
BeforeAt(v, w, i) ==
    /\ i \in 1..Len(w) /\ i <= Len(v) + 1
    /\ \A j \in 1..(i - 1) : v[j] = w[j]
    /\ i = Len(v) + 1 \/ v[i] < w[i]

\* Comparing beginnings compares letters.
LEMMA BeforeMeans ==
    ASSUME NEW v \in Seq(Nat), NEW w \in Seq(Nat)
    PROVE  Before(v, w) <=> \E i \in Nat : BeforeAt(v, w, i)
<1>1. ASSUME NEW i \in 1..Len(w), i <= Len(v) + 1
      PROVE  SubSeq(v, 1, i - 1) = SubSeq(w, 1, i - 1) <=> \A j \in 1..(i - 1) : v[j] = w[j]
  <2> DEFINE a == SubSeq(v, 1, i - 1)
             b == SubSeq(w, 1, i - 1)
  <2>1. i \in Nat /\ i - 1 <= Len(v) /\ i - 1 <= Len(w) /\ i - 1 \in Nat
    BY <1>1
  <2>2. a = [j \in 1..(i - 1) |-> v[j]] /\ b = [j \in 1..(i - 1) |-> w[j]]
    BY <2>1
  <2> HIDE DEF a, b
  <2> QED BY <2>2
<1> QED BY <1>1 DEF Before, BeforeAt

\* The order of words is strict and total.
LEMMA BeforeIrreflexive ==
    ASSUME NEW v \in Seq(Nat)
    PROVE  ~Before(v, v)
BY BeforeMeans DEF BeforeAt

LEMMA BeforeTransitive ==
    ASSUME NEW u \in Seq(Nat), NEW v \in Seq(Nat), NEW w \in Seq(Nat),
           Before(u, v), Before(v, w)
    PROVE  Before(u, w)
<1>1. PICK i \in Nat : BeforeAt(u, v, i)
  BY BeforeMeans
<1>2. PICK k \in Nat : BeforeAt(v, w, k)
  BY BeforeMeans
<1>3. Len(u) \in Nat /\ Len(v) \in Nat /\ Len(w) \in Nat
  OBVIOUS
<1>4. \A j \in Nat : j \in 1..Len(u) => u[j] \in Nat
  OBVIOUS
<1>5. \A j \in Nat : j \in 1..Len(v) => v[j] \in Nat
  OBVIOUS
<1>6. \A j \in Nat : j \in 1..Len(w) => w[j] \in Nat
  OBVIOUS
<1>7. CASE i <= k
  <2>1. i \in 1..Len(w) /\ i <= Len(u) + 1
    BY <1>1, <1>2, <1>3, <1>7 DEF BeforeAt
  <2>2. \A j \in 1..(i - 1) : u[j] = w[j]
    BY <1>1, <1>2, <1>3, <1>7 DEF BeforeAt
  <2>3. ASSUME i # Len(u) + 1 PROVE u[i] < w[i]
    <3>1. i \in 1..Len(u) /\ i \in 1..Len(v) /\ u[i] < v[i]
      BY <1>1, <1>3, <2>3 DEF BeforeAt
    <3>2. v[i] <= w[i]
      BY <1>2, <1>3, <1>5, <1>7, <2>1, <3>1 DEF BeforeAt
    <3> QED BY <1>4, <1>5, <1>6, <2>1, <3>1, <3>2
  <2> QED BY <2>1, <2>2, <2>3, BeforeMeans DEF BeforeAt
<1>8. CASE k < i
  <2>1. k \in 1..Len(w) /\ k <= Len(u) /\ k <= Len(v) /\ k # Len(v) + 1
    BY <1>1, <1>2, <1>3, <1>8 DEF BeforeAt
  <2>2. \A j \in 1..(k - 1) : u[j] = w[j]
    BY <1>1, <1>2, <1>3, <1>8 DEF BeforeAt
  <2>3. u[k] = v[k] /\ v[k] < w[k]
    BY <1>1, <1>2, <1>3, <1>8, <2>1 DEF BeforeAt
  <2>4. BeforeAt(u, w, k)
    BY <2>1, <2>2, <2>3 DEF BeforeAt
  <2> QED BY <2>4, BeforeMeans
<1> QED BY <1>7, <1>8

LEMMA BeforeConnects ==
    ASSUME NEW v \in Seq(Nat), NEW w \in Seq(Nat), v # w
    PROVE  Before(v, w) \/ Before(w, v)
<1> DEFINE T == {i \in Nat \ {0} : /\ i <= Len(v) + 1 /\ i <= Len(w) + 1
                                   /\ (i = Len(v) + 1 \/ i = Len(w) + 1 \/ v[i] # w[i])}
<1>1. Len(v) \in Nat /\ Len(w) \in Nat
  OBVIOUS
<1>2. T \in SUBSET Nat /\ T # {}
  <2> DEFINE k == IF Len(v) <= Len(w) THEN Len(v) + 1 ELSE Len(w) + 1
  <2>1. k \in T
    BY <1>1
  <2> QED BY <2>1
<1>3. PICK m \in T : \A i \in T : m <= i
  <2> HIDE DEF T
  <2> QED BY <1>2, NatMin
<1>4. \A j \in 1..(m - 1) : v[j] = w[j]
  <2> SUFFICES ASSUME NEW j \in 1..(m - 1), v[j] # w[j] PROVE FALSE
    OBVIOUS
  <2>1. j \in T
    BY <1>1
  <2> QED BY <1>3, <2>1
<1>5. CASE m = Len(v) + 1 /\ m = Len(w) + 1
  <2>1. Len(v) = Len(w) /\ \A j \in 1..Len(v) : v[j] = w[j]
    BY <1>1, <1>4, <1>5
  <2>2. v = [j \in 1..Len(v) |-> v[j]] /\ w = [j \in 1..Len(w) |-> w[j]]
    OBVIOUS
  <2>3. v = w
    BY <2>1, <2>2
  <2> QED BY <2>3
<1>6. CASE m = Len(v) + 1 /\ m # Len(w) + 1
  <2>1. m \in Nat /\ m \in 1..Len(w) /\ m <= Len(v) + 1
    BY <1>1, <1>6
  <2>2. BeforeAt(v, w, m)
    BY <1>4, <1>6, <2>1 DEF BeforeAt
  <2> QED BY <2>1, <2>2, BeforeMeans
<1>7. CASE m # Len(v) + 1 /\ m = Len(w) + 1
  <2>1. m \in Nat /\ m \in 1..Len(v) /\ m <= Len(w) + 1
    BY <1>1, <1>7
  <2>2. BeforeAt(w, v, m)
    BY <1>4, <1>7, <2>1 DEF BeforeAt
  <2> QED BY <2>1, <2>2, BeforeMeans
<1>8. CASE m # Len(v) + 1 /\ m # Len(w) + 1
  <2>1. m \in 1..Len(v) /\ m \in 1..Len(w) /\ v[m] # w[m]
    BY <1>1, <1>8
  <2>2. v[m] \in Nat /\ w[m] \in Nat
    BY <2>1
  <2>3. BeforeAt(v, w, m) \/ BeforeAt(w, v, m)
    BY <1>1, <1>4, <2>1, <2>2 DEF BeforeAt
  <2> QED BY <2>3, BeforeMeans
<1> QED BY <1>5, <1>6, <1>7, <1>8

-----------------------------------------------------------------------------

\* R is a strict order of all of S.
Orders(R, S) ==
    /\ \A x \in S : <<x, x>> \notin R
    /\ \A x, y, z \in S : <<x, y>> \in R /\ <<y, z>> \in R => <<x, z>> \in R
    /\ \A x, y \in S : x = y \/ <<x, y>> \in R \/ <<y, x>> \in R

Earlier(x, S, R) == {y \in S : <<y, x>> \in R}
RankIn(x, S, R) == Cardinality(Earlier(x, S, R))

\* Ranks are numbers below the size of S and grow along the order.
LEMMA RankBounds ==
    ASSUME NEW S, IsFiniteSet(S), NEW R, Orders(R, S)
    PROVE  /\ Cardinality(S) \in Nat
           /\ \A x \in S : RankIn(x, S, R) \in Nat /\ RankIn(x, S, R) < Cardinality(S)
           /\ \A x, y \in S : <<x, y>> \in R => RankIn(x, S, R) < RankIn(y, S, R)
<1>1. \A T \in SUBSET S : IsFiniteSet(T) /\ Cardinality(T) \in Nat
  BY FS_Subset, FS_CardinalityType
<1>2. \A T \in SUBSET S : \A U \in SUBSET T : T # U => Cardinality(U) < Cardinality(T)
  <2> TAKE T \in SUBSET S
  <2> TAKE U \in SUBSET T
  <2>1. U \in SUBSET S
    OBVIOUS
  <2> QED BY <1>1, <2>1, FS_Subset
<1>3. ASSUME NEW x \in S
      PROVE  RankIn(x, S, R) \in Nat /\ RankIn(x, S, R) < Cardinality(S)
  <2>1. Earlier(x, S, R) \in SUBSET S /\ Earlier(x, S, R) # S
    BY DEF Earlier, Orders
  <2> QED BY <1>1, <1>2, <2>1 DEF RankIn
<1>4. ASSUME NEW x \in S, NEW y \in S, <<x, y>> \in R
      PROVE  RankIn(x, S, R) < RankIn(y, S, R)
  <2>1. Earlier(x, S, R) \in SUBSET Earlier(y, S, R)
    BY <1>4 DEF Earlier, Orders
  <2>2. x \in Earlier(y, S, R) /\ x \notin Earlier(x, S, R) /\ Earlier(y, S, R) \in SUBSET S
    BY <1>4 DEF Earlier, Orders
  <2> QED BY <1>2, <2>1, <2>2 DEF RankIn
<1> QED BY <1>1, <1>3, <1>4

\* Every number below the size of S is the rank of one element.
LEMMA RankIsTaken ==
    ASSUME NEW S, IsFiniteSet(S), NEW R, Orders(R, S), NEW i \in 0..(Cardinality(S) - 1)
    PROVE  \E x \in S : RankIn(x, S, R) = i
<1> DEFINE n == Cardinality(S)
           f == [x \in S |-> RankIn(x, S, R)]
           I == {f[x] : x \in S}
<1>1. n \in Nat /\ \A x \in S : f[x] \in 0..(n - 1)
  BY RankBounds
<1>2. \A x, y \in S : f[x] = f[y] => x = y
  <2> SUFFICES ASSUME NEW x \in S, NEW y \in S, f[x] = f[y] PROVE x = y
    OBVIOUS
  <2>1. f[x] \in Nat /\ f[y] \in Nat
    BY RankBounds
  <2>2. <<x, y>> \in R => f[x] < f[y]
    BY RankBounds
  <2>3. <<y, x>> \in R => f[y] < f[x]
    BY RankBounds
  <2> HIDE DEF f
  <2> QED BY <2>1, <2>2, <2>3 DEF Orders
<1>3. IsFiniteSet(0..(n - 1)) /\ Cardinality(0..(n - 1)) = n
  <2> HIDE DEF n
  <2> QED BY <1>1, FS_Interval
<1>4. f \in Bijection(S, I)
  BY <1>2 DEF Bijection, Injection, Surjection, IsInjective
<1>5. Cardinality(I) = n
  BY <1>4, FS_Bijection DEF ExistsBijection
<1>6. I \in SUBSET (0..(n - 1))
  BY <1>1
<1>7. I = 0..(n - 1)
  <2> HIDE DEF I, n, f
  <2> QED BY <1>3, <1>5, <1>6, FS_Subset
<1>8. PICK x \in S : f[x] = i
  BY <1>7
<1> QED BY <1>8

\* No two elements have the same rank.
LEMMA RankIsOne ==
    ASSUME NEW S, IsFiniteSet(S), NEW R, Orders(R, S), NEW x \in S, NEW y \in S,
           RankIn(x, S, R) = RankIn(y, S, R)
    PROVE  x = y
<1>1. RankIn(x, S, R) \in Nat /\ RankIn(y, S, R) \in Nat
  BY RankBounds
<1>2. <<x, y>> \in R => RankIn(x, S, R) < RankIn(y, S, R)
  BY RankBounds
<1>3. <<y, x>> \in R => RankIn(y, S, R) < RankIn(x, S, R)
  BY RankBounds
<1> QED BY <1>1, <1>2, <1>3 DEF Orders

\* q holds the first k of S.
IsFirst(q, k, S, R) ==
    LET n == IF Cardinality(S) < k THEN Cardinality(S) ELSE k IN
    /\ q = [i \in 1..n |-> q[i]]
    /\ \A i \in 1..n : q[i] \in S /\ RankIn(q[i], S, R) = i - 1

\* Of a part of S that has all of rank less than k the first k are those of S.
LEMMA FirstsAgree ==
    ASSUME NEW S, IsFiniteSet(S), NEW R, Orders(R, S), NEW T \in SUBSET S, NEW k \in Nat,
           \A x \in S : RankIn(x, S, R) < k => x \in T,
           NEW q, NEW r, IsFirst(q, k, T, R), IsFirst(r, k, S, R)
    PROVE  q = r
<1>1. IsFiniteSet(T) /\ Orders(R, T) /\ Cardinality(T) <= Cardinality(S)
  BY FS_Subset DEF Orders
<1>2. Cardinality(S) \in Nat /\ Cardinality(T) \in Nat
  BY <1>1, RankBounds
<1>3. ASSUME NEW x \in S, RankIn(x, S, R) < k
      PROVE  x \in T /\ RankIn(x, T, R) = RankIn(x, S, R)
  <2>1. ASSUME NEW y \in Earlier(x, S, R) PROVE y \in T
    <3>1. y \in S /\ <<y, x>> \in R
      BY DEF Earlier
    <3>2. RankIn(y, S, R) < RankIn(x, S, R) /\ RankIn(y, S, R) \in Nat /\ RankIn(x, S, R) \in Nat
      BY <3>1, RankBounds
    <3>3. RankIn(y, S, R) < k
      BY <1>3, <3>2
    <3> QED BY <3>1, <3>3
  <2>2. Earlier(x, S, R) = Earlier(x, T, R)
    BY <2>1 DEF Earlier
  <2> QED BY <1>3, <2>2 DEF RankIn
<1> DEFINE n == IF Cardinality(S) < k THEN Cardinality(S) ELSE k
<1>4. n = IF Cardinality(T) < k THEN Cardinality(T) ELSE k
  <2> SUFFICES ASSUME Cardinality(T) < k, Cardinality(T) < Cardinality(S) PROVE FALSE
    BY <1>1, <1>2
  <2>1. Cardinality(T) \in 0..(Cardinality(S) - 1)
    BY <1>2
  <2>2. PICK x \in S : RankIn(x, S, R) = Cardinality(T)
    BY <2>1, RankIsTaken
  <2>3. x \in T /\ RankIn(x, T, R) = Cardinality(T)
    BY <1>3, <2>2
  <2>4. RankIn(x, T, R) < Cardinality(T)
    BY <1>1, <2>3, RankBounds
  <2> QED BY <1>2, <2>3, <2>4
<1>5. /\ q = [i \in 1..n |-> q[i]]
      /\ \A i \in 1..n : q[i] \in T /\ RankIn(q[i], T, R) = i - 1
  <2> HIDE DEF n
  <2> QED BY <1>4 DEF IsFirst
<1>6. /\ r = [i \in 1..n |-> r[i]]
      /\ \A i \in 1..n : r[i] \in S /\ RankIn(r[i], S, R) = i - 1
  BY DEF IsFirst
<1>7. n \in Nat /\ n <= k
  BY <1>2
<1> HIDE DEF n
<1>8. ASSUME NEW i \in 1..n PROVE q[i] = r[i]
  <2>1. i \in Nat /\ i - 1 < k
    BY <1>7
  <2>2. r[i] \in T /\ RankIn(r[i], T, R) = i - 1
    BY <1>3, <1>6, <2>1
  <2>3. q[i] \in T /\ RankIn(q[i], T, R) = i - 1
    BY <1>5
  <2> QED BY <1>1, <2>2, <2>3, RankIsOne
<1> QED BY <1>5, <1>6, <1>8

\* An element that is not among the first k has k before it.
LEMMA LateHasRank ==
    ASSUME NEW S, IsFiniteSet(S), NEW R, Orders(R, S), NEW k \in Nat,
           NEW q, IsFirst(q, k, S, R), NEW x \in S, \A i \in DOMAIN q : q[i] # x
    PROVE  RankIn(x, S, R) >= k
<1> SUFFICES ASSUME RankIn(x, S, R) < k PROVE FALSE
  BY RankBounds
<1> DEFINE n == IF Cardinality(S) < k THEN Cardinality(S) ELSE k
           i == RankIn(x, S, R) + 1
<1>1. /\ Cardinality(S) \in Nat /\ RankIn(x, S, R) \in Nat
      /\ RankIn(x, S, R) < Cardinality(S)
  BY RankBounds
<1>2. i \in 1..n
  BY <1>1
<1>3. /\ q = [j \in 1..n |-> q[j]]
      /\ \A j \in 1..n : q[j] \in S /\ RankIn(q[j], S, R) = j - 1
  BY DEF IsFirst
<1> HIDE DEF n
<1>4. q[i] \in S /\ RankIn(q[i], S, R) = RankIn(x, S, R) /\ i \in DOMAIN q
  BY <1>1, <1>2, <1>3
<1>5. q[i] = x
  <2> HIDE DEF i
  <2> QED BY <1>4, RankIsOne
<1> QED BY <1>4, <1>5

-----------------------------------------------------------------------------
(* Scores.                                                                 *)

CountsTyped ==
    /\ baseCounts \in [BarWords -> Nat]
    /\ personal \in [BarWords -> Nat] /\ fromCorpus \in [BarWords -> Nat]

\* Words by how much f gives them, equals in their own order.
ByMost(f) ==
    {q \in BarWords \X BarWords :
        f[q[1]] > f[q[2]] \/ (f[q[1]] = f[q[2]] /\ Before(q[1], q[2]))}

\* Words by any measure, with ties in their own order, are in a strict total order.
LEMMA ByMostOrders ==
    ASSUME NEW f \in [BarWords -> Nat], NEW S \in SUBSET BarWords
    PROVE  Orders(ByMost(f), S)
<1> DEFINE R == ByMost(f)
<1>1. /\ \A x \in S : x \in BarWords /\ x \in Seq(Nat)
      /\ \A x \in S : f[x] \in Nat
  BY NextWordsConstants
<1>2. \A x, y \in S : <<x, y>> \in R <=> f[x] > f[y] \/ (f[x] = f[y] /\ Before(x, y))
  BY <1>1 DEF ByMost
<1> HIDE DEF R
<1>3. \A x \in S : ~Before(x, x)
  BY <1>1, BeforeIrreflexive
<1>4. \A x, y, z \in S : Before(x, y) /\ Before(y, z) => Before(x, z)
  BY <1>1, BeforeTransitive
<1>5. \A x, y \in S : x = y \/ Before(x, y) \/ Before(y, x)
  BY <1>1, BeforeConnects
<1>6. \A x \in S : <<x, x>> \notin R
  BY <1>1, <1>2, <1>3
<1>7. ASSUME NEW x \in S, NEW y \in S, NEW z \in S, <<x, y>> \in R, <<y, z>> \in R
      PROVE  <<x, z>> \in R
  <2>1. f[x] \in Nat /\ f[y] \in Nat /\ f[z] \in Nat
    BY <1>1
  <2>2. f[x] > f[y] \/ (f[x] = f[y] /\ Before(x, y))
    BY <1>2, <1>7
  <2>3. f[y] > f[z] \/ (f[y] = f[z] /\ Before(y, z))
    BY <1>2, <1>7
  <2>4. f[x] > f[z] \/ (f[x] = f[z] /\ Before(x, z))
    BY <1>4, <2>1, <2>2, <2>3
  <2> QED BY <1>2, <2>4
<1>8. ASSUME NEW x \in S, NEW y \in S, x # y
      PROVE  <<x, y>> \in R \/ <<y, x>> \in R
  <2>1. f[x] \in Nat /\ f[y] \in Nat
    BY <1>1
  <2>2. Before(x, y) \/ Before(y, x)
    BY <1>5, <1>8
  <2>3. f[x] > f[y] \/ f[y] > f[x] \/ f[x] = f[y]
    BY <2>1
  <2> QED BY <1>2, <2>2, <2>3
<1> QED BY <1>6, <1>7, <1>8 DEF Orders, R

\* Totals are numbers, and as divisors at least one.
LEMMA TotalIsNat ==
    ASSUME NEW f \in [BarWords -> Nat]
    PROVE  Total(f) \in Nat /\ Atleast1(Total(f)) \in Nat \ {0}
<1>1. Total(f) \in Nat
  BY SumBounds, NextWordsConstants DEF Total
<1> QED BY <1>1 DEF Atleast1

\* Order survives a factor.
LEMMA Factors ==
    ASSUME NEW x \in Nat, NEW y \in Nat, NEW c \in Nat
    PROVE  /\ x * c \in Nat /\ c * x \in Nat
           /\ x <= y => x * c <= y * c /\ c * x <= c * y
           /\ x < y /\ c > 0 => x * c < y * c /\ c * x < c * y
           /\ x * c > 0 => x > 0 /\ c > 0
           /\ c * x > 0 => x > 0 /\ c > 0
BY Z3

\* What the shipped count of a word adds to its score, on its own.
LEMMA ShippedScore ==
    ASSUME NEW c \in Nat, NEW t \in Nat, NEW x \in Nat, NEW y \in Nat, x <= y
    PROVE  /\ c * x * t \in Nat /\ c * y * t \in Nat /\ c * x * t <= c * y * t
           /\ c * x * t > 0 /\ x < y => c * x * t < c * y * t
<1>1. c * x \in Nat /\ c * y \in Nat /\ c * x <= c * y
  BY Factors
<1>2. c * x * t \in Nat /\ c * y * t \in Nat /\ c * x * t <= c * y * t
  BY <1>1, Factors
<1>3. ASSUME c * x * t > 0, x < y
      PROVE  c * x * t < c * y * t
  <2>1. c * x > 0 /\ t > 0
    BY <1>1, <1>3, Factors
  <2>2. c > 0
    BY <2>1, Factors
  <2>3. c * x < c * y
    BY <1>3, <2>2, Factors
  <2> QED BY <1>1, <2>1, <2>3, Factors
<1> QED BY <1>2, <1>3

UniOf(w) == (AlphaDen - AlphaNum) * baseCounts[w] * Atleast1(TypingTotal)

\* So is what was typed and counted from the corpus together.
LEMMA TypingTotalIsNat ==
    ASSUME CountsTyped
    PROVE  Atleast1(TypingTotal) \in Nat \ {0}
<1>1. Total(personal) \in Nat /\ Total(fromCorpus) \in Nat /\ CorpusDen \in Nat /\ CorpusNum \in Nat
  BY TotalIsNat, NextWordsConstants DEF CountsTyped
<1>2. Total(personal) * CorpusDen \in Nat /\ CorpusNum * Total(fromCorpus) \in Nat
  BY <1>1, Factors
<1> QED BY <1>2 DEF TypingTotal, Atleast1

\* The shipped part of a unigram score is all of it for a word nobody typed.
LEMMA UniParts ==
    ASSUME CountsTyped, NEW w \in BarWords
    PROVE  /\ UniScore(w) \in Nat /\ UniOf(w) \in Nat /\ UniOf(w) <= UniScore(w)
           /\ personal[w] = 0 /\ fromCorpus[w] = 0 => UniScore(w) = UniOf(w)
<1> DEFINE g == Atleast1(Total(baseCounts))
           n == TypingCount(w)
<1>1. /\ AlphaNum \in Nat /\ AlphaDen - AlphaNum \in Nat /\ CorpusDen \in Nat /\ CorpusNum \in Nat
      /\ personal[w] \in Nat /\ fromCorpus[w] \in Nat /\ baseCounts[w] \in Nat
  BY NextWordsConstants DEF CountsTyped
<1>2. g \in Nat /\ Atleast1(TypingTotal) \in Nat
  BY TotalIsNat, TypingTotalIsNat DEF CountsTyped
<1>3. n \in Nat /\ (personal[w] = 0 /\ fromCorpus[w] = 0 => n = 0)
  <2>1. personal[w] * CorpusDen \in Nat /\ CorpusNum * fromCorpus[w] \in Nat
    BY <1>1, Factors
  <2>2. 0 * CorpusDen = 0 /\ CorpusNum * 0 = 0
    BY <1>1
  <2> QED BY <2>1, <2>2 DEF TypingCount
<1>4. UniOf(w) \in Nat
  BY <1>1, <1>2, ShippedScore DEF UniOf
<1>5. UniScore(w) = AlphaNum * n * g + UniOf(w)
  BY DEF UniScore, UniOf
<1> HIDE DEF g, n
<1>6. AlphaNum * n * g \in Nat
  BY <1>1, <1>2, <1>3, ShippedScore
<1>7. AlphaNum * 0 * g = 0
  BY <1>1, <1>2
<1> QED BY <1>3, <1>4, <1>5, <1>6, <1>7

\* What a score is above its unigram part, and that it is a number.
LEMMA ScoreParts ==
    ASSUME CountsTyped, NEW e \in Evidence, NEW w \in BarWords
    PROVE  /\ WordScore(w, e) \in Nat
           /\ Held(e.tri) \cup Held(e.bi) # {} =>
                LET t == Atleast1(Total(e.tri))  b == Atleast1(Total(e.bi)) IN
                /\ WordScore(w, e) >= LambdaUni * UniScore(w) * t * b
                /\ e.tri[w] = 0 /\ e.bi[w] = 0 =>
                     WordScore(w, e) = LambdaUni * UniScore(w) * t * b
<1> DEFINE t == Atleast1(Total(e.tri))
           b == Atleast1(Total(e.bi))
           c == LambdaTri * e.tri[w] * b + LambdaBi * e.bi[w] * t
           u == LambdaUni * UniScore(w) * t
<1>1. /\ e.tri \in [BarWords -> Nat] /\ e.bi \in [BarWords -> Nat]
      /\ e.tri[w] \in Nat /\ e.bi[w] \in Nat
      /\ LambdaTri \in Nat /\ LambdaBi \in Nat /\ LambdaUni \in Nat /\ AlphaDen \in Nat
  BY NextWordsConstants
<1>2. t \in Nat /\ b \in Nat /\ Atleast1(TypingTotal) \in Nat /\ Atleast1(Total(baseCounts)) \in Nat
  BY <1>1, TotalIsNat, TypingTotalIsNat DEF CountsTyped
<1>3. UniScale \in Nat
  BY <1>1, <1>2, ShippedScore DEF UniScale
<1>4. UniScore(w) \in Nat
  BY UniParts
<1>5. WordScore(w, e) = IF Held(e.tri) \cup Held(e.bi) = {} THEN UniScore(w)
                        ELSE UniScale * c + u * b
  BY DEF WordScore
<1> HIDE DEF t, b
<1>6. LambdaTri * e.tri[w] * b \in Nat /\ LambdaBi * e.bi[w] * t \in Nat
  BY <1>1, <1>2, ShippedScore
<1>7. c \in Nat /\ (e.tri[w] = 0 /\ e.bi[w] = 0 => c = 0)
  <2>1. LambdaTri * 0 * b = 0 /\ LambdaBi * 0 * t = 0
    BY <1>1, <1>2
  <2> QED BY <1>6, <2>1
<1>8. u \in Nat
  BY <1>1, <1>2, <1>4, ShippedScore
<1> HIDE DEF c, u
<1>9. UniScale * c \in Nat /\ u * b \in Nat /\ UniScale * 0 = 0
  BY <1>2, <1>3, <1>7, <1>8, Factors
<1>10. Held(e.tri) \cup Held(e.bi) # {} =>
         /\ WordScore(w, e) >= u * b
         /\ e.tri[w] = 0 /\ e.bi[w] = 0 => WordScore(w, e) = u * b
  BY <1>5, <1>7, <1>9
<1> QED BY <1>4, <1>5, <1>9, <1>10 DEF u, t, b

\* Of a word that only the shipped list knows, any word the list holds more
\* of scores as much or more.
LEMMA ShippedDecides ==
    ASSUME CountsTyped, NEW e \in Evidence, NEW x \in BarWords, NEW y \in BarWords,
           x \notin SparseWords(e), WordScore(x, e) > 0, baseCounts[x] <= baseCounts[y]
    PROVE  /\ WordScore(x, e) <= WordScore(y, e)
           /\ baseCounts[x] < baseCounts[y] => WordScore(x, e) < WordScore(y, e)
<1> DEFINE t == Atleast1(Total(e.tri))
           b == Atleast1(Total(e.bi))
           g == Atleast1(TypingTotal)
           a == AlphaDen - AlphaNum
<1>1. /\ e.tri \in [BarWords -> Nat] /\ e.bi \in [BarWords -> Nat]
      /\ LambdaUni \in Nat /\ a \in Nat /\ baseCounts[x] \in Nat /\ baseCounts[y] \in Nat
  <2>1. e.tri \in [BarWords -> Nat] /\ e.bi \in [BarWords -> Nat]
    BY NextWordsConstants
  <2>2. LambdaUni \in Nat /\ AlphaDen - AlphaNum \in Nat
    BY NextWordsConstants
  <2> QED BY <2>1, <2>2 DEF CountsTyped
<1>2. e.tri[x] = 0 /\ e.bi[x] = 0 /\ personal[x] = 0 /\ fromCorpus[x] = 0
  BY <1>1 DEF SparseWords, Held, CountsTyped
<1>3. t \in Nat /\ b \in Nat /\ g \in Nat
  BY <1>1, TotalIsNat, TypingTotalIsNat
<1>4. /\ UniOf(x) \in Nat /\ UniOf(y) \in Nat /\ UniScore(x) \in Nat /\ UniScore(y) \in Nat
      /\ UniScore(x) = UniOf(x) /\ UniOf(y) <= UniScore(y)
  BY <1>2, UniParts
<1>5. UniOf(x) = a * baseCounts[x] * g /\ UniOf(y) = a * baseCounts[y] * g
  BY DEF UniOf
<1> HIDE DEF t, b, g, a
<1>6. /\ UniOf(x) <= UniOf(y)
      /\ UniOf(x) > 0 /\ baseCounts[x] < baseCounts[y] => UniOf(x) < UniOf(y)
  BY <1>1, <1>3, <1>5, ShippedScore
<1>7. /\ UniScore(x) <= UniScore(y)
      /\ UniScore(x) > 0 /\ baseCounts[x] < baseCounts[y] => UniScore(x) < UniScore(y)
  BY <1>4, <1>6
<1>8. CASE Held(e.tri) \cup Held(e.bi) = {}
  BY <1>7, <1>8 DEF WordScore
<1>9. CASE Held(e.tri) \cup Held(e.bi) # {}
  <2> DEFINE X == LambdaUni * UniScore(x) * t
             Y == LambdaUni * UniScore(y) * t
  <2>1. /\ X \in Nat /\ Y \in Nat /\ X <= Y
        /\ X > 0 /\ UniScore(x) < UniScore(y) => X < Y
    BY <1>1, <1>3, <1>4, <1>7, ShippedScore
  <2>2. X > 0 => UniScore(x) > 0
    <3>1. LambdaUni * UniScore(x) \in Nat
      BY <1>1, <1>4, Factors
    <3>2. X > 0 => LambdaUni * UniScore(x) > 0
      BY <1>3, <3>1, Factors
    <3> HIDE DEF X
    <3> QED BY <1>1, <1>4, <3>2, Factors
  <2>3. WordScore(x, e) = X * b /\ WordScore(y, e) >= Y * b
    BY <1>2, <1>9, ScoreParts DEF t, b
  <2> HIDE DEF X, Y
  <2>4. X * b \in Nat /\ Y * b \in Nat /\ X * b <= Y * b /\ X > 0 /\ b > 0
    BY <1>3, <2>1, <2>3, Factors
  <2>5. X < Y => X * b < Y * b
    BY <1>3, <2>1, <2>4, Factors
  <2>6. WordScore(y, e) \in Nat
    BY ScoreParts
  <2> QED BY <1>7, <2>1, <2>2, <2>3, <2>4, <2>5, <2>6
<1> QED BY <1>8, <1>9

-----------------------------------------------------------------------------
(* The lists and the answers are first elements.                           *)

\* What _top_base_candidates looks through.
InRange(words, p) ==
    {w \in words : StartsWith(w, p)}
        \cup {w \in words : p # <<>> /\ ~Contracted(p) /\ Contracted(w)
                               /\ StartsWith(Bare(w), p)}

\* The pruned list is the first of what its ranges hold, by shipped count.
LEMMA TopIsFirst ==
    ASSUME CountsTyped, NEW words \in SUBSET BarWords, NEW p
    PROVE  IsFirst(TopOf(words, p), BarSize, InRange(words, p), ByMost(baseCounts))
<1> DEFINE S == InRange(words, p)
           R == ByMost(baseCounts)
           Betters(x) == {y \in S : \/ baseCounts[y] > baseCounts[x]
                                    \/ baseCounts[y] = baseCounts[x] /\ Before(y, x)}
           n == IF Cardinality(S) < BarSize THEN Cardinality(S) ELSE BarSize
           q == [i \in 1..n |-> CHOOSE x \in S : Cardinality(Betters(x)) = i - 1]
<1>1. TopOf(words, p) = q
  BY DEF TopOf, FirstBy, InRange
<1>2. S \in SUBSET BarWords /\ IsFiniteSet(S) /\ BarSize \in Nat
  BY NextWordsConstants, FS_Subset DEF InRange
<1>3. Orders(R, S)
  BY <1>2, ByMostOrders DEF CountsTyped
<1>4. \A x \in S : Betters(x) = Earlier(x, S, R)
  <2> HIDE DEF S
  <2> QED BY <1>2 DEF Earlier, ByMost
<1>5. Cardinality(S) \in Nat
  BY <1>2, <1>3, RankBounds
<1>6. ASSUME NEW i \in 1..n
      PROVE  q[i] \in S /\ RankIn(q[i], S, R) = i - 1
  <2>1. i - 1 \in 0..(Cardinality(S) - 1)
    BY <1>2, <1>5
  <2>2. PICK x \in S : RankIn(x, S, R) = i - 1
    BY <1>2, <1>3, <2>1, RankIsTaken
  <2>3. Cardinality(Betters(x)) = i - 1
    BY <1>4, <2>2 DEF RankIn
  <2>4. q[i] \in S /\ Cardinality(Betters(q[i])) = i - 1
    <3> HIDE DEF S, Betters, n
    <3> QED BY <2>3
  <2> QED BY <1>4, <2>4 DEF RankIn
<1> QED BY <1>1, <1>6 DEF IsFirst

\* An answer is the first of what it scored, by score.
LEMMA BestIsFirst ==
    ASSUME CountsTyped, NEW scored \in SUBSET BarWords, NEW p, NEW e \in Evidence
    PROVE  IsFirst(BestWords(scored, p, e), BarSize,
                   {w \in scored : MatchesPartial(w, p) /\ WordScore(w, e) > 0},
                   ByMost([w \in BarWords |-> WordScore(w, e)]))
<1> DEFINE f == [w \in BarWords |-> WordScore(w, e)]
           M == {w \in scored : MatchesPartial(w, p)}
           score == [w \in M |-> WordScore(w, e)]
           P0 == {w \in DOMAIN score : score[w] > 0}
           S == {w \in scored : MatchesPartial(w, p) /\ WordScore(w, e) > 0}
           R == ByMost(f)
           Betters(x) == {y \in S : \/ score[y] > score[x]
                                    \/ score[y] = score[x] /\ Before(y, x)}
           n == IF Cardinality(S) < BarSize THEN Cardinality(S) ELSE BarSize
           q == [i \in 1..n |-> CHOOSE x \in S : Cardinality(Betters(x)) = i - 1]
<1>1. P0 = S
  OBVIOUS
<1>2. BestWords(scored, p, e) = q
  <2>1. BestWords(scored, p, e) =
          [i \in 1..(IF Cardinality(P0) < BarSize THEN Cardinality(P0) ELSE BarSize) |->
             CHOOSE x \in P0 : Cardinality({y \in P0 : \/ score[y] > score[x]
                                                       \/ score[y] = score[x] /\ Before(y, x)})
                               = i - 1]
    BY DEF BestWords, FirstBy
  <2> HIDE DEF P0, S, score
  <2> QED BY <1>1, <2>1
<1>3. S \in SUBSET BarWords /\ IsFiniteSet(S) /\ BarSize \in Nat
  BY NextWordsConstants, FS_Subset
<1>4. f \in [BarWords -> Nat]
  BY ScoreParts
<1>5. Orders(R, S)
  <2> HIDE DEF S, f
  <2> QED BY <1>3, <1>4, ByMostOrders
<1>6. \A x \in S : Betters(x) = Earlier(x, S, R)
  <2>1. \A x \in S : score[x] = f[x]
    BY <1>3
  <2> HIDE DEF S, f, score
  <2> QED BY <1>3, <2>1 DEF Earlier, ByMost
<1> HIDE DEF S, f, score, R
<1>7. Cardinality(S) \in Nat
  BY <1>3, <1>5, RankBounds
<1>8. ASSUME NEW i \in 1..n
      PROVE  q[i] \in S /\ RankIn(q[i], S, R) = i - 1
  <2>1. i - 1 \in 0..(Cardinality(S) - 1)
    BY <1>3, <1>7
  <2>2. PICK x \in S : RankIn(x, S, R) = i - 1
    BY <1>3, <1>5, <2>1, RankIsTaken
  <2>3. Cardinality(Betters(x)) = i - 1
    BY <1>6, <2>2 DEF RankIn
  <2>4. q[i] \in S /\ Cardinality(Betters(q[i])) = i - 1
    <3> HIDE DEF Betters, n
    <3> QED BY <2>3
  <2> QED BY <1>6, <2>4 DEF RankIn
<1>9. IsFirst(q, BarSize, S, R)
  <2>1. q = [i \in 1..n |-> q[i]]
    <3> HIDE DEF Betters, n
    <3> QED OBVIOUS
  <2> HIDE DEF q
  <2> QED BY <1>8, <2>1 DEF IsFirst
<1> QED BY <1>2, <1>9 DEF S, R, f

-----------------------------------------------------------------------------

\* When it is read, a list built earlier is the list that would be built now.
ListsAreCurrent ==
    ~baseMoved => /\ sortedWords = Held(baseCounts)
                  /\ topRow # <<>> => topRow = TopOf(Held(baseCounts), <<>>)

\* Then the pruned list that is used is the one that would be made.
LEMMA CurrentTopIsTop ==
    ASSUME ListsAreCurrent, NEW p
    PROVE  CurrentTop(p) = TopOf(Held(baseCounts), p)
BY DEF ListsAreCurrent, CurrentTop

\* The ranges of the sorted lists hold the words that match, and no others.
LEMMA MatchesAreInRange ==
    ASSUME NEW words \in SUBSET BarWords, NEW p \in Seq(Nat), NEW w \in words
    PROVE  w \in InRange(words, p) <=> MatchesPartial(w, p)
<1>1. CASE p # <<>>
  BY <1>1 DEF InRange, MatchesPartial
<1>2. CASE p = <<>>
  <2>1. w \in Seq(Nat)
    BY NextWordsConstants
  <2>2. Len(w) \in Nat /\ SubSeq(w, 1, 0) = <<>> /\ Len(<<>>) = 0
    BY <2>1
  <2>3. StartsWith(w, p)
    BY <1>2, <2>2 DEF StartsWith
  <2> QED BY <2>3 DEF InRange, MatchesPartial
<1> QED BY <1>1, <1>2

\* A word only the shipped list knows that a full scan ranks among the first n
\* is in the pruned list: otherwise n commoner words of its range are before
\* it there, and each of them scores as much or more.
LEMMA ShortcutIsFull ==
    ASSUME CountsTyped, ListsAreCurrent, NEW p \in Seq(Nat), NEW e \in Evidence
    PROVE  Predicted(p, e) = BestWords(SparseWords(e) \cup Held(baseCounts), p, e)
<1> DEFINE f == [w \in BarWords |-> WordScore(w, e)]
           H == Held(baseCounts)
           top == TopOf(H, p)
           C == InRange(H, p)
           few == SparseWords(e) \cup ToSet(top)
           all == SparseWords(e) \cup H
           S == {w \in all : MatchesPartial(w, p) /\ WordScore(w, e) > 0}
           T == {w \in few : MatchesPartial(w, p) /\ WordScore(w, e) > 0}
           R == ByMost(f)
           B == ByMost(baseCounts)
<1>1. Predicted(p, e) = BestWords(few, p, e)
  BY CurrentTopIsTop DEF Predicted
<1>2. BarSize \in Nat /\ IsFiniteSet(BarWords) /\ baseCounts \in [BarWords -> Nat]
  BY NextWordsConstants DEF CountsTyped
<1>3. H \in SUBSET BarWords /\ SparseWords(e) \in SUBSET BarWords
  BY DEF Held, SparseWords
<1>4. C \in SUBSET H /\ IsFiniteSet(C)
  BY <1>2, <1>3, FS_Subset DEF InRange
<1>5. IsFirst(top, BarSize, C, B)
  BY <1>3, TopIsFirst
<1>6. ToSet(top) \in SUBSET C
  <2>1. DOMAIN top = 1..(IF Cardinality(C) < BarSize THEN Cardinality(C) ELSE BarSize)
    BY <1>5 DEF IsFirst
  <2>2. \A i \in DOMAIN top : top[i] \in C
    BY <1>5, <2>1 DEF IsFirst
  <2> HIDE DEF top, C
  <2> QED BY <2>2 DEF ToSet
<1>7. few \in SUBSET all /\ all \in SUBSET BarWords
  BY <1>3, <1>4, <1>6
<1> HIDE DEF H, top, C
<1>8. T \in SUBSET S /\ S \in SUBSET BarWords /\ IsFiniteSet(S)
  <2>1. T \in SUBSET S /\ S \in SUBSET BarWords
    BY <1>7
  <2> QED BY <1>2, <2>1, FS_Subset
<1>9. f \in [BarWords -> Nat] /\ \A w \in BarWords : f[w] = WordScore(w, e)
  BY ScoreParts
<1>10. Orders(R, S) /\ Orders(B, C)
  <2> HIDE DEF f, S
  <2> QED BY <1>2, <1>3, <1>4, <1>8, <1>9, ByMostOrders
<1>11. ASSUME NEW x \in S, RankIn(x, S, R) < BarSize
       PROVE  x \in T
  <2> SUFFICES ASSUME x \notin T PROVE FALSE
    OBVIOUS
  <2>1. /\ x \in BarWords /\ x \in H /\ x \notin SparseWords(e) /\ x \notin ToSet(top)
        /\ MatchesPartial(x, p) /\ WordScore(x, e) > 0
    BY <1>8
  <2>2. x \in C
    BY <1>3, <2>1, MatchesAreInRange DEF C
  <2>3. RankIn(x, C, B) >= BarSize
    <3>1. \A i \in DOMAIN top : top[i] # x
      BY <2>1 DEF ToSet
    <3> HIDE DEF B
    <3> QED BY <1>2, <1>4, <1>5, <1>10, <2>2, <3>1, LateHasRank
  <2>4. ASSUME NEW y \in C, <<y, x>> \in B
        PROVE  y \in S /\ <<y, x>> \in R
    <3>1. y \in H /\ y \in BarWords /\ MatchesPartial(y, p)
      BY <1>3, <1>4, MatchesAreInRange DEF C
    <3>2. baseCounts[y] > baseCounts[x] \/ (baseCounts[y] = baseCounts[x] /\ Before(y, x))
      BY <2>4 DEF ByMost
    <3>3. baseCounts[x] \in Nat /\ baseCounts[y] \in Nat
      BY <1>2, <2>1, <3>1
    <3>4. /\ WordScore(x, e) <= WordScore(y, e)
          /\ baseCounts[x] < baseCounts[y] => WordScore(x, e) < WordScore(y, e)
      BY <2>1, <3>1, <3>2, <3>3, ShippedDecides
    <3>5. f[x] = WordScore(x, e) /\ f[y] = WordScore(y, e) /\ f[x] \in Nat /\ f[y] \in Nat
      BY <1>9, <2>1, <3>1
    <3> HIDE DEF f
    <3>6. f[y] > f[x] \/ (f[y] = f[x] /\ Before(y, x))
      BY <3>2, <3>3, <3>4, <3>5
    <3>7. y \in S
      BY <2>1, <3>1, <3>4, <3>5
    <3> QED BY <2>1, <3>1, <3>6, <3>7 DEF ByMost
  <2>5. Earlier(x, C, B) \in SUBSET Earlier(x, S, R)
    <3> HIDE DEF S, B, R
    <3> QED BY <2>4 DEF Earlier
  <2>6. IsFiniteSet(Earlier(x, S, R))
    BY <1>8, FS_Subset DEF Earlier
  <2>7. RankIn(x, C, B) <= RankIn(x, S, R) /\ RankIn(x, C, B) \in Nat /\ RankIn(x, S, R) \in Nat
    <3> HIDE DEF S, B, R
    <3> QED BY <2>5, <2>6, FS_Subset, FS_CardinalityType DEF RankIn
  <2> QED BY <1>2, <1>11, <2>3, <2>7
<1>12. /\ IsFirst(BestWords(few, p, e), BarSize, T, R)
       /\ IsFirst(BestWords(all, p, e), BarSize, S, R)
  <2>1. few \in SUBSET BarWords
    BY <1>7
  <2> HIDE DEF few, all
  <2> QED BY <1>7, <2>1, BestIsFirst
<1>13. BestWords(few, p, e) = BestWords(all, p, e)
  <2> HIDE DEF S, T, R, few, all
  <2> QED BY <1>2, <1>8, <1>10, <1>11, <1>12, FirstsAgree
<1> QED BY <1>1, <1>13 DEF H

-----------------------------------------------------------------------------

NextWordsInv == CountsTyped /\ ListsAreCurrent

\* It depends on the shipped counts alone.
LEMMA TopStays ==
    ASSUME UNCHANGED baseCounts
    PROVE  /\ Held(baseCounts)' = Held(baseCounts)
           /\ TopOf(Held(baseCounts), <<>>)' = TopOf(Held(baseCounts), <<>>)
BY DEF Held, TopOf, FirstBy

\* The lists are current and the counts are numbers, throughout.
LEMMA NextWordsInvHolds == NextWordsInit /\ [][NextWordsNext]_nextWordsVars => []NextWordsInv
<1>1. NextWordsInit => NextWordsInv
  BY NextWordsConstants DEF NextWordsInit, NextWordsInv, CountsTyped, ListsAreCurrent, NoEvidence
<1>2. NextWordsInv /\ [NextWordsNext]_nextWordsVars => NextWordsInv'
  <2> SUFFICES ASSUME NextWordsInv, [NextWordsNext]_nextWordsVars PROVE NextWordsInv'
    OBVIOUS
  <2> USE DEF NextWordsInv
  <2>1. ASSUME NEW p \in Partials, Predict(p)
        PROVE  NextWordsInv'
    <3>1. CountsTyped'
      BY <2>1 DEF Predict, CountsTyped
    <3>2. /\ ~baseMoved' /\ baseCounts' = baseCounts
          /\ sortedWords' = IF baseMoved THEN Held(baseCounts) ELSE sortedWords
          /\ topRow' = IF p = <<>> THEN CurrentTop(p) ELSE IF baseMoved THEN <<>> ELSE topRow
      BY <2>1 DEF Predict
    <3>3. Held(baseCounts)' = Held(baseCounts)
          /\ TopOf(Held(baseCounts), <<>>)' = TopOf(Held(baseCounts), <<>>)
      BY <3>2, TopStays
    <3>4. CurrentTop(<<>>) = TopOf(Held(baseCounts), <<>>)
      BY CurrentTopIsTop
    <3>5. sortedWords' = Held(baseCounts)
      BY <3>2 DEF ListsAreCurrent
    <3>6. topRow' # <<>> => topRow' = TopOf(Held(baseCounts), <<>>)
      BY <3>2, <3>4 DEF ListsAreCurrent
    <3>7. ListsAreCurrent'
      BY <3>3, <3>5, <3>6 DEF ListsAreCurrent
    <3> QED BY <3>1, <3>7
  <2>2. ASSUME NEW w \in BarWords, CountShipped(w)
        PROVE  NextWordsInv'
    BY <2>2, NextWordsConstants DEF CountShipped, CountsTyped, ListsAreCurrent
  <2>3. ASSUME NEW w \in BarWords, NEW n \in 0..MaxTimes, CountTyping(w, n)
        PROVE  NextWordsInv'
    <3>1. n \in Nat
      OBVIOUS
    <3>2. CountsTyped'
      BY <2>3, <3>1 DEF CountTyping, CountsTyped
    <3>3. UNCHANGED <<baseCounts, baseMoved, sortedWords, topRow>>
      BY <2>3 DEF CountTyping
    <3>4. ListsAreCurrent'
      BY <3>3, TopStays DEF ListsAreCurrent
    <3> QED BY <3>2, <3>4
  <2>4. ASSUME NEW W \in SUBSET PriorWords, CountCorpus(W)
        PROVE  NextWordsInv'
    <3>1. CountsTyped'
      BY <2>4 DEF CountCorpus, CountsTyped
    <3>2. UNCHANGED <<baseCounts, baseMoved, sortedWords, topRow>>
      BY <2>4 DEF CountCorpus
    <3>3. ListsAreCurrent'
      BY <3>2, TopStays DEF ListsAreCurrent
    <3> QED BY <3>1, <3>3
  <2>5. CASE ForgetCounts
    BY <2>5, NextWordsConstants DEF ForgetCounts, CountsTyped, ListsAreCurrent, NoEvidence
  <2>6. CASE UNCHANGED nextWordsVars
    <3>1. UNCHANGED <<baseCounts, personal, fromCorpus, baseMoved, sortedWords, topRow>>
      BY <2>6 DEF nextWordsVars
    <3>2. CountsTyped'
      BY <3>1 DEF CountsTyped
    <3>3. ListsAreCurrent'
      BY <3>1, TopStays DEF ListsAreCurrent
    <3> QED BY <3>2, <3>3
  <2> QED BY <2>1, <2>2, <2>3, <2>4, <2>5, <2>6 DEF NextWordsNext
<1> QED BY <1>1, <1>2, PTL

\* The shortcut is never seen: whatever was loaded, typed, counted from a corpus
\* or cleared since the sorted lists were built, the n-gram answers every typed
\* beginning with the words, in the order, that a scan of every table would give.
THEOREM ShortcutLosesNothing ==
    NextWordsInit /\ [][NextWordsNext]_nextWordsVars => []PruningLosesNothing
<1>1. Partials \in SUBSET Seq(Nat)
  BY NextWordsConstants
<1>2. NextWordsInv => PruningLosesNothing
  BY <1>1, ShortcutIsFull DEF NextWordsInv, PruningLosesNothing
<1> QED BY <1>2, NextWordsInvHolds, PTL

\* The same beside the other engines.
THEOREM ShortcutLosesNothingInTheEngine == PredictionSpec => []RunPruningLosesNothing
<1>1. PredictionInit => NextWordsInit
  BY DEF PredictionInit
<1>2. [PredictionNext]_<<engine, vars, contextVars, indexVars, nextWordsVars, rankingVars>>
        => [NextWordsNext]_nextWordsVars
  BY DEF PredictionNext
<1>3. PruningLosesNothing => RunPruningLosesNothing
  BY DEF RunPruningLosesNothing
<1> QED BY <1>1, <1>2, <1>3, ShortcutLosesNothing, PTL DEF PredictionSpec

-----------------------------------------------------------------------------
(* The recogniser's indexes.                                               *)

\* Where an order is total, what is first is what has a small rank.
LEMMA FirstHas ==
    ASSUME NEW S, IsFiniteSet(S), NEW R, Orders(R, S), NEW k \in Nat,
           NEW q, IsFirst(q, k, S, R)
    PROVE  ToSet(q) = {x \in S : RankIn(x, S, R) < k}
<1> DEFINE n == IF Cardinality(S) < k THEN Cardinality(S) ELSE k
<1>1. /\ q = [i \in 1..n |-> q[i]]
      /\ \A i \in 1..n : q[i] \in S /\ RankIn(q[i], S, R) = i - 1
  BY DEF IsFirst
<1>2. Cardinality(S) \in Nat
  BY RankBounds
<1>3. n \in Nat /\ n <= k
  BY <1>2
<1> HIDE DEF n
<1>4. DOMAIN q = 1..n
  BY <1>1
<1>5. ASSUME NEW x \in ToSet(q) PROVE x \in S /\ RankIn(x, S, R) < k
  <2>1. PICK i \in 1..n : x = q[i]
    BY <1>4 DEF ToSet
  <2> QED BY <1>1, <1>3, <2>1
<1>6. ASSUME NEW x \in S, RankIn(x, S, R) < k PROVE x \in ToSet(q)
  <2> SUFFICES ASSUME x \notin ToSet(q) PROVE FALSE
    OBVIOUS
  <2>1. \A i \in DOMAIN q : q[i] # x
    BY DEF ToSet
  <2>2. RankIn(x, S, R) >= k /\ RankIn(x, S, R) \in Nat
    BY <2>1, LateHasRank, RankBounds
  <2> QED BY <1>6, <2>2
<1> QED BY <1>5, <1>6

-----------------------------------------------------------------------------
(* Rows of the prefix index.                                               *)

FreqRows == Nat \X Dictionary
ByBetter == {q \in FreqRows \X FreqRows : Better(q[1], q[2])}

\* The recogniser's words are finitely many sequences of letters.
LEMMA DictionaryWords == IsFiniteSet(Dictionary) /\ Dictionary \in SUBSET Seq(Nat)
<1>1. \A w \in Dictionary : w \in Seq(Letters)
  BY IndexConstants
<1>2. ASSUME NEW w \in Seq(Letters) PROVE w \in Seq(Nat)
  <2>1. Len(w) \in Nat /\ w = [i \in 1..Len(w) |-> w[i]] /\ \A i \in 1..Len(w) : w[i] \in Letters
    OBVIOUS
  <2>2. Letters \in SUBSET Nat
    BY IndexConstants
  <2>3. w \in [1..Len(w) -> Nat]
    BY <2>1, <2>2
  <2> QED BY <2>1, <2>3
<1> QED BY <1>1, <1>2, IndexConstants

\* Rows are in a strict total order.
LEMMA BetterOrders ==
    ASSUME NEW S \in SUBSET FreqRows
    PROVE  Orders(ByBetter, S)
<1>1. \A x \in S : x[1] \in Nat /\ x[2] \in Dictionary /\ x[2] \in Seq(Nat) /\ x = <<x[1], x[2]>>
  BY DictionaryWords DEF FreqRows
<1>2. \A x, y \in S : <<x, y>> \in ByBetter
                        <=> x[1] > y[1] \/ (x[1] = y[1] /\ Before(y[2], x[2]))
  BY DEF ByBetter, Better
<1>3. \A x \in S : ~Before(x[2], x[2])
  BY <1>1, BeforeIrreflexive
<1>4. \A x, y, z \in S : Before(x[2], y[2]) /\ Before(y[2], z[2]) => Before(x[2], z[2])
  BY <1>1, BeforeTransitive
<1>5. \A x, y \in S : x[2] = y[2] \/ Before(x[2], y[2]) \/ Before(y[2], x[2])
  BY <1>1, BeforeConnects
<1>6. \A x \in S : <<x, x>> \notin ByBetter
  BY <1>1, <1>2, <1>3
<1>7. ASSUME NEW x \in S, NEW y \in S, NEW z \in S,
             <<x, y>> \in ByBetter, <<y, z>> \in ByBetter
      PROVE  <<x, z>> \in ByBetter
  <2>1. x[1] \in Nat /\ y[1] \in Nat /\ z[1] \in Nat
    BY <1>1
  <2>2. x[1] > y[1] \/ (x[1] = y[1] /\ Before(y[2], x[2]))
    BY <1>2, <1>7
  <2>3. y[1] > z[1] \/ (y[1] = z[1] /\ Before(z[2], y[2]))
    BY <1>2, <1>7
  <2>4. x[1] > z[1] \/ (x[1] = z[1] /\ Before(z[2], x[2]))
    BY <1>4, <2>1, <2>2, <2>3
  <2> QED BY <1>2, <2>4
<1>8. ASSUME NEW x \in S, NEW y \in S, x # y
      PROVE  <<x, y>> \in ByBetter \/ <<y, x>> \in ByBetter
  <2>1. x[1] \in Nat /\ y[1] \in Nat
    BY <1>1
  <2>2. CASE x[1] = y[1]
    <3>1. x[2] # y[2]
      BY <1>1, <1>8, <2>2
    <3> QED BY <1>2, <1>5, <2>2, <3>1
  <2>3. CASE x[1] # y[1]
    <3>1. x[1] > y[1] \/ y[1] > x[1]
      BY <2>1, <2>3
    <3> QED BY <1>2, <3>1
  <2> QED BY <2>2, <2>3
<1> QED BY <1>6, <1>7, <1>8 DEF Orders

\* The best k rows are the first k.
LEMMA BestIsTheFirst ==
    ASSUME NEW S \in SUBSET FreqRows, IsFiniteSet(S), NEW k \in Nat
    PROVE  IsFirst(Best(k, S), k, S, ByBetter)
<1> DEFINE Betters(x) == {y \in S : Better(y, x)}
           n == IF Cardinality(S) < k THEN Cardinality(S) ELSE k
           q == [i \in 1..n |-> CHOOSE x \in S : Cardinality(Betters(x)) = i - 1]
<1>1. Best(k, S) = q
  BY DEF Best, FirstBy
<1>2. Orders(ByBetter, S)
  BY BetterOrders
<1>3. \A x \in S : Betters(x) = Earlier(x, S, ByBetter)
  BY DEF Earlier, ByBetter
<1>4. Cardinality(S) \in Nat
  BY <1>2, RankBounds
<1>5. ASSUME NEW i \in 1..n
      PROVE  q[i] \in S /\ RankIn(q[i], S, ByBetter) = i - 1
  <2>1. i - 1 \in 0..(Cardinality(S) - 1)
    BY <1>4
  <2>2. PICK x \in S : RankIn(x, S, ByBetter) = i - 1
    BY <1>2, <2>1, RankIsTaken
  <2>3. Cardinality(Betters(x)) = i - 1
    BY <1>3, <2>2 DEF RankIn
  <2>4. q[i] \in S /\ Cardinality(Betters(q[i])) = i - 1
    <3> HIDE DEF Betters, n
    <3> QED BY <2>3
  <2> QED BY <1>3, <2>4 DEF RankIn
<1>6. IsFirst(q, k, S, ByBetter)
  <2>1. q = [i \in 1..n |-> q[i]]
    <3> HIDE DEF Betters, n
    <3> QED OBVIOUS
  <2> HIDE DEF q
  <2> QED BY <1>5, <2>1 DEF IsFirst
<1> QED BY <1>1, <1>6

RowsOf(d, p) == {<<d[w], w>> : w \in {v \in KnownIn(d) : StartsWith(v, p)}}

\* The rows of a beginning, and that the row kept is the best of them.
LEMMA RowsAreRows ==
    ASSUME NEW d \in [Dictionary -> Nat], NEW p
    PROVE  /\ RowsOf(d, p) \in SUBSET FreqRows /\ IsFiniteSet(RowsOf(d, p))
           /\ Orders(ByBetter, RowsOf(d, p))
           /\ IsFirst(TopRow(d, p), TopK, RowsOf(d, p), ByBetter)
           /\ \A r \in RowsOf(d, p) : r[2] \in Dictionary /\ r = <<d[r[2]], r[2]>>
                                        /\ d[r[2]] > 0 /\ StartsWith(r[2], p)
<1> DEFINE W == {v \in KnownIn(d) : StartsWith(v, p)}
<1>1. W \in SUBSET Dictionary /\ IsFiniteSet(W)
  BY DictionaryWords, FS_Subset DEF KnownIn
<1>2. IsFiniteSet({<<d[w], w>> : w \in W})
  <2> DEFINE f == [w \in W |-> <<d[w], w>>]
             I == {<<d[w], w>> : w \in W}
  <2>1. f \in Surjection(W, I)
    BY DEF Surjection
  <2> HIDE DEF f, I, W
  <2>2. IsFiniteSet(I)
    BY <1>1, <2>1, FS_Surjection
  <2> QED BY <2>2 DEF I
<1>3. RowsOf(d, p) \in SUBSET FreqRows /\ IsFiniteSet(RowsOf(d, p))
  BY <1>1, <1>2 DEF RowsOf, FreqRows
<1>4. TopRow(d, p) = Best(TopK, RowsOf(d, p)) /\ TopK \in Nat
  BY IndexConstants DEF TopRow, RowsOf
<1>5. \A r \in RowsOf(d, p) : r[2] \in Dictionary /\ r = <<d[r[2]], r[2]>>
                                /\ d[r[2]] > 0 /\ StartsWith(r[2], p)
  BY DEF RowsOf, KnownIn
<1> QED BY <1>3, <1>4, <1>5, BestIsTheFirst, BetterOrders

\* A row is kept up one word at a time: the best of the best rows and the one
\* that changes are the best of all.
LEMMA RowKeptUp ==
    ASSUME NEW d \in [Dictionary -> Nat], NEW w \in Dictionary, NEW n \in Nat, n > d[w],
           NEW p, StartsWith(w, p)
    PROVE  Best(TopK, {r \in ToSet(TopRow(d, p)) : r[2] # w} \cup {<<n, w>>})
             = TopRow([d EXCEPT ![w] = n], p)
<1> DEFINE e == [d EXCEPT ![w] = n]
           A == RowsOf(d, p)
           S == RowsOf(e, p)
           R == ByBetter
           new == <<n, w>>
           T == {r \in ToSet(TopRow(d, p)) : r[2] # w} \cup {new}
<1>1. e \in [Dictionary -> Nat] /\ e[w] = n /\ \A v \in Dictionary : v # w => e[v] = d[v]
  OBVIOUS
<1>2. TopK \in Nat
  BY IndexConstants
<1>3. /\ A \in SUBSET FreqRows /\ IsFiniteSet(A) /\ Orders(R, A)
      /\ IsFirst(TopRow(d, p), TopK, A, R)
      /\ \A r \in A : r[2] \in Dictionary /\ r = <<d[r[2]], r[2]>>
                                          /\ d[r[2]] > 0 /\ StartsWith(r[2], p)
  BY RowsAreRows
<1>4. /\ S \in SUBSET FreqRows /\ IsFiniteSet(S) /\ Orders(R, S)
      /\ IsFirst(TopRow(e, p), TopK, S, R)
      /\ \A r \in S : r[2] \in Dictionary /\ r = <<e[r[2]], r[2]>>
                                          /\ e[r[2]] > 0 /\ StartsWith(r[2], p)
  <2> HIDE DEF e
  <2> QED BY <1>1, RowsAreRows
<1>5. new \in S
  BY <1>1 DEF RowsOf, KnownIn
<1>6. ASSUME NEW r, r[2] # w PROVE r \in A <=> r \in S
  BY <1>1, <1>6 DEF RowsOf, KnownIn
<1>7. ToSet(TopRow(d, p)) = {x \in A : RankIn(x, A, R) < TopK}
  BY <1>2, <1>3, FirstHas
<1> HIDE DEF e, A, S, R
<1>8. T \in SUBSET S /\ IsFiniteSet(T) /\ T \in SUBSET FreqRows
  <2>1. T \in SUBSET S
    BY <1>5, <1>6, <1>7
  <2> QED BY <1>4, <2>1, FS_Subset
<1>9. ASSUME NEW x \in S, RankIn(x, S, R) < TopK
      PROVE  x \in T
  <2>1. CASE x[2] = w
    BY <1>1, <1>4, <2>1
  <2>2. CASE x[2] # w
    <3>1. x \in A
      BY <1>6, <2>2
    <3> DEFINE E == Earlier(x, A, R)
               G == Earlier(x, S, R)
               move == [r \in E |-> IF r[2] = w THEN new ELSE r]
    <3>2. IsFiniteSet(E) /\ IsFiniteSet(G)
      BY <1>3, <1>4, FS_Subset DEF Earlier
    <3>3. ASSUME NEW r \in E PROVE move[r] \in G
      <4>1. r \in A /\ r \in FreqRows /\ x \in FreqRows /\ <<r, x>> \in R
        BY <1>3, <3>1 DEF Earlier
      <4>2. CASE r[2] # w
        BY <1>6, <4>1, <4>2 DEF Earlier
      <4>3. CASE r[2] = w
        <5>1. r[1] = d[w] /\ x[1] \in Nat
          BY <1>3, <4>1, <4>3 DEF FreqRows
        <5>2. r[1] > x[1] \/ (r[1] = x[1] /\ Before(x[2], r[2]))
          BY <4>1 DEF R, ByBetter, Better
        <5>3. n > x[1]
          BY <5>1, <5>2
        <5>4. new \in FreqRows /\ Better(new, x)
          BY <5>3 DEF FreqRows, Better
        <5>5. <<new, x>> \in R
          BY <4>1, <5>4 DEF R, ByBetter
        <5> QED BY <1>5, <4>3, <5>5 DEF Earlier
      <4> QED BY <4>2, <4>3
    <3>4. ASSUME NEW r \in E, NEW u \in E, move[r] = move[u] PROVE r = u
      <4>1. r \in A /\ u \in A
        BY DEF Earlier
      <4>2. r[2] = u[2]
        BY <3>4
      <4> QED BY <1>3, <4>1, <4>2
    <3>5. move \in Injection(E, G)
      <4>1. move \in [E -> G]
        <5>1. move = [r \in E |-> move[r]]
          OBVIOUS
        <5> HIDE DEF E, G, move
        <5> QED BY <3>3, <5>1
      <4> HIDE DEF E, G, move
      <4> QED BY <3>4, <4>1 DEF Injection, IsInjective
    <3>6. Cardinality(E) <= Cardinality(G) /\ Cardinality(E) \in Nat /\ Cardinality(G) \in Nat
      <4> HIDE DEF E, G, move
      <4> QED BY <3>2, <3>5, FS_Injection, FS_CardinalityType DEF ExistsInjection
    <3>7. RankIn(x, A, R) < TopK
      BY <1>2, <1>9, <3>6 DEF RankIn
    <3> QED BY <1>7, <2>2, <3>1, <3>7
  <2> QED BY <2>1, <2>2
<1>10. IsFirst(Best(TopK, T), TopK, T, R)
  <2> HIDE DEF T
  <2> QED BY <1>2, <1>8, BestIsTheFirst DEF R
<1>11. Best(TopK, T) = TopRow(e, p)
  <2> HIDE DEF T
  <2> QED BY <1>2, <1>4, <1>8, <1>9, <1>10, FirstsAgree
<1> QED BY <1>11 DEF e

-----------------------------------------------------------------------------
(* The index.                                                              *)

\* The letters that follow a beginning in the words of d.
LettersAfter(d, p) == {w[Len(p) + 1] : w \in {v \in KnownIn(d) : StartsWith(v, p) /\ v # p}}
Begins(d, p) == \E w \in KnownIn(d) : StartsWith(w, p)

\* An index holds the words of d: what its base and overlays say together is
\* what d says, and where a row has no overlay nothing it is made of has moved.
IndexFits(ix, d) ==
    /\ ix = [base |-> ix.base, freq |-> d, live |-> ix.live, children |-> ix.children,
             override |-> ix.override]
    /\ ix.base \in [Dictionary -> Nat] /\ ix.live \subseteq AllBeginnings
    /\ \A p \in AllBeginnings : /\ IsLive(ix, p) <=> Begins(d, p)
                                /\ Children(ix, p) = LettersAfter(d, p)
    /\ \A p \in Short :
         IF ix.override[p] = <<>>
         THEN \A w \in Dictionary : StartsWith(w, p) => d[w] = ix.base[w]
         ELSE ix.override[p] = TopRow(d, p)

\* An index built afresh fits.
LEMMA NewIndexFits ==
    ASSUME NEW d \in [Dictionary -> Nat]
    PROVE  IndexFits(NewIndex(d), d)
BY DEF IndexFits, NewIndex, IsLive, InBase, Begins, Children, LettersAfter, Short

\* Where no word of a row has moved since the base was built, the row is the
\* base's.
LEMMA BaseRowStands ==
    ASSUME NEW d \in [Dictionary -> Nat], NEW b \in [Dictionary -> Nat], NEW p,
           \A w \in Dictionary : StartsWith(w, p) => d[w] = b[w]
    PROVE  TopRow(b, p) = TopRow(d, p)
<1>1. {<<b[w], w>> : w \in {v \in KnownIn(b) : StartsWith(v, p)}}
        = {<<d[w], w>> : w \in {v \in KnownIn(d) : StartsWith(v, p)}}
  BY DEF KnownIn
<1> QED BY <1>1 DEF TopRow

\* A row is a sequence of known words that begin so, empty if there are none.
LEMMA RowsAreSequences ==
    ASSUME NEW d \in [Dictionary -> Nat], NEW p
    PROVE  /\ \E n \in Nat : TopRow(d, p) = [i \in 1..n |-> TopRow(d, p)[i]]
           /\ \A i \in DOMAIN TopRow(d, p) :
                /\ TopRow(d, p)[i][2] \in Dictionary
                /\ StartsWith(TopRow(d, p)[i][2], p)
                /\ TopRow(d, p)[i] = <<d[TopRow(d, p)[i][2]], TopRow(d, p)[i][2]>>
           /\ RowsOf(d, p) # {} => TopRow(d, p) # <<>>
<1> DEFINE S == RowsOf(d, p)
           q == TopRow(d, p)
           n == IF Cardinality(S) < TopK THEN Cardinality(S) ELSE TopK
<1>1. /\ S \in SUBSET FreqRows /\ IsFiniteSet(S) /\ IsFirst(q, TopK, S, ByBetter)
      /\ \A r \in S : r[2] \in Dictionary /\ r = <<d[r[2]], r[2]>>
                                          /\ d[r[2]] > 0 /\ StartsWith(r[2], p)
  BY RowsAreRows
<1>2. Cardinality(S) \in Nat /\ (S # {} => Cardinality(S) # 0)
  BY <1>1, FS_CardinalityType, FS_EmptySet
<1>3. n \in Nat /\ (S # {} => n > 0)
  BY <1>2, IndexConstants
<1> HIDE DEF S, q
<1>4. q = [i \in 1..n |-> q[i]] /\ \A i \in 1..n : q[i] \in S
  BY <1>1 DEF IsFirst
<1> HIDE DEF n
<1>5. DOMAIN q = 1..n
  BY <1>4
<1>6. S # {} => q # <<>>
  <2> SUFFICES ASSUME S # {}, q = <<>> PROVE FALSE
    OBVIOUS
  <2>1. 1 \in DOMAIN q
    BY <1>3, <1>5
  <2> QED BY <2>1
<1>7. \A i \in DOMAIN q : q[i][2] \in Dictionary /\ StartsWith(q[i][2], p)
                           /\ q[i] = <<d[q[i][2]], q[i][2]>>
  BY <1>1, <1>4, <1>5
<1> QED BY <1>3, <1>4, <1>6, <1>7 DEF q, S

\* The row an index answers with.
LEMMA RowAnswers ==
    ASSUME NEW d \in [Dictionary -> Nat], NEW ix, IndexFits(ix, d), NEW p \in Short
    PROVE  (IF ix.override[p] # <<>> THEN ix.override[p] ELSE BaseRow(ix, p)) = TopRow(d, p)
<1>1. CASE ix.override[p] # <<>>
  BY <1>1 DEF IndexFits
<1>2. CASE ix.override[p] = <<>>
  <2> DEFINE q == TopRow(d, p)
  <2>1. TopRow(ix.base, p) = q
    BY <1>2, BaseRowStands DEF IndexFits
  <2>2. ix.freq = d
    <3>1. ix = [base |-> ix.base, freq |-> d, live |-> ix.live, children |-> ix.children,
                override |-> ix.override]
      BY DEF IndexFits
    <3> QED BY <3>1
  <2>3. BaseRow(ix, p) = [i \in DOMAIN q |-> <<d[q[i][2]], q[i][2]>>]
    BY <2>1, <2>2 DEF BaseRow
  <2>4. PICK n \in Nat : q = [i \in 1..n |-> q[i]]
    BY RowsAreSequences
  <2>5. \A i \in DOMAIN q : q[i] = <<d[q[i][2]], q[i][2]>>
    BY RowsAreSequences
  <2> HIDE DEF q
  <2>6. BaseRow(ix, p) = q
    BY <2>3, <2>4, <2>5
  <2> QED BY <1>2, <2>6 DEF q
<1> QED BY <1>1, <1>2

\* An index that fits answers as one built afresh.
LEMMA FittingAnswers ==
    ASSUME NEW d \in [Dictionary -> Nat], NEW ix, IndexFits(ix, d), NEW p \in AllBeginnings
    PROVE  /\ IsLive(ix, p) = IsLive(NewIndex(d), p)
           /\ Children(ix, p) = Children(NewIndex(d), p)
           /\ Completions(ix, p) = Completions(NewIndex(d), p)
<1>1. IndexFits(NewIndex(d), d)
  BY NewIndexFits
<1>2. IsLive(ix, p) <=> IsLive(NewIndex(d), p)
  BY <1>1 DEF IndexFits
<1>3. IsLive(ix, p) \in BOOLEAN /\ IsLive(NewIndex(d), p) \in BOOLEAN
  BY DEF IsLive
<1>4. Children(ix, p) = Children(NewIndex(d), p)
  BY <1>1 DEF IndexFits
<1>5. ix.freq = d /\ NewIndex(d).freq = d
  <2>1. ix = [base |-> ix.base, freq |-> d, live |-> ix.live, children |-> ix.children,
              override |-> ix.override]
    BY DEF IndexFits
  <2> QED BY <2>1 DEF NewIndex
<1>6. CASE Len(p) > ShortPrefix
  <2>1. Completions(ix, p) = Completions(NewIndex(d), p)
    BY <1>5, <1>6 DEF Completions
  <2> QED BY <1>2, <1>3, <1>4, <2>1
<1>7. CASE ~ (Len(p) > ShortPrefix)
  <2>1. Len(p) \in Nat /\ ShortPrefix \in Nat
    <3>1. PICK w \in Dictionary : p \in Beginnings(w)
      BY DEF AllBeginnings
    <3>2. w \in Seq(Nat)
      BY DictionaryWords
    <3>3. Len(p) \in Nat
      BY <3>1, <3>2 DEF Beginnings
    <3> QED BY <3>3, IndexConstants
  <2>2. p \in Short
    BY <1>7, <2>1 DEF Short
  <2>3. Completions(ix, p) = TopRow(d, p)
    BY <1>7, <2>2, RowAnswers DEF Completions
  <2>4. Completions(NewIndex(d), p) = TopRow(d, p)
    BY <1>1, <1>7, <2>2, RowAnswers DEF Completions
  <2> QED BY <1>2, <1>3, <1>4, <2>3, <2>4
<1> QED BY <1>6, <1>7

\* The beginnings of a word, among all, are what it starts with.
LEMMA BeginningsStart ==
    ASSUME NEW w \in Dictionary, NEW p \in AllBeginnings
    PROVE  p \in Beginnings(w) <=> StartsWith(w, p)
<1>1. PICK v \in Dictionary : p \in Beginnings(v)
  BY DEF AllBeginnings
<1>2. v \in Seq(Nat) /\ w \in Seq(Nat)
  BY DictionaryWords
<1>3. PICK i \in 1..Len(v) : p = SubSeq(v, 1, i)
  BY <1>1 DEF Beginnings
<1>4. Len(v) \in Nat /\ Len(w) \in Nat /\ Len(p) = i /\ i \in Nat /\ i >= 1
  BY <1>2, <1>3
<1>5. ASSUME StartsWith(w, p) PROVE p \in Beginnings(w)
  <2>1. i <= Len(w) /\ p = SubSeq(w, 1, i)
    BY <1>4, <1>5 DEF StartsWith
  <2> QED BY <1>4, <2>1 DEF Beginnings
<1>6. ASSUME p \in Beginnings(w) PROVE StartsWith(w, p)
  <2>1. PICK k \in 1..Len(w) : p = SubSeq(w, 1, k)
    BY <1>6 DEF Beginnings
  <2>2. Len(p) = k
    BY <1>2, <2>1
  <2> QED BY <1>2, <2>1, <2>2 DEF StartsWith
<1> QED BY <1>5, <1>6

\* A raised word keeps the index fitting.
LEMMA WithWordFits ==
    ASSUME NEW d \in [Dictionary -> Nat], NEW ix, IndexFits(ix, d),
           NEW w \in Dictionary, NEW n \in Nat, n > d[w]
    PROVE  IndexFits(WithWord(ix, w, n), [d EXCEPT ![w] = n])
<1> DEFINE e == [d EXCEPT ![w] = n]
           iy == WithWord(ix, w, n)
           iz == [ix EXCEPT !.freq[w] = n]
           fresh == IF d[w] = 0 THEN Beginnings(w) ELSE {}
<1>1. /\ e \in [Dictionary -> Nat] /\ e[w] = n /\ n > 0
      /\ \A v \in Dictionary : v # w => e[v] = d[v]
  OBVIOUS
<1>2. ix = [base |-> ix.base, freq |-> d, live |-> ix.live, children |-> ix.children,
            override |-> ix.override]
  BY DEF IndexFits
<1>3. ix.freq = d
  BY <1>2
<1>4. iz = [base |-> ix.base, freq |-> e, live |-> ix.live, children |-> ix.children,
            override |-> ix.override]
  BY <1>2
<1>5. /\ iy = [base |-> iy.base, freq |-> e, live |-> iy.live, children |-> iy.children,
               override |-> iy.override]
      /\ iy.base = ix.base
      /\ iy.live = ix.live \cup {p \in fresh : ~InBase(ix, p)}
      /\ \A p \in AllBeginnings :
           iy.children[p] = ix.children[p] \cup IF p \in fresh /\ p # w THEN {w[Len(p) + 1]} ELSE {}
      /\ \A p \in Short :
           iy.override[p] = IF StartsWith(w, p) THEN OverrideWith(iz, w, n, p) ELSE ix.override[p]
  <2>1. Short \in SUBSET AllBeginnings
    BY DEF Short
  <2> QED BY <1>3, <2>1 DEF WithWord
<1>6. KnownIn(e) = KnownIn(d) \cup {w} /\ (d[w] # 0 => w \in KnownIn(d))
  BY <1>1 DEF KnownIn
<1> HIDE DEF iy, iz, e
<1>7. ASSUME NEW p \in AllBeginnings
      PROVE  /\ IsLive(iy, p) <=> Begins(e, p)
             /\ Children(iy, p) = LettersAfter(e, p)
  <2>1. p \in fresh <=> d[w] = 0 /\ StartsWith(w, p)
    BY BeginningsStart
  <2>2. (IsLive(ix, p) <=> Begins(d, p)) /\ Children(ix, p) = LettersAfter(d, p)
    BY DEF IndexFits
  <2>3. InBase(iy, p) <=> InBase(ix, p)
    BY <1>5 DEF InBase
  <2>4. IsLive(iy, p) <=> IsLive(ix, p) \/ p \in fresh
    BY <1>5, <2>3 DEF IsLive
  <2>5. Begins(e, p) <=> Begins(d, p) \/ StartsWith(w, p)
    BY <1>6 DEF Begins
  <2>6. StartsWith(w, p) /\ d[w] # 0 => Begins(d, p)
    BY <1>6 DEF Begins
  <2>7. Children(iy, p) =
          Children(ix, p) \cup IF p \in fresh /\ p # w THEN {w[Len(p) + 1]} ELSE {}
    BY <1>5 DEF Children
  <2>8. LettersAfter(e, p) =
          LettersAfter(d, p) \cup IF StartsWith(w, p) /\ p # w THEN {w[Len(p) + 1]} ELSE {}
    BY <1>6 DEF LettersAfter
  <2>9. StartsWith(w, p) /\ p # w /\ d[w] # 0 => w[Len(p) + 1] \in LettersAfter(d, p)
    BY <1>6 DEF LettersAfter
  <2>10. IsLive(iy, p) <=> Begins(e, p)
    BY <2>1, <2>2, <2>4, <2>5, <2>6
  <2>11. Children(iy, p) = LettersAfter(e, p)
    BY <2>1, <2>2, <2>7, <2>8, <2>9
  <2> QED BY <2>10, <2>11
<1>8. ASSUME NEW p \in Short
      PROVE  IF iy.override[p] = <<>>
             THEN \A v \in Dictionary : StartsWith(v, p) => e[v] = iy.base[v]
             ELSE iy.override[p] = TopRow(e, p)
  <2>1. CASE ~StartsWith(w, p)
    <3>1. iy.override[p] = ix.override[p]
      BY <1>5, <2>1
    <3>2. CASE ix.override[p] = <<>>
      BY <1>1, <1>5, <2>1, <3>1, <3>2 DEF IndexFits
    <3>3. CASE ix.override[p] # <<>>
      <4>1. \A v \in Dictionary : StartsWith(v, p) => e[v] = d[v]
        BY <1>1, <2>1
      <4>2. TopRow(d, p) = TopRow(e, p)
        BY <1>1, <4>1, BaseRowStands
      <4> QED BY <3>1, <3>3, <4>2 DEF IndexFits
    <3> QED BY <3>2, <3>3
  <2>2. CASE StartsWith(w, p)
    <3> DEFINE row == IF iz.override[p] # <<>> THEN iz.override[p] ELSE BaseRow(iz, p)
               q == TopRow(d, p)
               others == {r \in ToSet(row) : r[2] # w}
    <3>1. others = {r \in ToSet(q) : r[2] # w}
      <4>1. CASE ix.override[p] # <<>>
        <5>1. row = q
          BY <1>4, <4>1 DEF IndexFits
        <5> QED BY <5>1
      <4>2. CASE ix.override[p] = <<>>
        <5>1. TopRow(ix.base, p) = q
          BY <4>2, BaseRowStands DEF IndexFits
        <5>2. row = [i \in DOMAIN q |-> <<e[q[i][2]], q[i][2]>>]
          BY <1>4, <4>2, <5>1 DEF BaseRow
        <5>3. \A i \in DOMAIN q : q[i][2] \in Dictionary /\ q[i] = <<d[q[i][2]], q[i][2]>>
          BY RowsAreSequences
        <5> HIDE DEF q, row
        <5>4. \A i \in DOMAIN q : row[i][2] = q[i][2] /\ (q[i][2] # w => row[i] = q[i])
          BY <1>1, <5>2, <5>3
        <5>5. DOMAIN row = DOMAIN q
          BY <5>2
        <5> QED BY <5>4, <5>5 DEF ToSet
      <4> QED BY <4>1, <4>2
    <3>2. iy.override[p] = Best(TopK, others \cup {<<n, w>>})
      BY <1>5, <2>2 DEF OverrideWith
    <3>3. Best(TopK, {r \in ToSet(q) : r[2] # w} \cup {<<n, w>>}) = TopRow(e, p)
      BY <2>2, RowKeptUp DEF e
    <3> HIDE DEF row, q, others
    <3>4. iy.override[p] = TopRow(e, p)
      BY <3>1, <3>2, <3>3
    <3>5. <<e[w], w>> \in RowsOf(e, p)
      BY <1>6, <2>2 DEF RowsOf
    <3>6. TopRow(e, p) # <<>>
      BY <1>1, <3>5, RowsAreSequences
    <3> QED BY <3>4, <3>6
  <2> QED BY <2>1, <2>2
<1>9. iy.base \in [Dictionary -> Nat] /\ iy.live \subseteq AllBeginnings
  <2>1. fresh \in SUBSET AllBeginnings
    BY DEF AllBeginnings
  <2> QED BY <1>5, <2>1 DEF IndexFits
<1>10. IndexFits(iy, e)
  BY <1>5, <1>7, <1>8, <1>9 DEF IndexFits
<1> QED BY <1>10 DEF iy, e

-----------------------------------------------------------------------------

\* A beam that counts as current has an index that fits the dictionary.
IndexInv ==
    /\ freq \in [Dictionary -> 0..MaxFreq]
    /\ beam = [index |-> beam.index, grid |-> beam.grid, address |-> beam.address]
    /\ spatial.grid \in Layouts /\ (beam # NoBeam => beam.grid \in Layouts)
    /\ Current => IndexFits(beam.index, freq)

\* It fits however words were learned, merged in or rebuilt since.
LEMMA IndexInvHolds == IndexInit /\ [][IndexNext]_indexVars => []IndexInv
<1>1. ASSUME NEW d \in [Dictionary -> 0..MaxFreq], NEW b, NEW stale, NEW model,
             b # NoBeam /\ ~stale => IndexFits(b.index, d),
             model.grid \in Layouts, b # NoBeam => b.grid \in Layouts,
             b = [index |-> b.index, grid |-> b.grid, address |-> b.address]
      PROVE  LET c == Ensured(b, d, stale, model) IN
             /\ c = [index |-> c.index, grid |-> c.grid, address |-> c.address]
             /\ IndexFits(c.index, d) /\ c.grid \in Layouts
  <2>1. d \in [Dictionary -> Nat]
    BY IndexConstants
  <2>2. IndexFits(NewIndex(d), d)
    BY <2>1, NewIndexFits
  <2> QED BY <1>1, <2>2 DEF Ensured
<1>2. NoBeam = [index |-> NoBeam.index, grid |-> NoBeam.grid, address |-> NoBeam.address]
  BY DEF NoBeam
<1>3. IndexInit => IndexInv
  <2> SUFFICES ASSUME IndexInit PROVE IndexInv
    OBVIOUS
  <2>1. /\ freq \in [Dictionary -> 0..MaxFreq] /\ beam = Ensured(NoBeam, freq, TRUE, spatial)
        /\ spatial.grid \in Layouts
    BY IndexConstants DEF IndexInit
  <2> QED BY <1>1, <1>2, <2>1 DEF IndexInv
<1>4. IndexInv /\ [IndexNext]_indexVars => IndexInv'
  <2> SUFFICES ASSUME IndexInv, [IndexNext]_indexVars PROVE IndexInv'
    OBVIOUS
  <2>0. freq \in [Dictionary -> Nat]
    BY IndexConstants DEF IndexInv
  <2>1. ASSUME NEW w \in Dictionary, NEW n \in 1..MaxFreq, UpdateWord(w, n)
        PROVE  IndexInv'
    <3>1. /\ freq' = [freq EXCEPT ![w] = n] /\ n > freq[w] /\ dirty' = dirty
          /\ spatial' = spatial
          /\ beam' = IF beam = NoBeam \/ dirty THEN beam
                     ELSE [beam EXCEPT !.index = WithWord(@, w, n)]
      BY <2>1 DEF UpdateWord
    <3>2. freq' \in [Dictionary -> 0..MaxFreq] /\ n \in Nat
      BY <3>1, IndexConstants DEF IndexInv
    <3>3. CASE beam = NoBeam \/ dirty
      BY <3>1, <3>2, <3>3 DEF IndexInv, Current
    <3>4. CASE beam # NoBeam /\ ~dirty
      <4>1. beam' = [index |-> WithWord(beam.index, w, n), grid |-> beam.grid,
                     address |-> beam.address]
        BY <3>1, <3>4 DEF IndexInv
      <4>2. IndexFits(beam.index, freq)
        BY <3>4 DEF IndexInv, Current
      <4>3. IndexFits(WithWord(beam.index, w, n), freq')
        BY <2>0, <3>1, <3>2, <4>2, WithWordFits
      <4> QED BY <3>1, <3>2, <3>4, <4>1, <4>3 DEF IndexInv
    <3> QED BY <3>3, <3>4
  <2>2. ASSUME NEW e \in Packs, SetFrequencies(e)
        PROVE  IndexInv'
    <3>1. freq' = Raise(freq, e) /\ dirty' /\ beam' = beam /\ spatial' = spatial
      BY <2>2 DEF SetFrequencies
    <3>2. e \in [Dictionary -> 0..MaxFreq]
      BY IndexConstants DEF Packs
    <3>3. Raise(freq, e) \in [Dictionary -> 0..MaxFreq]
      BY <3>2 DEF Raise, Sooner, IndexInv
    <3> QED BY <3>1, <3>3 DEF IndexInv, Current
  <2>3. ASSUME NEW d \in Builds, RebuildDictionary(d)
        PROVE  IndexInv'
    <3>1. freq' = d /\ beam' = Ensured(NoBeam, d, TRUE, spatial) /\ spatial' = spatial
      BY <2>3 DEF RebuildDictionary, BuiltFor
    <3>2. d \in [Dictionary -> 0..MaxFreq]
      BY IndexConstants
    <3> QED BY <1>1, <1>2, <3>1, <3>2 DEF IndexInv
  <2>4. ASSUME NEW g \in Layouts, SetKeyPositions(g)
        PROVE  IndexInv'
    <3>1. /\ freq' = freq /\ beam' = beam /\ dirty' = dirty
          /\ spatial'.grid \in Layouts
      BY <2>4 DEF SetKeyPositions
    <3> QED BY <3>1 DEF IndexInv, Current
  <2>5. CASE CompletePrefix
    <3>1. freq' = freq /\ beam' = Ensured(beam, freq, dirty, spatial) /\ spatial' = spatial
      BY <2>5 DEF CompletePrefix
    <3>2. beam # NoBeam /\ ~dirty => IndexFits(beam.index, freq)
      BY DEF IndexInv, Current
    <3> QED BY <1>1, <3>1, <3>2 DEF IndexInv
  <2>6. CASE UNCHANGED indexVars
    <3>1. freq' = freq /\ beam' = beam /\ dirty' = dirty /\ spatial' = spatial
      BY <2>6 DEF indexVars
    <3> QED BY <3>1 DEF IndexInv, Current
  <2> QED BY <2>1, <2>2, <2>3, <2>4, <2>5, <2>6 DEF IndexNext
<1> QED BY <1>3, <1>4, PTL

\* The prefix index, of any dictionary and any sizes, answers after any raises
\* of words as one built afresh: the best rows of a beginning are the best of
\* the best rows there were and the one that changed.
THEOREM IndexKeepsUp == IndexInit /\ [][IndexNext]_indexVars => []IndexIsAsRebuilt
<1>1. IndexInv => IndexIsAsRebuilt
  <2> SUFFICES ASSUME IndexInv, Current PROVE IndexIsAsRebuilt
    BY DEF IndexIsAsRebuilt
  <2>1. freq \in [Dictionary -> Nat] /\ IndexFits(beam.index, freq)
    BY IndexConstants DEF IndexInv
  <2> QED BY <2>1, FittingAnswers DEF IndexIsAsRebuilt
<1> QED BY <1>1, IndexInvHolds, PTL

\* The same beside the other engines.
THEOREM IndexKeepsUpInTheEngine == PredictionSpec => []RunIndexIsAsRebuilt
<1>1. PredictionInit => IndexInit
  BY DEF PredictionInit
<1>2. [PredictionNext]_<<engine, vars, contextVars, indexVars, nextWordsVars, rankingVars>>
        => [IndexNext]_indexVars
  BY DEF PredictionNext
<1>3. IndexIsAsRebuilt => RunIndexIsAsRebuilt
  BY DEF RunIndexIsAsRebuilt
<1> QED BY <1>1, <1>2, <1>3, IndexKeepsUp, PTL DEF PredictionSpec

-----------------------------------------------------------------------------
(* What a mistyped beginning reaches.                                      *)

\* The largest of integers that are bounded.
LEMMA TopIsTop ==
    ASSUME NEW S \in SUBSET Int, S # {}, NEW b \in Int, \A x \in S : x <= b
    PROVE  Top(S) \in S /\ \A x \in S : x <= Top(S)
<1> DEFINE T == {k \in Nat : b - k \in S}
<1>1. T \in SUBSET Nat /\ T # {}
  <2>1. PICK x \in S : TRUE
    OBVIOUS
  <2>2. b - x \in T
    <3>1. x \in Int /\ x <= b
      OBVIOUS
    <3>2. b - x \in Nat /\ b - (b - x) = x
      BY <3>1
    <3> QED BY <3>2
  <2> QED BY <2>2
<1>2. PICK k \in T : \A m \in T : k <= m
  <2> HIDE DEF T
  <2> QED BY <1>1, NatMin
<1>3. ASSUME NEW x \in S PROVE x <= b - k
  <2>1. x \in Int /\ x <= b
    OBVIOUS
  <2>2. b - x \in Nat /\ b - (b - x) = x
    BY <2>1
  <2>3. k <= b - x
    BY <1>2, <2>2
  <2>4. k \in Int
    OBVIOUS
  <2> QED BY <2>1, <2>3, <2>4
<1>4. b - k \in S
  OBVIOUS
<1> QED BY <1>3, <1>4 DEF Top

\* The commoner a word the more it scores, so no frequency gives more than
\* the largest.
LEMMA FreqScoreBound ==
    /\ FreqScore \in [0..MaxFreq -> Int] /\ MaxFreq \in Nat
    /\ \A f \in 0..MaxFreq : FreqScore[f] <= FreqScore[MaxFreq]
<1> DEFINE T == {k \in 0..MaxFreq : FreqScore[k] > FreqScore[MaxFreq]}
<1>1. /\ FreqScore \in [0..MaxFreq -> Int] /\ MaxFreq \in Nat
      /\ \A f \in 1..MaxFreq : FreqScore[f - 1] < FreqScore[f]
  BY IndexConstants
<1>2. SUFFICES ASSUME T # {} PROVE FALSE
  <2>1. ASSUME T = {}, NEW f \in 0..MaxFreq PROVE FreqScore[f] <= FreqScore[MaxFreq]
    <3>1. FreqScore[f] \in Int /\ FreqScore[MaxFreq] \in Int
      BY <1>1
    <3>2. ~ (FreqScore[f] > FreqScore[MaxFreq])
      BY <2>1
    <3> QED BY <3>1, <3>2
  <2> HIDE DEF T
  <2> QED BY <1>1, <2>1
<1>3. T \in SUBSET Int /\ \A x \in T : x <= MaxFreq
  BY <1>1
<1> DEFINE k == Top(T)
<1>4. k \in T /\ \A x \in T : x <= k
  <2> HIDE DEF T
  <2>1. MaxFreq \in Int
    BY <1>1
  <2> QED BY <1>2, <1>3, <2>1, TopIsTop
<1> HIDE DEF k
<1>5. k \in 0..MaxFreq /\ k # MaxFreq /\ FreqScore[k] > FreqScore[MaxFreq]
  BY <1>1, <1>4
<1>6. k + 1 \in 1..MaxFreq /\ k + 1 \in 0..MaxFreq /\ (k + 1) - 1 = k
  BY <1>1, <1>5
<1>7. FreqScore[k] < FreqScore[k + 1]
  BY <1>1, <1>6
<1>8. FreqScore[k] \in Int /\ FreqScore[k + 1] \in Int /\ FreqScore[MaxFreq] \in Int
  BY <1>1, <1>5, <1>6
<1>9. k + 1 \in T
  BY <1>5, <1>6, <1>7, <1>8
<1> QED BY <1>4, <1>5, <1>9

\* What is looked at for a longer prefix are known words.
LEMMA ScanIsOfWords ==
    ASSUME NEW S \in SUBSET Dictionary
    PROVE  ToSet(FirstBy(MaxScan, S, Before)) \in SUBSET S
<1> DEFINE R == {q \in Dictionary \X Dictionary : Before(q[1], q[2])}
           Betters(x) == {y \in S : Before(y, x)}
           n == IF Cardinality(S) < MaxScan THEN Cardinality(S) ELSE MaxScan
           q == [i \in 1..n |-> CHOOSE x \in S : Cardinality(Betters(x)) = i - 1]
<1>1. FirstBy(MaxScan, S, Before) = q
  BY DEF FirstBy
<1>2. IsFiniteSet(S) /\ S \in SUBSET Seq(Nat) /\ MaxScan \in Nat
  BY DictionaryWords, IndexConstants, FS_Subset
<1>3. Orders(R, S)
  <2>1. \A x, y \in S : <<x, y>> \in R <=> Before(x, y)
    OBVIOUS
  <2> HIDE DEF R
  <2>2. \A x \in S : ~Before(x, x)
    BY <1>2, BeforeIrreflexive
  <2>3. \A x, y, z \in S : Before(x, y) /\ Before(y, z) => Before(x, z)
    BY <1>2, BeforeTransitive
  <2>4. \A x, y \in S : x = y \/ Before(x, y) \/ Before(y, x)
    BY <1>2, BeforeConnects
  <2> QED BY <2>1, <2>2, <2>3, <2>4 DEF Orders
<1>4. \A x \in S : Betters(x) = Earlier(x, S, R)
  BY DEF Earlier
<1> HIDE DEF R
<1>5. Cardinality(S) \in Nat
  BY <1>2, <1>3, RankBounds
<1>6. ASSUME NEW i \in 1..n
      PROVE  q[i] \in S
  <2>1. i - 1 \in 0..(Cardinality(S) - 1)
    BY <1>2, <1>5
  <2>2. PICK x \in S : RankIn(x, S, R) = i - 1
    BY <1>2, <1>3, <2>1, RankIsTaken
  <2>3. Cardinality(Betters(x)) = i - 1
    BY <1>4, <2>2 DEF RankIn
  <2> HIDE DEF Betters, n
  <2> QED BY <2>3
<1>7. DOMAIN q = 1..n
  OBVIOUS
<1> HIDE DEF q, n
<1> QED BY <1>1, <1>6, <1>7 DEF ToSet

\* Completions are rows of known words that begin as asked.
LEMMA CompletionsAreRows ==
    ASSUME NEW d \in [Dictionary -> Nat], NEW ix, IndexFits(ix, d), NEW p \in AllBeginnings,
           NEW r \in ToSet(Completions(ix, p))
    PROVE  r[2] \in Dictionary /\ r[1] = d[r[2]] /\ r[1] > 0 /\ StartsWith(r[2], p)
<1>1. Completions(ix, p) = Completions(NewIndex(d), p) /\ IndexFits(NewIndex(d), d)
  BY FittingAnswers, NewIndexFits
<1>2. NewIndex(d).freq = d
  BY DEF NewIndex
<1>3. \A S, k : S \in SUBSET FreqRows /\ IsFiniteSet(S) /\ k \in Nat
                  => ToSet(Best(k, S)) \in SUBSET S
  <2> SUFFICES ASSUME NEW S \in SUBSET FreqRows, IsFiniteSet(S), NEW k \in Nat
               PROVE  ToSet(Best(k, S)) \in SUBSET S
    OBVIOUS
  <2> QED BY BestIsTheFirst, BetterOrders, FirstHas
<1>4. TopK \in Nat
  BY IndexConstants
<1>5. CASE Len(p) > ShortPrefix
  <2> DEFINE K == {w \in KnownIn(d) : ~Before(w, p)}
             seen == ToSet(FirstBy(MaxScan, K, Before))
             S == {<<d[w], w>> : w \in {v \in seen : StartsWith(v, p)}}
  <2>1. K \in SUBSET Dictionary /\ \A w \in K : d[w] > 0
    BY DEF KnownIn
  <2> HIDE DEF K
  <2>2. seen \in SUBSET K
    BY <2>1, ScanIsOfWords
  <2>3. r \in ToSet(Best(TopK, S))
    BY <1>1, <1>2, <1>5 DEF Completions, Scanned, K
  <2> HIDE DEF seen
  <2>4. S \in SUBSET RowsOf(d, p)
    BY <2>1, <2>2 DEF RowsOf, KnownIn
  <2>5. S \in SUBSET FreqRows /\ IsFiniteSet(S)
    BY <2>4, RowsAreRows, FS_Subset
  <2> HIDE DEF S
  <2>6. r \in RowsOf(d, p)
    BY <1>3, <1>4, <2>3, <2>4, <2>5
  <2>7. r = <<d[r[2]], r[2]>> /\ r[2] \in Dictionary /\ d[r[2]] > 0 /\ StartsWith(r[2], p)
    BY <2>6, RowsAreRows
  <2> QED BY <2>7
<1>6. CASE ~ (Len(p) > ShortPrefix)
  <2>1. Len(p) \in Nat /\ ShortPrefix \in Nat
    <3>1. PICK w \in Dictionary : p \in Beginnings(w)
      BY DEF AllBeginnings
    <3>2. w \in Seq(Nat)
      BY DictionaryWords
    <3> QED BY <3>1, <3>2, IndexConstants DEF Beginnings
  <2>2. p \in Short
    BY <1>6, <2>1 DEF Short
  <2>3. Completions(ix, p) = TopRow(d, p)
    BY <1>6, <2>2, RowAnswers DEF Completions
  <2>4. r \in ToSet(Best(TopK, RowsOf(d, p)))
    BY <2>3 DEF TopRow, RowsOf
  <2>5. r \in RowsOf(d, p)
    BY <1>3, <1>4, <2>4, RowsAreRows
  <2>6. r = <<d[r[2]], r[2]>> /\ r[2] \in Dictionary /\ d[r[2]] > 0 /\ StartsWith(r[2], p)
    BY <2>5, RowsAreRows
  <2> QED BY <2>6
<1> QED BY <1>5, <1>6

-----------------------------------------------------------------------------

\* A beginning that is live is one of a word.
LEMMA LiveAreBeginnings ==
    ASSUME NEW d \in [Dictionary -> Nat], NEW ix, IndexFits(ix, d),
           NEW p \in Seq(Nat), p # <<>>, IsLive(ix, p)
    PROVE  p \in AllBeginnings
<1>1. CASE p \in ix.live
  BY <1>1 DEF IndexFits
<1>2. CASE InBase(ix, p)
  <2>1. PICK w \in Dictionary : StartsWith(w, p)
    BY <1>2 DEF InBase, KnownIn
  <2>2. w \in Seq(Nat)
    BY DictionaryWords
  <2>3. Len(p) \in 1..Len(w) /\ p = SubSeq(w, 1, Len(p))
    BY <2>1, <2>2 DEF StartsWith
  <2>4. p \in Beginnings(w)
    BY <2>3 DEF Beginnings
  <2> QED BY <2>4 DEF AllBeginnings
<1> QED BY <1>1, <1>2 DEF IsLive

\* Beginnings are sequences of letters, and what follows one is a letter.
LEMMA LettersFollow ==
    ASSUME NEW d \in [Dictionary -> Nat], NEW p \in AllBeginnings
    PROVE  p \in Seq(Letters) /\ p # <<>> /\ LettersAfter(d, p) \in SUBSET Letters
<1>1. PICK v \in Dictionary : p \in Beginnings(v)
  BY DEF AllBeginnings
<1>2. PICK i \in 1..Len(v) : p = SubSeq(v, 1, i)
  BY <1>1 DEF Beginnings
<1>3. \A w \in Dictionary : w \in Seq(Letters)
  BY IndexConstants
<1>4. p \in Seq(Letters) /\ Len(p) = i /\ i \in Nat /\ i >= 1
  BY <1>2, <1>3
<1>5. ASSUME NEW w \in Dictionary, StartsWith(w, p), w # p
      PROVE  w[Len(p) + 1] \in Letters
  <2>1. w \in Seq(Letters) /\ Len(w) \in Nat /\ i <= Len(w) /\ p = SubSeq(w, 1, i)
    BY <1>3, <1>4, <1>5 DEF StartsWith
  <2>2. i # Len(w)
    <3> SUFFICES ASSUME i = Len(w) PROVE FALSE
      OBVIOUS
    <3>1. SubSeq(w, 1, Len(w)) = w
      BY <2>1
    <3> QED BY <1>5, <2>1, <3>1
  <2>3. i + 1 \in 1..Len(w)
    BY <1>4, <2>1, <2>2
  <2> QED BY <1>4, <2>1, <2>3
<1>6. LettersAfter(d, p) \in SUBSET Letters
  BY <1>5 DEF LettersAfter, KnownIn
<1> QED BY <1>4, <1>6

\* A state of the beam: where it got to, and at what cost.
BeamState(s) ==
    /\ s = <<s[1], s[2]>> /\ (s[1] = <<>> \/ s[1] \in AllBeginnings)
    /\ s[2] \in Int /\ s[2] <= 0

\* Of the states at one beginning the cheapest is kept.
LEMMA BestOfHas ==
    ASSUME NEW S, \A s \in S : BeamState(s), NEW s \in S
    PROVE  \E c : <<s[1], c>> \in BestOf(S)
<1> DEFINE C == {o[2] : o \in {x \in S : x[1] = s[1]}}
<1>1. C \in SUBSET Int /\ C # {} /\ \A c \in C : c <= 0
  BY DEF BeamState
<1>2. Top(C) \in C /\ \A c \in C : c <= Top(C)
  <2> HIDE DEF C
  <2> QED BY <1>1, TopIsTop
<1>3. PICK o \in S : o[1] = s[1] /\ o[2] = Top(C)
  BY <1>2
<1>4. o \in BestOf(S)
  BY <1>2, <1>3 DEF BestOf
<1>5. o = <<s[1], o[2]>>
  BY <1>3 DEF BeamState
<1> QED BY <1>4, <1>5

\* How the beam goes on to letter i.
CarryNext(t, D, i) ==
    IF i = 0 THEN <<{<<<<>>, 0>>}, {}>> ELSE Advance(t, D[i - 1], i)

\* The function that Paths defines by recursion is there.
LEMMA CarriedExists ==
    ASSUME NEW t, Len(t) \in Nat
    PROVE  \E D : /\ D = [i \in 0..Len(t) |-> CarryNext(t, D, i)]
                  /\ Paths(t) = BestOf(D[Len(t)][1])
<1> DEFINE Carried(D, n) == D = [i \in 0..n |-> CarryNext(t, D, i)]
           Z == {n \in Nat : ~ \E D : Carried(D, n)}
<1>1. \E D : Carried(D, 0)
  <2>1. Carried([i \in 0..0 |-> <<{<<<<>>, 0>>}, {}>>], 0)
    BY DEF CarryNext
  <2> QED BY <2>1
<1>2. ASSUME NEW n \in Nat, NEW D, Carried(D, n)
      PROVE  \E E : Carried(E, n + 1)
  <2> DEFINE E == [i \in 0..(n + 1) |-> IF i <= n THEN D[i] ELSE CarryNext(t, D, n + 1)]
  <2>1. \A i \in 0..n : E[i] = D[i] /\ D[i] = CarryNext(t, D, i)
    BY <1>2
  <2>2. \A i \in 0..(n + 1) : CarryNext(t, E, i) = CarryNext(t, D, i)
    <3> HIDE DEF E
    <3> QED BY <2>1 DEF CarryNext
  <2>3. \A i \in 0..(n + 1) : E[i] = CarryNext(t, E, i)
    BY <2>1, <2>2
  <2>4. E = [i \in 0..(n + 1) |-> E[i]]
    OBVIOUS
  <2> HIDE DEF E
  <2>5. Carried(E, n + 1)
    BY <2>3, <2>4
  <2> QED BY <2>5
<1>3. Z = {}
  <2> SUFFICES ASSUME Z # {} PROVE FALSE
    OBVIOUS
  <2>1. PICK n \in Z : \A m \in Z : n <= m
    BY NatMin
  <2>2. n # 0 /\ n - 1 \in Nat
    <3>1. 0 \notin Z
      BY <1>1
    <3>2. n \in Nat /\ n # 0
      BY <3>1
    <3> QED BY <3>2
  <2>3. n - 1 \notin Z
    BY <2>1, <2>2
  <2>4. PICK D : Carried(D, n - 1)
    BY <2>2, <2>3
  <2>5. \E E : Carried(E, (n - 1) + 1)
    BY <1>2, <2>2, <2>4
  <2>6. (n - 1) + 1 = n
    OBVIOUS
  <2> HIDE DEF Carried
  <2> QED BY <2>5, <2>6
<1>4. PICK D : Carried(D, Len(t))
  BY <1>3
<1> DEFINE carried == CHOOSE D0 : Carried(D0, Len(t))
<1>5. Carried(carried, Len(t))
  BY <1>4
<1>6. Paths(t) = BestOf(carried[Len(t)][1])
  BY DEF Paths, CarryNext
<1> QED BY <1>5, <1>6

\* Where a letter may be landed on.
LEMMA LandsWell ==
    ASSUME NEW d \in [Dictionary -> Nat], IndexFits(beam.index, d),
           NEW p, p = <<>> \/ p \in AllBeginnings, NEW k \in Letters, Alive(Append(p, k))
    PROVE  Append(p, k) \in AllBeginnings
<1>1. p \in Seq(Letters)
  <2>1. CASE p = <<>>
    BY <2>1
  <2>2. CASE p \in AllBeginnings
    BY <2>2, LettersFollow
  <2> QED BY <2>1, <2>2
<1>2. Append(p, k) \in Seq(Letters) /\ Append(p, k) # <<>>
  BY <1>1
<1>3. \A q \in Seq(Letters) : q \in Seq(Nat)
  <2> SUFFICES ASSUME NEW q \in Seq(Letters) PROVE q \in Seq(Nat)
    OBVIOUS
  <2>1. Len(q) \in Nat /\ q = [i \in 1..Len(q) |-> q[i]] /\ \A i \in 1..Len(q) : q[i] \in Letters
    OBVIOUS
  <2>2. Letters \in SUBSET Nat
    BY IndexConstants
  <2>3. q \in [1..Len(q) -> Nat]
    BY <2>1, <2>2
  <2> QED BY <2>1, <2>3
<1>4. IsLive(beam.index, Append(p, k))
  BY <1>2 DEF Alive
<1> QED BY <1>2, <1>3, <1>4, LiveAreBeginnings

\* Every state the beam goes on to is one.
LEMMA LandingsAreStates ==
    ASSUME NEW d \in [Dictionary -> Nat], IndexFits(beam.index, d), beam.grid \in Layouts,
           NEW t \in Seq(Letters), NEW i \in 1..Len(t), NEW s, BeamState(s),
           NEW x \in Landings(t, i, s)
    PROVE  BeamState(x)
<1> DEFINE hit == HitCost[beam.grid][t[i]]
           Land(p, cost) == {<<Append(p, k), cost + hit[k]>> : k \in DOMAIN hit}
<1>1. t[i] \in Letters
  OBVIOUS
<1>2. /\ DOMAIN hit \in SUBSET Letters
      /\ \A k \in DOMAIN hit : hit[k] \in Int /\ hit[k] <= 0
  BY <1>1, IndexConstants
<1> HIDE DEF hit
<1>3. OmitCost \in Int /\ ExtraCost \in Int /\ OmitCost < 0 /\ ExtraCost < 0
  BY IndexConstants
<1>4. (s[1] = <<>> \/ s[1] \in AllBeginnings) /\ s[2] \in Int /\ s[2] <= 0
  BY DEF BeamState
<1>5. ASSUME NEW p, p = <<>> \/ p \in AllBeginnings, NEW c \in Int, c <= 0,
             x \in Land(p, c), Alive(x[1])
      PROVE  BeamState(x)
  <2>1. PICK k \in DOMAIN hit : x = <<Append(p, k), c + hit[k]>>
    BY <1>5
  <2>2. k \in Letters /\ hit[k] \in Int /\ hit[k] <= 0
    BY <1>2
  <2>3. x[1] \in AllBeginnings
    BY <1>5, <2>1, <2>2, LandsWell
  <2>4. c + hit[k] \in Int /\ c + hit[k] <= 0
    BY <1>5, <2>2
  <2> QED BY <2>1, <2>3, <2>4 DEF BeamState
<1>6. CASE x \in Land(s[1], s[2]) /\ Alive(x[1])
  BY <1>4, <1>5, <1>6
<1>7. CASE x = <<s[1], s[2] + ExtraCost>>
  <2>1. s[2] + ExtraCost \in Int /\ s[2] + ExtraCost <= 0
    BY <1>3, <1>4
  <2> QED BY <1>4, <1>7, <2>1 DEF BeamState
<1>8. ASSUME NEW m \in Growths(s[1]), x \in Land(Append(s[1], m), s[2] + OmitCost), Alive(x[1])
      PROVE  BeamState(x)
  <2>1. s[1] # <<>> /\ m \in Children(beam.index, s[1]) /\ s[1] \in AllBeginnings
    BY <1>4 DEF Growths
  <2>2. Children(beam.index, s[1]) = LettersAfter(d, s[1])
    BY <2>1 DEF IndexFits
  <2>3. PICK w \in Dictionary : d[w] > 0 /\ StartsWith(w, s[1]) /\ s[1] # w /\ m = w[Len(s[1]) + 1]
    BY <2>1, <2>2 DEF LettersAfter, KnownIn
  <2>4. w \in Seq(Letters) /\ s[1] \in Seq(Letters)
    BY <2>1, IndexConstants, LettersFollow
  <2> DEFINE n == Len(s[1])
  <2>5. n \in Nat /\ n <= Len(w) /\ SubSeq(w, 1, n) = s[1] /\ Len(w) \in Nat
    BY <2>3, <2>4 DEF StartsWith
  <2>6. n # Len(w)
    <3> SUFFICES ASSUME n = Len(w) PROVE FALSE
      OBVIOUS
    <3>1. SubSeq(w, 1, Len(w)) = w
      BY <2>4
    <3> QED BY <2>3, <2>5, <3>1
  <2>7. n + 1 \in 1..Len(w)
    BY <2>5, <2>6
  <2>8. Append(s[1], m) = SubSeq(w, 1, n + 1)
    <3>1. SubSeq(w, 1, n + 1) = Append(SubSeq(w, 1, n), w[n + 1])
      BY <2>4, <2>5, <2>7
    <3> QED BY <2>3, <2>5, <3>1
  <2>9. SubSeq(w, 1, n + 1) \in Beginnings(w)
    BY <2>7 DEF Beginnings
  <2>10. Append(s[1], m) \in AllBeginnings
    BY <2>8, <2>9 DEF AllBeginnings
  <2>11. s[2] + OmitCost \in Int /\ s[2] + OmitCost <= 0
    BY <1>3, <1>4
  <2> QED BY <1>5, <1>8, <2>10, <2>11
<1>9. \/ x \in Land(s[1], s[2]) /\ Alive(x[1])
      \/ \E m \in Growths(s[1]) : x \in Land(Append(s[1], m), s[2] + OmitCost) /\ Alive(x[1])
      \/ x = <<s[1], s[2] + ExtraCost>>
  BY DEF Landings, hit
<1> QED BY <1>6, <1>7, <1>8, <1>9

\* So is every state two letters on.
LEMMA SwapsAreStates ==
    ASSUME NEW d \in [Dictionary -> Nat], IndexFits(beam.index, d),
           NEW t \in Seq(Letters), NEW i \in 1..(Len(t) - 1), NEW s, BeamState(s),
           NEW x \in Swaps(t, i, s)
    PROVE  BeamState(x)
<1> DEFINE q == s[1] \o <<t[i + 1], t[i]>>
<1>1. x = <<q, s[2] + SwapCost>> /\ Alive(q)
  <2>1. x \in {<<q, s[2] + SwapCost>>} /\ Alive(x[1])
    BY DEF Swaps
  <2> HIDE DEF q
  <2>2. x[1] = q
    BY <2>1
  <2> QED BY <2>1, <2>2
<1>2. s[1] = <<>> \/ s[1] \in AllBeginnings
  BY DEF BeamState
<1>3. s[1] \in Seq(Letters) /\ t[i] \in Letters /\ t[i + 1] \in Letters
  <2>1. i \in 1..Len(t) /\ i + 1 \in 1..Len(t)
    OBVIOUS
  <2>2. CASE s[1] = <<>>
    BY <2>1, <2>2
  <2>3. CASE s[1] \in AllBeginnings
    BY <2>1, <2>3, LettersFollow
  <2> QED BY <1>2, <2>2, <2>3
<1>4. q \in Seq(Nat) /\ q # <<>>
  <2>1. Letters \in SUBSET Nat
    BY IndexConstants
  <2>2. q \in Seq(Letters) /\ q # <<>>
    BY <1>3
  <2> HIDE DEF q
  <2>3. Len(q) \in Nat /\ q = [k \in 1..Len(q) |-> q[k]] /\ \A k \in 1..Len(q) : q[k] \in Letters
    BY <2>2
  <2>4. q \in [1..Len(q) -> Nat]
    BY <2>1, <2>3
  <2> QED BY <2>2, <2>3, <2>4
<1> HIDE DEF q
<1>5. q \in AllBeginnings
  BY <1>1, <1>4, LiveAreBeginnings DEF Alive
<1>6. s[2] + SwapCost \in Int /\ s[2] + SwapCost <= 0
  <2>1. s[2] \in Int /\ s[2] <= 0 /\ SwapCost \in Int /\ SwapCost < 0
    BY IndexConstants DEF BeamState
  <2> QED BY <2>1
<1> QED BY <1>1, <1>5, <1>6 DEF BeamState

\* The typed letters themselves are always carried on.
LEMMA HitLands ==
    ASSUME beam.grid \in Layouts, NEW t \in Seq(Letters), NEW i \in 1..Len(t), NEW c,
           Alive(SubSeq(t, 1, i))
    PROVE  \E e : <<SubSeq(t, 1, i), e>> \in Landings(t, i, <<SubSeq(t, 1, i - 1), c>>)
<1> DEFINE hit == HitCost[beam.grid][t[i]]
           p == SubSeq(t, 1, i - 1)
           x == <<Append(p, t[i]), c + hit[t[i]]>>
<1>1. t[i] \in DOMAIN hit
  <2>1. t[i] \in Letters
    OBVIOUS
  <2> QED BY <2>1, IndexConstants
<1>2. Append(p, t[i]) = SubSeq(t, 1, i)
  OBVIOUS
<1>3. x \in {<<Append(p, k), c + hit[k]>> : k \in DOMAIN hit}
  <2> HIDE DEF hit
  <2> QED BY <1>1
<1>4. Alive(x[1])
  BY <1>2
<1>5. x \in Landings(t, i, <<p, c>>)
  <2> HIDE DEF p, x
  <2> QED BY <1>3, <1>4 DEF Landings
<1> QED BY <1>2, <1>5

\* What the beam carries for a beginning that words have: states, and among
\* them the beginning as typed.
LEMMA PathsCarry ==
    ASSUME NEW d \in [Dictionary -> Nat], IndexFits(beam.index, d), beam.grid \in Layouts,
           NEW t \in AllBeginnings, Begins(d, t)
    PROVE  /\ \A s \in Paths(t) : BeamState(s)
           /\ \E c : <<t, c>> \in Paths(t)
<1>1. t \in Seq(Letters) /\ t # <<>>
  BY LettersFollow
<1> DEFINE n == Len(t)
<1>2. n \in Nat /\ SubSeq(t, 1, n) = t /\ SubSeq(t, 1, 0) = <<>>
  BY <1>1
<1>3. PICK D : D = [i \in 0..n |-> CarryNext(t, D, i)] /\ Paths(t) = BestOf(D[n][1])
  BY <1>2, CarriedExists
<1>4. PICK w \in Dictionary : w \in KnownIn(d) /\ StartsWith(w, t)
  BY DEF Begins, KnownIn
<1>5. ASSUME NEW i \in 1..n PROVE Alive(SubSeq(t, 1, i))
  <2>1. w \in Seq(Letters) /\ n <= Len(w) /\ t = SubSeq(w, 1, n) /\ Len(w) \in Nat
    BY <1>2, <1>4, IndexConstants DEF StartsWith
  <2> DEFINE p == SubSeq(t, 1, i)
  <2>2. i \in 1..Len(w) /\ i \in Nat
    BY <1>2, <2>1
  <2>3. p = SubSeq(w, 1, i) /\ Len(p) = i
    <3>1. SubSeq(SubSeq(w, 1, n), 1, i) = SubSeq(w, 1, i)
      BY <1>2, <2>1, <2>2
    <3>2. Len(SubSeq(w, 1, i)) = i
      BY <2>1, <2>2
    <3> QED BY <2>1, <3>1, <3>2
  <2> HIDE DEF p, n
  <2>4. StartsWith(w, p)
    BY <2>1, <2>2, <2>3 DEF StartsWith
  <2>5. p \in Beginnings(w)
    BY <2>2, <2>3 DEF Beginnings
  <2>6. p \in AllBeginnings
    BY <2>5 DEF AllBeginnings
  <2>7. Begins(d, p)
    BY <1>4, <2>4 DEF Begins
  <2>8. IsLive(beam.index, p)
    BY <2>6, <2>7 DEF IndexFits
  <2> QED BY <2>8 DEF Alive, p
<1> DEFINE Holds(i) == /\ \A s \in D[i][1] \cup D[i][2] : BeamState(s)
                       /\ \E c : <<SubSeq(t, 1, i), c>> \in D[i][1]
<1>6. Holds(0)
  <2>1. D[0] = <<{<<<<>>, 0>>}, {}>>
    BY <1>2, <1>3 DEF CarryNext
  <2>2. BeamState(<<<<>>, 0>>)
    BY DEF BeamState
  <2> QED BY <1>2, <2>1, <2>2
<1>7. ASSUME NEW i \in 1..n, Holds(i - 1) PROVE Holds(i)
  <2> DEFINE A == D[i - 1][1]
             B == D[i - 1][2]
             now == BestOf(A)
             on == B \cup UNION {Landings(t, i, s) : s \in now}
             over == IF i < Len(t) /\ t[i + 1] # t[i] THEN UNION {Swaps(t, i, s) : s \in now}
                     ELSE {}
  <2>1. D[i] = <<on, over>>
    <3>1. i \in 0..n /\ i # 0
      BY <1>2
    <3>2. D[i] = CarryNext(t, D, i)
      <4> HIDE DEF n
      <4> QED BY <1>3, <3>1
    <3> QED BY <3>1, <3>2 DEF CarryNext, Advance
  <2>2. \A s \in A \cup B : BeamState(s)
    BY <1>7
  <2>3. now \in SUBSET A
    BY DEF BestOf
  <2>4. \A s \in now : \A x \in Landings(t, i, s) : BeamState(x)
    <3> HIDE DEF A, B
    <3> QED BY <1>1, <2>2, <2>3, LandingsAreStates
  <2>5. i < Len(t) => \A s \in now : \A x \in Swaps(t, i, s) : BeamState(x)
    <3>1. i < Len(t) => i \in 1..(Len(t) - 1)
      BY <1>2
    <3> HIDE DEF A, B
    <3> QED BY <1>1, <2>2, <2>3, <3>1, SwapsAreStates
  <2>6. PICK c : <<SubSeq(t, 1, i - 1), c>> \in A
    BY <1>7
  <2>7. PICK e : <<SubSeq(t, 1, i - 1), e>> \in now
    <3> DEFINE s == <<SubSeq(t, 1, i - 1), c>>
    <3>1. s \in A /\ \A x \in A : BeamState(x)
      BY <2>2, <2>6
    <3>2. s[1] = SubSeq(t, 1, i - 1)
      OBVIOUS
    <3> HIDE DEF A, s
    <3> QED BY <3>1, <3>2, BestOfHas
  <2>8. PICK f : <<SubSeq(t, 1, i), f>> \in Landings(t, i, <<SubSeq(t, 1, i - 1), e>>)
    BY <1>1, <1>5, HitLands
  <2> HIDE DEF A, B, now
  <2>9. \A s \in on \cup over : BeamState(s)
    BY <2>2, <2>4, <2>5
  <2>10. <<SubSeq(t, 1, i), f>> \in on
    BY <2>7, <2>8
  <2> HIDE DEF on, over
  <2>11. D[i][1] = on /\ D[i][2] = over
    BY <2>1
  <2> QED BY <2>9, <2>10, <2>11
<1> HIDE DEF Holds
<1>8. Holds(n)
  <2> DEFINE T == {i \in 0..n : ~Holds(i)}
  <2>1. SUFFICES ASSUME T # {} PROVE FALSE
    BY <1>2
  <2>2. T \in SUBSET Nat
    BY <1>2
  <2>3. PICK i \in T : \A m \in T : i <= m
    <3> HIDE DEF T
    <3> QED BY <2>1, <2>2, NatMin
  <2>4. i \in 1..n /\ ~Holds(i)
    BY <1>2, <1>6, <2>3
  <2>5. i - 1 \in 0..n /\ i - 1 \notin T
    BY <1>2, <2>3, <2>4
  <2> QED BY <1>7, <2>4, <2>5
<1>9. /\ \A s \in D[n][1] : BeamState(s)
      /\ \E c : <<t, c>> \in D[n][1]
  BY <1>2, <1>8 DEF Holds
<1>10. PICK c : <<t, c>> \in D[n][1]
  BY <1>9
<1>11. \E e : <<t, e>> \in BestOf(D[n][1])
  <2> DEFINE s == <<t, c>>
  <2>1. s \in D[n][1] /\ s[1] = t
    BY <1>10
  <2> HIDE DEF s
  <2> QED BY <1>9, <2>1, BestOfHas
<1>12. BestOf(D[n][1]) \in SUBSET D[n][1]
  BY DEF BestOf
<1> QED BY <1>3, <1>9, <1>11, <1>12

\* What is reached has a score, no better than that of the commonest word on
\* its best path; the words the typed letters begin are among it.
LEMMA ReachedScores ==
    ASSUME NEW d \in [Dictionary -> 0..MaxFreq], IndexFits(beam.index, d),
           beam.grid \in Layouts, NEW t \in AllBeginnings, Begins(d, t)
    PROVE  LET got == Reached(t) IN
           /\ \A w \in DOMAIN got : got[w][3] \in Int /\ got[w][3] <= FreqScore[MaxFreq]
           /\ ExactWords(t) \subseteq DOMAIN got
<1> DEFINE hits == UNION {{<<r[2], s[2], s[2] + FreqScore[r[1]]>> :
                              r \in ToSet(Completions(beam.index, s[1]))} :
                          s \in {x \in Paths(t) : x[1] # <<>>}}
           words == {h[1] : h \in hits}
           Best1(h, w) == h[1] = w /\ \A o \in hits : o[1] = w => o[3] <= h[3]
           got == Reached(t)
<1>1. got = [w \in words |-> CHOOSE h \in hits : Best1(h, w)]
  BY DEF Reached
<1>2. d \in [Dictionary -> Nat]
  BY FreqScoreBound
<1>3. /\ \A s \in Paths(t) : BeamState(s)
      /\ \E c : <<t, c>> \in Paths(t)
  BY <1>2, PathsCarry
<1>4. ASSUME NEW h \in hits PROVE h[3] \in Int /\ h[3] <= FreqScore[MaxFreq]
  <2>0. PICK s \in Paths(t) :
          /\ s[1] # <<>>
          /\ h \in {<<r[2], s[2], s[2] + FreqScore[r[1]]>> :
                      r \in ToSet(Completions(beam.index, s[1]))}
    OBVIOUS
  <2>1. PICK r \in ToSet(Completions(beam.index, s[1])) :
          h = <<r[2], s[2], s[2] + FreqScore[r[1]]>>
    BY <2>0
  <2>2. s[1] \in AllBeginnings /\ s[2] \in Int /\ s[2] <= 0
    BY <1>3, <2>0 DEF BeamState
  <2>3. r[2] \in Dictionary /\ r[1] = d[r[2]]
    BY <1>2, <2>1, <2>2, CompletionsAreRows
  <2>4. r[1] \in 0..MaxFreq
    BY <2>3
  <2>5. /\ FreqScore[r[1]] \in Int /\ FreqScore[r[1]] <= FreqScore[MaxFreq]
        /\ FreqScore[MaxFreq] \in Int
    BY <2>4, FreqScoreBound
  <2>6. h[3] = s[2] + FreqScore[r[1]]
    BY <2>1
  <2> QED BY <2>2, <2>5, <2>6
<1> HIDE DEF hits
<1>5. ASSUME NEW w \in words PROVE \E h \in hits : Best1(h, w)
  <2> DEFINE C == {h[3] : h \in {x \in hits : x[1] = w}}
  <2>1. C \in SUBSET Int /\ C # {} /\ \A c \in C : c <= FreqScore[MaxFreq]
    BY <1>4
  <2>2. FreqScore[MaxFreq] \in Int
    BY FreqScoreBound
  <2>3. Top(C) \in C /\ \A c \in C : c <= Top(C)
    <3> HIDE DEF C
    <3> QED BY <2>1, <2>2, TopIsTop
  <2> QED BY <2>3
<1>6. ASSUME NEW w \in DOMAIN got PROVE got[w][3] \in Int /\ got[w][3] <= FreqScore[MaxFreq]
  <2>1. w \in words /\ got[w] = CHOOSE h \in hits : Best1(h, w)
    BY <1>1
  <2>2. got[w] \in hits
    <3> HIDE DEF Best1, words, got
    <3> QED BY <1>5, <2>1
  <2> QED BY <1>4, <2>2
<1>7. ExactWords(t) \subseteq DOMAIN got
  <2>1. SUFFICES ASSUME NEW x \in ExactWords(t) PROVE x \in words
    BY <1>1
  <2>2. PICK r \in ToSet(Completions(beam.index, t)) : x = r[2]
    BY DEF ExactWords
  <2>3. PICK c : <<t, c>> \in Paths(t)
    BY <1>3
  <2>4. t # <<>>
    BY <1>2, LettersFollow
  <2> DEFINE s == <<t, c>>
             h == <<r[2], s[2], s[2] + FreqScore[r[1]]>>
  <2>5. s \in {y \in Paths(t) : y[1] # <<>>} /\ s[1] = t
    BY <2>3, <2>4
  <2>6. h \in hits
    <3> HIDE DEF s
    <3> QED BY <2>2, <2>5 DEF hits
  <2>7. h[1] = x
    BY <2>2
  <2> HIDE DEF h
  <2> QED BY <2>6, <2>7
<1> QED BY <1>6, <1>7

\* Where the typed letters begin a word, what strayed is put below the best of
\* the words they begin.
LEMMA StraysArePutBelow ==
    ASSUME IndexInv, Current, NEW t, NEW w \in DOMAIN Reached(t) \ ExactWords(t),
           Reached(t)[w][2] < MayBuy, ExactWords(t) # {}
    PROVE  \E x \in ExactWords(t) : Scores(t)[w] < Scores(t)[x]
<1> DEFINE got == Reached(t)
           E == ExactWords(t)
           exact == E \cap DOMAIN got
           b == FreqScore[MaxFreq]
           X == {got[v][3] : v \in exact}
           best == Top(X)
           strays == {v \in DOMAIN got \ E : got[v][2] < MayBuy /\ got[v][3] >= best}
           Y == {got[v][3] : v \in strays}
           shift == Top(Y) - best + 1
           score == [v \in DOMAIN got |->
                       got[v][3] - IF exact # {} /\ strays # {} /\ v \in strays THEN shift ELSE 0]
<1>1. Scores(t) = score
  BY DEF Scores
<1>2. /\ freq \in [Dictionary -> 0..MaxFreq] /\ freq \in [Dictionary -> Nat]
      /\ IndexFits(beam.index, freq) /\ beam.grid \in Layouts
  BY IndexConstants DEF IndexInv, Current
<1>3. t \in AllBeginnings /\ Begins(freq, t)
  <2>1. t \in AllBeginnings /\ \E r : r \in ToSet(Completions(beam.index, t))
    BY DEF ExactWords
  <2>2. PICK r : r \in ToSet(Completions(beam.index, t))
    BY <2>1
  <2>3. r[2] \in Dictionary /\ r[1] = freq[r[2]] /\ r[1] > 0 /\ StartsWith(r[2], t)
    BY <1>2, <2>1, <2>2, CompletionsAreRows
  <2> QED BY <2>1, <2>3 DEF Begins, KnownIn
<1>4. /\ \A v \in DOMAIN got : got[v][3] \in Int /\ got[v][3] <= b
      /\ exact = E /\ b \in Int
  BY <1>2, <1>3, ReachedScores, FreqScoreBound
<1> HIDE DEF got, E, b
<1>5. X \in SUBSET Int /\ X # {} /\ \A x \in X : x <= b
  BY <1>4 DEF E
<1>6. best \in X
  <2> HIDE DEF X
  <2> QED BY <1>4, <1>5, TopIsTop
<1>7. PICK x \in exact : got[x][3] = best
  BY <1>6
<1>8. x \in E /\ x \in DOMAIN got /\ best \in Int
  BY <1>4, <1>7
<1>9. score[x] = best
  <2>1. x \notin strays
    BY <1>8
  <2> HIDE DEF strays, exact
  <2> QED BY <1>7, <1>8, <2>1
<1>10. w \in DOMAIN got /\ w \notin E /\ got[w][2] < MayBuy /\ got[w][3] \in Int
  BY <1>4 DEF got, E
<1>11. CASE got[w][3] >= best
  <2>1. w \in strays /\ strays # {} /\ exact # {}
    BY <1>7, <1>10, <1>11
  <2>2. Y \in SUBSET Int /\ Y # {} /\ \A y \in Y : y <= b
    BY <1>4, <2>1
  <2>3. got[w][3] \in Y
    BY <2>1
  <2>4. Top(Y) \in Int /\ got[w][3] <= Top(Y)
    <3> HIDE DEF Y
    <3> QED BY <1>4, <2>2, <2>3, TopIsTop
  <2>5. score[w] = got[w][3] - shift
    <3> HIDE DEF strays, exact, shift
    <3> QED BY <1>10, <2>1
  <2>6. score[w] < best
    <3> HIDE DEF score, Y, best
    <3> QED BY <1>8, <1>10, <2>4, <2>5
  <2> QED BY <1>1, <1>8, <1>9, <2>6 DEF E
<1>12. CASE ~ (got[w][3] >= best)
  <2>1. w \notin strays
    BY <1>12
  <2>2. score[w] = got[w][3]
    <3> HIDE DEF strays, exact, best, shift
    <3> QED BY <1>10, <2>1
  <2>3. score[w] < best
    <3> HIDE DEF score, best
    <3> QED BY <1>8, <1>10, <1>12, <2>2
  <2> QED BY <1>1, <1>8, <1>9, <2>3 DEF E
<1> QED BY <1>11, <1>12

\* For any dictionary, layout, costs and frequencies: the typed letters survive
\* the beam where they begin a word, so there is a completion to protect, and
\* no word past one cheap slip outranks the best of them.
THEOREM TypedLettersComeFirst == IndexInit /\ [][IndexNext]_indexVars => []TypedLettersWin
<1>1. IndexInv => TypedLettersWin
  <2> SUFFICES ASSUME IndexInv, Current, NEW t,
                      NEW w \in DOMAIN Scores(t) \ ExactWords(t),
                      Reached(t)[w][2] < MayBuy, ExactWords(t) # {}
               PROVE  \E x \in ExactWords(t) : Scores(t)[w] < Scores(t)[x]
    BY DEF TypedLettersWin
  <2>1. DOMAIN Scores(t) = DOMAIN Reached(t)
    BY DEF Scores
  <2> QED BY <2>1, StraysArePutBelow
<1> QED BY <1>1, IndexInvHolds, PTL

\* The same beside the other engines.
THEOREM TypedLettersComeFirstInTheEngine == PredictionSpec => []RunTypedLettersWin
<1>1. PredictionInit => IndexInit
  BY DEF PredictionInit
<1>2. [PredictionNext]_<<engine, vars, contextVars, indexVars, nextWordsVars, rankingVars>>
        => [IndexNext]_indexVars
  BY DEF PredictionNext
<1>3. TypedLettersWin => RunTypedLettersWin
  BY DEF RunTypedLettersWin
<1> QED BY <1>1, <1>2, <1>3, TypedLettersComeFirst, PTL DEF PredictionSpec

-----------------------------------------------------------------------------
(* Firsts without one element.                                             *)

\* What follows place k of a sequence.
LEMMA TailOf ==
    ASSUME NEW S, NEW q \in Seq(S), NEW k \in 0..Len(q)
    PROVE  /\ SubSeq(q, k + 1, Len(q)) \in Seq(S)
           /\ Len(SubSeq(q, k + 1, Len(q))) = Len(q) - k
           /\ \A i \in 1..(Len(q) - k) : SubSeq(q, k + 1, Len(q))[i] = q[k + i]
<1>1. \A i \in (k + 1)..Len(q) : q[i] \in S
  OBVIOUS
<1>2. /\ SubSeq(q, k + 1, Len(q)) \in Seq(S)
      /\ Len(SubSeq(q, k + 1, Len(q))) = IF k + 1 <= Len(q) THEN Len(q) - (k + 1) + 1 ELSE 0
      /\ \A i \in 1..(Len(q) - (k + 1) + 1) : SubSeq(q, k + 1, Len(q))[i] = q[(k + 1) + i - 1]
  BY <1>1, SubSeqProperties
<1> QED BY <1>2

\* What RemoveFirst makes of a sequence that holds w once.
LEMMA OnceRemoved ==
    ASSUME NEW n \in Nat, NEW q, q = [i \in 1..n |-> q[i]], NEW j \in 1..n,
           \A i \in 1..n : q[i] = q[j] => i = j
    PROVE  RemoveFirst(q, q[j]) = [i \in 1..(n - 1) |-> IF i < j THEN q[i] ELSE q[i + 1]]
<1> DEFINE w == q[j]
           T == {q[i] : i \in 1..n}
           I == {i \in 1..Len(q) : q[i] = w}
           a == SubSeq(q, 1, j - 1)
           b == SubSeq(q, j + 1, n)
<1>1. q \in Seq(T) /\ Len(q) = n
  <2>1. \A i \in 1..n : q[i] \in T
    OBVIOUS
  <2> HIDE DEF T
  <2> QED BY <2>1
<1>2. I = {j}
  BY <1>1
<1>3. Min(I) = j
  <2>1. \A x \in I : x = j
    BY <1>2
  <2> HIDE DEF I
  <2> QED BY <1>2, <2>1 DEF Min
<1>4. RemoveFirst(q, w) = RemoveAt(q, j)
  <2>1. \E i \in 1..Len(q) : q[i] = w
    BY <1>1
  <2>2. SelectInSeq(q, LAMBDA v : v = w) = j
    BY <1>2, <1>3 DEF SelectInSeq
  <2> QED BY <2>1, <2>2 DEF RemoveFirst
<1>5. RemoveFirst(q, w) = a \o b
  BY <1>1, <1>4 DEF RemoveAt
<1>6. a = [i \in 1..(j - 1) |-> q[i]] /\ a \in Seq(T) /\ Len(a) = j - 1
  <2> HIDE DEF T
  <2> QED BY <1>1
<1>7. b \in Seq(T) /\ Len(b) = n - j /\ \A i \in 1..(n - j) : b[i] = q[j + i]
  <2>1. b = SubSeq(q, j + 1, Len(q)) /\ j \in 0..Len(q)
    BY <1>1
  <2> HIDE DEF T, b
  <2> QED BY <1>1, <2>1, TailOf
<1> DEFINE c == a \o b
<1> HIDE DEF a, b, T
<1>8. /\ c \in Seq(T) /\ Len(c) = n - 1
      /\ \A i \in 1..(n - 1) : c[i] = IF i <= j - 1 THEN a[i] ELSE b[i - (j - 1)]
  <2>1. Len(a) + Len(b) = n - 1
    BY <1>6, <1>7
  <2>2. /\ c \in Seq(T) /\ Len(c) = Len(a) + Len(b)
        /\ \A i \in 1..(Len(a) + Len(b)) : c[i] = IF i <= Len(a) THEN a[i] ELSE b[i - Len(a)]
    BY <1>6, <1>7, ConcatProperties
  <2> HIDE DEF c
  <2> QED BY <1>6, <2>1, <2>2
<1>9. ASSUME NEW i \in 1..(n - 1)
      PROVE  c[i] = IF i < j THEN q[i] ELSE q[i + 1]
  <2>1. CASE i < j
    <3>1. i <= j - 1 /\ i \in 1..(j - 1)
      BY <2>1
    <3> HIDE DEF c
    <3> QED BY <1>6, <1>8, <2>1, <3>1
  <2>2. CASE ~(i < j)
    <3>1. ~(i <= j - 1) /\ i - (j - 1) \in 1..(n - j) /\ j + (i - (j - 1)) = i + 1
      BY <2>2
    <3> HIDE DEF c
    <3> QED BY <1>7, <1>8, <2>2, <3>1
  <2> QED BY <2>1, <2>2
<1>10. c = [i \in 1..(n - 1) |-> c[i]]
  <2> HIDE DEF c
  <2> QED BY <1>8
<1>11. c = [i \in 1..(n - 1) |-> IF i < j THEN q[i] ELSE q[i + 1]]
  <2> HIDE DEF c
  <2> QED BY <1>9, <1>10
<1> QED BY <1>5, <1>11

\* Taking an element out of a set takes one off the ranks behind it.
LEMMA RankWithout ==
    ASSUME NEW S, IsFiniteSet(S), NEW R, Orders(R, S), NEW w \in S, NEW x \in S \ {w}
    PROVE  /\ <<w, x>> \in R => RankIn(x, S \ {w}, R) = RankIn(x, S, R) - 1
           /\ <<w, x>> \notin R => RankIn(x, S \ {w}, R) = RankIn(x, S, R)
<1> DEFINE E == Earlier(x, S, R)
<1>1. Earlier(x, S \ {w}, R) = E \ {w} /\ E \in SUBSET S
  BY DEF Earlier
<1>2. IsFiniteSet(E)
  BY <1>1, FS_Subset
<1>3. <<w, x>> \in R <=> w \in E
  BY DEF Earlier
<1> HIDE DEF E
<1>4. CASE w \in E
  <2>1. Cardinality(E \ {w}) = Cardinality(E) - 1
    BY <1>2, <1>4, FS_RemoveElement
  <2> QED BY <1>1, <1>3, <1>4, <2>1 DEF RankIn, E
<1>5. CASE w \notin E
  <2>1. E \ {w} = E
    BY <1>5
  <2> QED BY <1>1, <1>3, <1>5, <2>1 DEF RankIn, E
<1> QED BY <1>4, <1>5

\* What is left of the first k when w is taken out of them are the first of
\* the others.
LEMMA FirstsWithout ==
    ASSUME NEW S, IsFiniteSet(S), NEW R, Orders(R, S), NEW k \in Nat \ {0},
           NEW q, IsFirst(q, k, S, R), NEW w \in S
    PROVE  \E m \in (k - 1)..k : /\ w \in ToSet(q) => m = k - 1
                                 /\ IsFirst(RemoveFirst(q, w), m, S \ {w}, R)
<1> DEFINE T == S \ {w}
           n == IF Cardinality(S) < k THEN Cardinality(S) ELSE k
<1>1. /\ q = [i \in 1..n |-> q[i]]
      /\ \A i \in 1..n : q[i] \in S /\ RankIn(q[i], S, R) = i - 1
  BY DEF IsFirst
<1>2. Cardinality(S) \in Nat /\ Cardinality(S) > 0 /\ Cardinality(T) = Cardinality(S) - 1
  BY RankBounds, FS_RemoveElement, FS_EmptySet
<1>3. n \in Nat /\ n > 0 /\ n <= k
  BY <1>2
<1>4. DOMAIN q = 1..n
  BY <1>1
<1>5. CASE w \in ToSet(q)
  <2>1. PICK j \in 1..n : q[j] = w
    BY <1>4, <1>5 DEF ToSet
  <2>2. \A i \in 1..n : q[i] = q[j] => i = j
    <3> SUFFICES ASSUME NEW i \in 1..n, q[i] = q[j] PROVE i = j
      OBVIOUS
    <3>1. i - 1 = j - 1
      <4> HIDE DEF n
      <4> QED BY <1>1
    <3> QED BY <1>3, <3>1
  <2> DEFINE d == RemoveFirst(q, w)
  <2>3. d = [i \in 1..(n - 1) |-> IF i < j THEN q[i] ELSE q[i + 1]]
    <3> HIDE DEF n
    <3> QED BY <1>1, <1>3, <2>1, <2>2, OnceRemoved
  <2>4. ASSUME NEW i \in 1..(n - 1)
        PROVE  d[i] \in T /\ RankIn(d[i], T, R) = i - 1
    <3>1. n \in Nat /\ i \in 1..n /\ i + 1 \in 1..n /\ j \in Nat
      BY <1>3
    <3> HIDE DEF n, d
    <3>2. RankIn(w, S, R) = j - 1
      BY <1>1, <2>1
    <3>3. CASE i < j
      <4>1. d[i] = q[i] /\ i # j
        BY <2>3, <3>3
      <4>2. d[i] \in T /\ RankIn(d[i], S, R) = i - 1
        BY <1>1, <2>1, <2>2, <3>1, <4>1
      <4>3. <<w, d[i]>> \notin R
        <5>1. <<w, d[i]>> \in R => j - 1 < i - 1
          BY <3>2, <4>2, RankBounds
        <5> QED BY <3>1, <3>3, <5>1
      <4> QED BY <4>2, <4>3, RankWithout
    <3>4. CASE ~(i < j)
      <4>1. d[i] = q[i + 1] /\ i + 1 # j
        BY <2>3, <3>1, <3>4
      <4>2. d[i] \in T /\ RankIn(d[i], S, R) = (i + 1) - 1
        BY <1>1, <2>1, <2>2, <3>1, <4>1
      <4>3. <<w, d[i]>> \in R
        <5>1. <<d[i], w>> \in R => (i + 1) - 1 < j - 1
          BY <3>2, <4>2, RankBounds
        <5>2. <<d[i], w>> \notin R
          BY <3>1, <3>4, <5>1
        <5> QED BY <4>2, <5>2 DEF Orders
      <4>4. RankIn(d[i], T, R) = RankIn(d[i], S, R) - 1
        BY <4>2, <4>3, RankWithout
      <4> QED BY <3>1, <4>2, <4>4
    <3> QED BY <3>3, <3>4
  <2>5. n - 1 = IF Cardinality(T) < k - 1 THEN Cardinality(T) ELSE k - 1
    BY <1>2
  <2>6. d = [i \in 1..(n - 1) |-> d[i]]
    BY <2>3
  <2> HIDE DEF d, n, T
  <2>7. IsFirst(d, k - 1, T, R)
    BY <2>4, <2>5, <2>6 DEF IsFirst
  <2>8. k - 1 \in (k - 1)..k
    OBVIOUS
  <2> QED BY <2>7, <2>8 DEF d, T
<1>6. CASE w \notin ToSet(q)
  <2>1. \A i \in 1..n : q[i] # w
    BY <1>4, <1>6 DEF ToSet
  <2>2. RankIn(w, S, R) \in Nat /\ RankIn(w, S, R) >= k /\ RankIn(w, S, R) < Cardinality(S)
    BY <1>4, <2>1, LateHasRank, RankBounds
  <2>3. n = k /\ n = IF Cardinality(T) < k THEN Cardinality(T) ELSE k
    BY <1>2, <2>2
  <2>4. RemoveFirst(q, w) = q
    <3>1. q \in Seq({q[i] : i \in 1..n}) /\ Len(q) = n
      <4> DEFINE U == {q[i] : i \in 1..n}
      <4>1. \A i \in 1..n : q[i] \in U
        OBVIOUS
      <4> HIDE DEF U, n
      <4>2. q \in Seq(U) /\ Len(q) = n
        BY <1>1, <1>3, <4>1
      <4> QED BY <4>2 DEF U
    <3> QED BY <2>1, <3>1 DEF RemoveFirst
  <2>5. ASSUME NEW i \in 1..n
        PROVE  q[i] \in T /\ RankIn(q[i], T, R) = i - 1
    <3>1. q[i] \in T /\ RankIn(q[i], S, R) = i - 1
      BY <1>1, <2>1
    <3>2. <<w, q[i]>> \notin R
      <4>1. <<w, q[i]>> \in R => RankIn(w, S, R) < i - 1
        BY <3>1, RankBounds
      <4>2. i - 1 < k
        BY <1>3
      <4> HIDE DEF n
      <4> QED BY <1>3, <2>2, <4>1, <4>2
    <3> QED BY <3>1, <3>2, RankWithout
  <2> HIDE DEF n, T
  <2>6. IsFirst(q, k, T, R)
    BY <1>1, <2>3, <2>5 DEF IsFirst
  <2>7. k \in (k - 1)..k
    OBVIOUS
  <2> QED BY <1>6, <2>4, <2>6, <2>7 DEF T
<1> QED BY <1>5, <1>6

\* Of one order the first few begin the first more.
LEMMA FirstsNest ==
    ASSUME NEW S, IsFiniteSet(S), NEW R, Orders(R, S), NEW Q, Orders(Q, S),
           \A x, y \in S : <<x, y>> \in R <=> <<x, y>> \in Q,
           NEW k \in Nat, NEW m \in Nat, k <= m,
           NEW q, NEW r, IsFirst(q, k, S, R), IsFirst(r, m, S, Q)
    PROVE  IsPrefix(q, r)
<1> DEFINE c == Cardinality(S)
           n == IF c < k THEN c ELSE k
           l == IF c < m THEN c ELSE m
<1>1. c \in Nat
  BY RankBounds
<1>2. n \in Nat /\ l \in Nat /\ n <= l
  BY <1>1
<1>3. /\ q = [i \in 1..n |-> q[i]]
      /\ \A i \in 1..n : q[i] \in S /\ RankIn(q[i], S, R) = i - 1
  BY DEF IsFirst
<1>4. /\ r = [i \in 1..l |-> r[i]]
      /\ \A i \in 1..l : r[i] \in S /\ RankIn(r[i], S, Q) = i - 1
  BY DEF IsFirst
<1> HIDE DEF n, l
<1>5. \A x \in S : RankIn(x, S, R) = RankIn(x, S, Q)
  <2> TAKE x \in S
  <2>1. Earlier(x, S, R) = Earlier(x, S, Q)
    BY DEF Earlier
  <2> QED BY <2>1 DEF RankIn
<1>6. ASSUME NEW i \in 1..n PROVE q[i] = r[i]
  <2>1. i \in 1..l
    BY <1>2
  <2> QED BY <1>3, <1>4, <1>5, <2>1, RankIsOne
<1>7. q \in Seq(S) /\ r \in Seq(S) /\ Len(q) = n /\ Len(r) = l
  BY <1>2, <1>3, <1>4
<1>8. SubSeq(q, 1, n) = [i \in 1..n |-> q[i]] /\ SubSeq(r, 1, n) = [i \in 1..n |-> r[i]]
  BY <1>2, <1>7
<1>9. SubSeq(q, 1, n) = SubSeq(r, 1, n)
  BY <1>6, <1>8
<1> QED BY <1>2, <1>7, <1>9 DEF IsPrefix

\* One element moves back among the others: they stay as they stood, and it is
\* no earlier.
LEMMA MovedBack ==
    ASSUME NEW S, IsFiniteSet(S), NEW R, Orders(R, S), NEW Q, Orders(Q, S),
           NEW k \in Nat \ {0}, NEW q, NEW r, IsFirst(q, k, S, R), IsFirst(r, k, S, Q),
           NEW w \in S, w \in ToSet(q),
           \A x, y \in S \ {w} : <<x, y>> \in R <=> <<x, y>> \in Q,
           \A x \in S : <<x, w>> \in R => <<x, w>> \in Q
    PROVE  /\ IsPrefix(RemoveFirst(q, w), RemoveFirst(r, w))
           /\ \A i \in DOMAIN r : r[i] = w => \E j \in 1..i : q[j] = w
<1>1. IsPrefix(RemoveFirst(q, w), RemoveFirst(r, w))
  <2>1. IsFirst(RemoveFirst(q, w), k - 1, S \ {w}, R)
    BY FirstsWithout
  <2>2. PICK m \in (k - 1)..k : IsFirst(RemoveFirst(r, w), m, S \ {w}, Q)
    BY FirstsWithout
  <2>3. IsFiniteSet(S \ {w}) /\ Orders(R, S \ {w}) /\ Orders(Q, S \ {w})
    BY FS_Subset DEF Orders
  <2>4. m \in Nat /\ k - 1 \in Nat /\ k - 1 <= m
    OBVIOUS
  <2> QED BY <2>1, <2>2, <2>3, <2>4, FirstsNest
<1>2. ASSUME NEW i \in DOMAIN r, r[i] = w
      PROVE  \E j \in 1..i : q[j] = w
  <2> DEFINE n == IF Cardinality(S) < k THEN Cardinality(S) ELSE k
  <2>1. /\ q = [j \in 1..n |-> q[j]] /\ \A j \in 1..n : RankIn(q[j], S, R) = j - 1
        /\ r = [j \in 1..n |-> r[j]] /\ \A j \in 1..n : RankIn(r[j], S, Q) = j - 1
    BY DEF IsFirst
  <2>2. n \in Nat
    BY RankBounds
  <2> HIDE DEF n
  <2>3. DOMAIN q = 1..n /\ DOMAIN r = 1..n
    BY <2>1
  <2>4. PICK j \in 1..n : q[j] = w
    BY <2>3 DEF ToSet
  <2>5. RankIn(w, S, R) = j - 1 /\ RankIn(w, S, Q) = i - 1 /\ i \in 1..n
    BY <1>2, <2>1, <2>3, <2>4
  <2>6. RankIn(w, S, R) <= RankIn(w, S, Q)
    <3>1. Earlier(w, S, R) \in SUBSET Earlier(w, S, Q) /\ IsFiniteSet(Earlier(w, S, Q))
      BY FS_Subset DEF Earlier
    <3> QED BY <3>1, FS_Subset DEF RankIn
  <2>7. j \in 1..i
    BY <2>2, <2>5, <2>6
  <2> QED BY <2>4, <2>7
<1> QED BY <1>1, <1>2

-----------------------------------------------------------------------------
(* What the fused lists score.                                             *)

\* How a product goes on to its factor i.
TimesNext(f, D, i) == IF i = 0 THEN 1 ELSE D[i - 1] * f[i]

\* A product of numbers is a number.
LEMMA ProductIsNat ==
    ASSUME NEW n \in Nat, NEW f, \A i \in 1..n : f[i] \in Nat
    PROVE  Product(f, n) \in Nat
<1> DEFINE Times(D, m) == D = [i \in 0..m |-> TimesNext(f, D, i)]
           Z == {m \in Nat : ~ \E D : Times(D, m)}
<1>1. \E D : Times(D, 0)
  <2>1. Times([i \in 0..0 |-> 1], 0)
    BY DEF TimesNext
  <2> QED BY <2>1
<1>2. ASSUME NEW m \in Nat, NEW D, Times(D, m)
      PROVE  \E E : Times(E, m + 1)
  <2> DEFINE E == [i \in 0..(m + 1) |-> IF i <= m THEN D[i] ELSE TimesNext(f, D, m + 1)]
  <2>1. \A i \in 0..m : E[i] = D[i] /\ D[i] = TimesNext(f, D, i)
    BY <1>2
  <2>2. \A i \in 0..(m + 1) : TimesNext(f, E, i) = TimesNext(f, D, i)
    <3> HIDE DEF E
    <3> QED BY <2>1 DEF TimesNext
  <2>3. \A i \in 0..(m + 1) : E[i] = TimesNext(f, E, i)
    BY <2>1, <2>2
  <2>4. E = [i \in 0..(m + 1) |-> E[i]]
    OBVIOUS
  <2> HIDE DEF E
  <2>5. Times(E, m + 1)
    BY <2>3, <2>4
  <2> QED BY <2>5
<1>3. Z = {}
  <2> SUFFICES ASSUME Z # {} PROVE FALSE
    OBVIOUS
  <2>1. PICK m \in Z : \A l \in Z : m <= l
    BY NatMin
  <2>2. m # 0 /\ m - 1 \in Nat
    <3>1. 0 \notin Z
      BY <1>1
    <3>2. m \in Nat /\ m # 0
      BY <3>1
    <3> QED BY <3>2
  <2>3. m - 1 \notin Z
    BY <2>1, <2>2
  <2>4. PICK D : Times(D, m - 1)
    BY <2>2, <2>3
  <2>5. \E E : Times(E, (m - 1) + 1)
    BY <1>2, <2>2, <2>4
  <2>6. (m - 1) + 1 = m
    OBVIOUS
  <2> HIDE DEF Times
  <2> QED BY <2>5, <2>6
<1>4. \E D : Times(D, n)
  BY <1>3
<1> DEFINE upTo == CHOOSE D : Times(D, n)
<1>5. Times(upTo, n)
  BY <1>4
<1>6. Product(f, n) = upTo[n]
  BY DEF Product, TimesNext
<1> HIDE DEF upTo
<1> DEFINE bad == {i \in Nat : i <= n /\ upTo[i] \notin Nat}
<1>7. bad = {}
  <2> SUFFICES ASSUME bad # {} PROVE FALSE
    OBVIOUS
  <2>1. PICK i \in bad : \A j \in bad : i <= j
    BY NatMin
  <2>2. i \in Nat /\ i <= n /\ upTo[i] = TimesNext(f, upTo, i)
    BY <1>5, <2>1
  <2>3. i # 0
    BY <2>1, <2>2 DEF TimesNext
  <2>4. i - 1 \in Nat /\ i - 1 \notin bad /\ i \in 1..n
    BY <2>1, <2>2, <2>3
  <2>5. upTo[i - 1] \in Nat /\ f[i] \in Nat
    BY <2>2, <2>4
  <2>6. upTo[i - 1] * f[i] \in Nat
    BY <2>5, Factors
  <2> QED BY <2>1, <2>2, <2>3, <2>6 DEF TimesNext
<1> QED BY <1>6, <1>7

\* What a merge gets: places are those of one word each.
IsList(L) ==
    /\ IsFiniteSet(L)
    /\ \A x \in L : x.e.word \in RankWords /\ x.e.p \in Nat /\ x.place \in 1..Longest
    /\ \A x, y \in L : x.place = y.place => x = y

LEMMA ListedIsList ==
    ASSUME NEW q \in Seq([word : RankWords, p : Nat]), Len(q) <= Longest, NEW k \in Nat, NEW kept
    PROVE  IsList(Listed(FirstOf(q, k), kept))
<1> DEFINE l == IF Len(q) < k THEN Len(q) ELSE k
           r == FirstOf(q, k)
           J == {j \in DOMAIN r : r[j].word \in kept}
           L == {[e |-> r[i], place |-> i] : i \in J}
<1>1. l \in Nat /\ l <= Longest /\ l <= Len(q)
  <2>1. Len(q) \in Nat /\ Longest \in Nat
    BY RankingConstants
  <2> QED BY <2>1
<1>2. r = [i \in 1..l |-> q[i]]
  BY <1>1 DEF FirstOf
<1>3. Listed(r, kept) = L
  BY DEF Listed
<1> HIDE DEF l, r
<1>4. J \in SUBSET (1..l) /\ IsFiniteSet(1..l)
  BY <1>1, <1>2, FS_Interval
<1>5. IsFiniteSet(J)
  BY <1>4, FS_Subset
<1>6. IsFiniteSet(L)
  <2> DEFINE g == [i \in J |-> [e |-> r[i], place |-> i]]
  <2>1. g \in Surjection(J, L)
    BY DEF Surjection
  <2> HIDE DEF J, L, g
  <2> QED BY <1>5, <2>1, FS_Surjection
<1>7. ASSUME NEW x \in L
      PROVE  x.e.word \in RankWords /\ x.e.p \in Nat /\ x.place \in 1..Longest
  <2>1. PICK i \in J : x = [e |-> r[i], place |-> i]
    OBVIOUS
  <2>2. i \in 1..l
    BY <1>4
  <2>4. r[i] \in [word : RankWords, p : Nat]
    <3>1. i \in 1..Len(q) /\ r[i] = q[i]
      BY <1>1, <1>2, <2>2
    <3> DEFINE T == [word : RankWords, p : Nat]
    <3>2. q \in Seq(T)
      OBVIOUS
    <3> HIDE DEF T
    <3>3. q[i] \in T
      BY <3>1, <3>2
    <3> QED BY <3>1, <3>3 DEF T
  <2>3. i \in 1..Longest
    BY <1>1, <2>2, RankingConstants
  <2> HIDE DEF J
  <2> QED BY <2>1, <2>3, <2>4
<1>8. \A x, y \in L : x.place = y.place => x = y
  OBVIOUS
<1> HIDE DEF L
<1> QED BY <1>3, <1>6, <1>7, <1>8 DEF IsList, r

LEMMA EntryOfList ==
    ASSUME NEW L, IsList(L), NEW w, Entry(L, w) # {}
    PROVE  /\ The(Entry(L, w)) \in L /\ The(Entry(L, w)).e.word = w
           /\ The(Entry(L, w)).e.p \in Nat /\ The(Entry(L, w)).place \in 1..Longest
<1>1. The(Entry(L, w)) \in Entry(L, w)
  BY DEF The
<1> QED BY <1>1 DEF Entry, IsList

\* Numbers, their sums and products.
LEMMA SumsAndProducts ==
    ASSUME NEW a \in Nat, NEW b \in Nat
    PROVE  a * b \in Nat /\ a + b \in Nat
BY Factors

LEMMA ByPlaceIsNat ==
    ASSUME NEW L, IsList(L), NEW w, NEW k \in Nat
    PROVE  ByPlace(L, w, k) \in Nat
<1>1. Places(k) \in Nat
  <2> DEFINE f == [i \in 1..Longest |-> k + i]
  <2>1. \A i \in 1..Longest : f[i] \in Nat
    OBVIOUS
  <2>2. Longest \in Nat
    BY RankingConstants
  <2> HIDE DEF f
  <2>3. Product(f, Longest) \in Nat
    BY <2>1, <2>2, ProductIsNat
  <2> QED BY <2>3 DEF Places, f
<1>2. CASE Entry(L, w) = {}
  BY <1>2 DEF ByPlace
<1>3. CASE Entry(L, w) # {}
  <2> DEFINE d == k + The(Entry(L, w)).place
  <2>1. d \in Nat \ {0}
    <3> DEFINE c == The(Entry(L, w)).place
    <3>1. c \in 1..Longest
      BY <1>3, EntryOfList
    <3> HIDE DEF c
    <3>2. k + c \in Nat \ {0}
      BY <3>1, RankingConstants
    <3> QED BY <3>2 DEF c
  <2> HIDE DEF d
  <2>2. Places(k) \div d \in Nat
    BY <1>1, <2>1, QuotientIsNat
  <2> QED BY <1>3, <2>2 DEF ByPlace, d
<1> QED BY <1>2, <1>3

\* Bonuses, by word.
IsBonus(b) == b \in [RankWords -> Nat]

LEMMA MassIsNat ==
    ASSUME NEW L, IsList(L), NEW b, IsBonus(b)
    PROVE  Mass(L, b) \in Nat
<1> DEFINE F == [x \in L |-> x.e.p * b[x.e.word]]
<1>1. ASSUME NEW x \in L PROVE F[x] \in Nat
  <2>1. x.e.p \in Nat /\ b[x.e.word] \in Nat
    BY DEF IsList, IsBonus
  <2>2. x.e.p * b[x.e.word] \in Nat
    BY <2>1, SumsAndProducts
  <2> QED BY <2>2
<1>2. IsFiniteSet(L)
  BY DEF IsList
<1> HIDE DEF F
<1>3. SumFunctionOnSet(F, L) \in Nat
  BY <1>1, <1>2, SumBounds
<1> QED BY <1>3 DEF Mass, F

LEMMA ShareIsNat ==
    ASSUME NEW L, IsList(L), NEW w \in RankWords, NEW b, IsBonus(b)
    PROVE  Share(L, w, b) \in Nat
<1>1. CASE Entry(L, w) = {}
  BY <1>1 DEF Share
<1>2. CASE Entry(L, w) # {}
  <2>1. The(Entry(L, w)).e.p \in Nat /\ b[w] \in Nat
    BY <1>2, EntryOfList DEF IsBonus
  <2>2. The(Entry(L, w)).e.p * b[w] \in Nat
    BY <2>1, SumsAndProducts
  <2> QED BY <1>2, <2>2 DEF Share
<1> QED BY <1>1, <1>2

LEMMA PowerIsNat ==
    ASSUME NEW b \in Nat, NEW e \in Nat
    PROVE  Power(b, e) \in Nat
<1> DEFINE f == [i \in 1..e |-> b]
<1>1. \A i \in 1..e : f[i] \in Nat
  OBVIOUS
<1> HIDE DEF f
<1>2. Product(f, e) \in Nat
  BY <1>1, ProductIsNat
<1> QED BY <1>2 DEF Power, f

\* Whatever the strategy, a score is a number.
LEMMA ScoredIsNat ==
    ASSUME strategy \in Strategies, NEW s \in Situations, NEW N, IsList(N), NEW F, IsList(F),
           NEW w \in RankWords
    PROVE  Scored(s, N, F, w) \in Nat
<1>1. Weight(s) \in Nat /\ FuzzyWeight \in Nat /\ MissingOdds \in Nat
  BY RankingConstants DEF Weight
<1>2. Bonus(s, w) \in Nat /\ IsBonus(Bonuses(s)) /\ IsBonus(Plain)
  <2>1. s.follows \in [RankWords -> Nat]
    BY RankingConstants
  <2>2. \A v \in RankWords : Bonus(s, v) \in Nat
    BY <2>1 DEF Bonus
  <2> QED BY <2>2 DEF IsBonus, Bonuses, Plain
<1>3. ASSUME NEW k \in Nat PROVE PlacesScore(s, N, F, w, k) \in Nat
  <2> DEFINE a == ByPlace(N, w, k)
             b == ByPlace(F, w, k)
  <2>1. a \in Nat /\ b \in Nat
    BY ByPlaceIsNat
  <2> HIDE DEF a, b
  <2>2. 2 * Weight(s) \in Nat /\ FuzzyWeight * Bonus(s, w) \in Nat
    BY <1>1, <1>2, SumsAndProducts
  <2>3. 2 * Weight(s) * a \in Nat /\ FuzzyWeight * Bonus(s, w) * b \in Nat
    BY <2>1, <2>2, SumsAndProducts
  <2>4. 2 * Weight(s) * a + FuzzyWeight * Bonus(s, w) * b \in Nat
    BY <2>3, SumsAndProducts
  <2> QED BY <2>4 DEF PlacesScore, a, b
<1> DEFINE tn == Mass(N, Plain)
           tf == Mass(F, Bonuses(s))
           hn == Share(N, w, Plain)
           hf == Share(F, w, Bonuses(s))
<1>4. tn \in Nat /\ tf \in Nat /\ hn \in Nat /\ hf \in Nat
  BY <1>2, MassIsNat, ShareIsNat
<1> HIDE DEF tn, tf, hn, hf
<1>5. LinearScore(s, N, F, w) \in Nat
  <2> DEFINE dn == IF tf = 0 THEN 1 ELSE tf
             df == IF tn = 0 THEN 1 ELSE tn
  <2>1. dn \in Nat /\ df \in Nat
    BY <1>4
  <2> HIDE DEF dn, df
  <2>2. Weight(s) * hn \in Nat /\ FuzzyWeight * hf \in Nat
    BY <1>1, <1>4, SumsAndProducts
  <2>3. Weight(s) * hn * dn \in Nat /\ FuzzyWeight * hf * df \in Nat
    BY <2>1, <2>2, SumsAndProducts
  <2>4. Weight(s) * hn * dn + FuzzyWeight * hf * df \in Nat
    BY <2>3, SumsAndProducts
  <2> QED BY <2>4 DEF LinearScore, dn, df, tn, tf, hn, hf
<1>6. ProductScore(s, N, F, w) \in Nat
  <2> DEFINE on == IF Entry(N, w) # {} THEN hn * MissingOdds ELSE IF tn = 0 THEN 1 ELSE tn
             of == IF Entry(F, w) # {} THEN hf * MissingOdds ELSE IF tf = 0 THEN 1 ELSE tf
  <2>1. on \in Nat /\ of \in Nat
    <3>1. hn * MissingOdds \in Nat /\ hf * MissingOdds \in Nat
      BY <1>1, <1>4, SumsAndProducts
    <3> QED BY <1>4, <3>1
  <2> HIDE DEF on, of
  <2>2. Power(on, Weight(s)) \in Nat /\ Power(of, FuzzyWeight) \in Nat
    BY <1>1, <2>1, PowerIsNat
  <2>3. Power(on, Weight(s)) * Power(of, FuzzyWeight) \in Nat
    BY <2>2, SumsAndProducts
  <2> QED BY <2>3 DEF ProductScore, on, of, tn, tf, hn, hf
<1>7. PlacesScore(s, N, F, w, 0) \in Nat /\ PlacesScore(s, N, F, w, 60) \in Nat
  BY <1>3
<1>8. CASE strategy = "rank"
  BY <1>7, <1>8, Zenon DEF Scored
<1>9. CASE strategy = "rrf"
  <2>1. Scored(s, N, F, w) = PlacesScore(s, N, F, w, 60)
    BY <1>9 DEF Scored
  <2> QED BY <1>7, <2>1
<1>10. CASE strategy = "linear"
  <2>1. Scored(s, N, F, w) = LinearScore(s, N, F, w)
    BY <1>10 DEF Scored
  <2> QED BY <1>5, <2>1
<1>11. CASE strategy = "loglinear"
  <2>1. Scored(s, N, F, w) = ProductScore(s, N, F, w)
    BY <1>11 DEF Scored
  <2> QED BY <1>6, <2>1
<1> QED BY <1>8, <1>9, <1>10, <1>11 DEF Strategies

-----------------------------------------------------------------------------
(* The order of what is offered.                                           *)

\* A product of three may be taken in any order.
LEMMA Reordered ==
    ASSUME NEW a \in Nat, NEW y \in Nat, NEW z \in Nat
    PROVE  /\ (a * y) * z = (a * z) * y
           /\ (a * y) * z = (y * a) * z
BY Z3

\* Comparing fractions is transitive.
LEMMA FractionsCompare ==
    ASSUME NEW a \in Nat, NEW b \in Nat, NEW c \in Nat,
           NEW x \in Nat \ {0}, NEW y \in Nat \ {0}, NEW z \in Nat \ {0},
           a * y >= b * x, b * z >= c * y
    PROVE  /\ a * z >= c * x
           /\ a * y > b * x \/ b * z > c * y => a * z > c * x
<1>1. a * y \in Nat /\ b * x \in Nat /\ b * z \in Nat /\ c * y \in Nat
      /\ a * z \in Nat /\ c * x \in Nat
  BY SumsAndProducts
<1> DEFINE p == (a * y) * z
           m == (b * x) * z
           l == (c * y) * x
<1>2. p \in Nat /\ m \in Nat /\ l \in Nat
  BY <1>1, SumsAndProducts
<1>3. p >= m /\ (a * y > b * x => p > m)
  BY <1>1, Factors
<1>4. m = (b * z) * x
  BY Reordered
<1>5. m >= l /\ (b * z > c * y => m > l)
  BY <1>1, <1>4, Factors
<1>6. p = (a * z) * y /\ l = (c * x) * y
  BY Reordered
<1> HIDE DEF p, m, l
<1>7. p >= l /\ (a * y > b * x \/ b * z > c * y => p > l)
  BY <1>2, <1>3, <1>5
<1>8. a * z < c * x => p < l
  BY <1>1, <1>6, Factors
<1>9. a * z = c * x => p = l
  BY <1>6
<1> QED BY <1>1, <1>2, <1>7, <1>8, <1>9

\* Words by f over what their demotions bad divide it by, equals as they came.
InFront(K, f, bad, came) ==
    {q \in K \X K : \/ f[q[1]] * (2 + bad[q[2]]) > f[q[2]] * (2 + bad[q[1]])
                    \/ /\ f[q[1]] * (2 + bad[q[2]]) = f[q[2]] * (2 + bad[q[1]])
                       /\ came[q[1]] < came[q[2]]}

\* That is a strict total order.
LEMMA InFrontOrders ==
    ASSUME NEW K, NEW f \in [K -> Nat], NEW came \in [K -> Nat],
           \A v, w \in K : came[v] = came[w] => v = w,
           NEW bad, \A w \in K : bad[w] \in Nat
    PROVE  Orders(InFront(K, f, bad, came), K)
<1> DEFINE R == InFront(K, f, bad, came)
           x == [w \in K |-> 2 + bad[w]]
           a(v, w) == f[v] * x[w]
<1>1. \A w \in K : f[w] \in Nat /\ came[w] \in Nat /\ x[w] \in Nat \ {0}
  OBVIOUS
<1>2. \A v, w \in K : <<v, w>> \in R <=> a(v, w) > a(w, v) \/ (a(v, w) = a(w, v) /\ came[v] < came[w])
  BY DEF InFront
<1>3. \A v, w \in K : a(v, w) \in Nat
  BY <1>1, SumsAndProducts
<1> HIDE DEF R, x
<1>4. ASSUME NEW u \in K, NEW v \in K, NEW w \in K, a(u, v) >= a(v, u), a(v, w) >= a(w, v)
      PROVE  /\ a(u, w) >= a(w, u)
             /\ a(u, v) > a(v, u) \/ a(v, w) > a(w, v) => a(u, w) > a(w, u)
  BY <1>1, <1>4, FractionsCompare
<1> HIDE DEF a
<1>5. \A w \in K : <<w, w>> \notin R
  BY <1>1, <1>2, <1>3
<1>6. ASSUME NEW u \in K, NEW v \in K, NEW w \in K, <<u, v>> \in R, <<v, w>> \in R
      PROVE  <<u, w>> \in R
  <2>1. a(u, v) \in Nat /\ a(v, u) \in Nat /\ a(v, w) \in Nat /\ a(w, v) \in Nat
        /\ a(u, w) \in Nat /\ a(w, u) \in Nat
        /\ came[u] \in Nat /\ came[v] \in Nat /\ came[w] \in Nat
    BY <1>1, <1>3
  <2>2. a(u, v) > a(v, u) \/ (a(u, v) = a(v, u) /\ came[u] < came[v])
    BY <1>2, <1>6
  <2>3. a(v, w) > a(w, v) \/ (a(v, w) = a(w, v) /\ came[v] < came[w])
    BY <1>2, <1>6
  <2>4. a(u, v) >= a(v, u) /\ a(v, w) >= a(w, v)
    BY <2>1, <2>2, <2>3
  <2>5. /\ a(u, w) >= a(w, u)
        /\ a(u, v) > a(v, u) \/ a(v, w) > a(w, v) => a(u, w) > a(w, u)
    BY <1>4, <2>4
  <2>6. a(u, w) > a(w, u) \/ (a(u, w) = a(w, u) /\ came[u] < came[w])
    BY <2>1, <2>2, <2>3, <2>5
  <2> QED BY <1>2, <2>6
<1>7. ASSUME NEW v \in K, NEW w \in K PROVE v = w \/ <<v, w>> \in R \/ <<w, v>> \in R
  <2>1. a(v, w) \in Nat /\ a(w, v) \in Nat /\ came[v] \in Nat /\ came[w] \in Nat
    BY <1>1, <1>3
  <2> QED BY <1>2, <2>1
<1> QED BY <1>5, <1>6, <1>7 DEF Orders, R

\* Marking w bad once more puts nothing behind it that was in front, and
\* leaves the order of the others.
LEMMA BadGoesBack ==
    ASSUME NEW K \in SUBSET RankWords, NEW f \in [K -> Nat], NEW came \in [K -> Nat],
           NEW bad \in [RankWords -> Nat], NEW w \in K, NEW worse \in [RankWords -> Nat],
           worse[w] = bad[w] + 1, \A v \in K \ {w} : worse[v] = bad[v]
    PROVE  /\ \A u, v \in K \ {w} :
                <<u, v>> \in InFront(K, f, bad, came) <=> <<u, v>> \in InFront(K, f, worse, came)
           /\ \A v \in K : v # w /\ <<v, w>> \in InFront(K, f, bad, came)
                             => <<v, w>> \in InFront(K, f, worse, came)
<1>1. \A v \in K : v # w => worse[v] = bad[v]
  OBVIOUS
<1>2. worse[w] = bad[w] + 1
  OBVIOUS
<1>3. \A u, v \in K \ {w} :
        <<u, v>> \in InFront(K, f, bad, came) <=> <<u, v>> \in InFront(K, f, worse, came)
  BY <1>1 DEF InFront
<1>4. ASSUME NEW v \in K, v # w, <<v, w>> \in InFront(K, f, bad, came)
      PROVE  <<v, w>> \in InFront(K, f, worse, came)
  <2> DEFINE a == f[v] * (2 + bad[w])
             b == f[w] * (2 + bad[v])
             c == f[v] * (2 + worse[w])
  <2>1. a > b \/ (a = b /\ came[v] < came[w])
    BY <1>4 DEF InFront
  <2>2. a \in Nat /\ b \in Nat /\ c \in Nat /\ a <= c
    <3>1. f[v] \in Nat /\ f[w] \in Nat /\ 2 + bad[w] \in Nat /\ 2 + bad[v] \in Nat
          /\ 2 + worse[w] \in Nat /\ 2 + bad[w] <= 2 + worse[w]
      BY <1>2
    <3>2. f[v] * (2 + bad[w]) <= f[v] * (2 + worse[w])
      BY <3>1, Factors
    <3> QED BY <3>1, <3>2, SumsAndProducts
  <2> HIDE DEF a, b, c
  <2>3. c > b \/ (c = b /\ came[v] < came[w])
    BY <2>1, <2>2
  <2>4. b = f[w] * (2 + worse[v])
    BY <1>1, <1>4 DEF b
  <2> QED BY <2>3, <2>4 DEF InFront, c
<1> QED BY <1>3, <1>4

\* Where a word came: places in the n-gram's list, then those in the other.
Came(N, F, w) ==
    IF Entry(N, w) # {} THEN The(Entry(N, w)).place ELSE Longest + The(Entry(F, w)).place

LEMMA CameOnce ==
    ASSUME NEW N, IsList(N), NEW F, IsList(F)
    PROVE  LET K == {x.e.word : x \in N \cup F} IN
           /\ K \in SUBSET RankWords
           /\ \A w \in K : Came(N, F, w) \in Nat
           /\ \A v, w \in K : Came(N, F, v) = Came(N, F, w) => v = w
<1> DEFINE K == {x.e.word : x \in N \cup F}
           pn(w) == The(Entry(N, w))
           pf(w) == The(Entry(F, w))
<1>1. K \in SUBSET RankWords
  BY DEF IsList
<1>2. ASSUME NEW w \in K
      PROVE  /\ Entry(N, w) # {} => pn(w) \in N /\ pn(w).e.word = w /\ pn(w).place \in 1..Longest
             /\ Entry(N, w) = {} => pf(w) \in F /\ pf(w).e.word = w /\ pf(w).place \in 1..Longest
  <2>1. Entry(N, w) # {} => pn(w) \in N /\ pn(w).e.word = w /\ pn(w).place \in 1..Longest
    BY EntryOfList
  <2>2. ASSUME Entry(N, w) = {} PROVE Entry(F, w) # {}
    <3>1. PICK x \in N \cup F : w = x.e.word
      OBVIOUS
    <3> QED BY <2>2, <3>1 DEF Entry
  <2>3. Entry(N, w) = {} => pf(w) \in F /\ pf(w).e.word = w /\ pf(w).place \in 1..Longest
    BY <2>2, EntryOfList
  <2> QED BY <2>1, <2>3
<1> HIDE DEF pn, pf, K
<1>3. \A w \in K : Came(N, F, w) = IF Entry(N, w) # {} THEN pn(w).place ELSE Longest + pf(w).place
  BY DEF Came, pn, pf
<1>4. Longest \in Nat
  BY RankingConstants
<1>5. ASSUME NEW w \in K PROVE Came(N, F, w) \in Nat
  <2>1. CASE Entry(N, w) # {}
    BY <1>2, <1>3, <1>4, <2>1
  <2>2. CASE Entry(N, w) = {}
    <3> DEFINE i == pf(w).place
    <3>1. i \in 1..Longest /\ Came(N, F, w) = Longest + i
      BY <1>2, <1>3, <2>2
    <3> HIDE DEF i
    <3> QED BY <1>4, <3>1
  <2> QED BY <2>1, <2>2
<1>6. ASSUME NEW v \in K, NEW w \in K, Came(N, F, v) = Came(N, F, w)
      PROVE  v = w
  <2>1. CASE Entry(N, v) # {} /\ Entry(N, w) # {}
    <3>1. pn(v).place = pn(w).place /\ pn(v) \in N /\ pn(w) \in N
      BY <1>2, <1>3, <1>6, <2>1
    <3>2. pn(v) = pn(w)
      BY <3>1 DEF IsList
    <3> QED BY <1>2, <2>1, <3>2
  <2>2. CASE Entry(N, v) = {} /\ Entry(N, w) = {}
    <3> DEFINE i == pf(v).place
               j == pf(w).place
    <3>1. Longest + i = Longest + j /\ i \in 1..Longest /\ j \in 1..Longest
      BY <1>2, <1>3, <1>6, <2>2
    <3>2. i = j
      <4> HIDE DEF i, j
      <4> QED BY <1>4, <3>1
    <3>3. pf(v) = pf(w)
      BY <1>2, <2>2, <3>2 DEF IsList
    <3> QED BY <1>2, <2>2, <3>3
  <2>3. ASSUME NEW a \in K, NEW b \in K, Entry(N, a) # {}, Entry(N, b) = {}
        PROVE  Came(N, F, a) # Came(N, F, b)
    <3> DEFINE i == pn(a).place
               j == pf(b).place
    <3>1. Came(N, F, a) = i /\ Came(N, F, b) = Longest + j /\ i \in 1..Longest /\ j \in 1..Longest
      BY <1>2, <1>3, <2>3
    <3> HIDE DEF i, j
    <3> QED BY <1>4, <3>1
  <2> QED BY <1>6, <2>1, <2>2, <2>3
<1> QED BY <1>1, <1>5, <1>6 DEF K

-----------------------------------------------------------------------------

\* What the lists of a situation are cut from is kept whatever is marked bad.
Keeps(s, n) ==
    {w \in {x.e.word : x \in FromNgram(s, n) \cup FromFuzzy(s, n)} :
        (s.next => NextWordAllowed(w)) /\ ~HeldBack(w)}
ScoreOf(s, n) ==
    [w \in Keeps(s, n) |-> Scored(s, FromNgram(s, n), FromFuzzy(s, n), w)]
CameAt(s, n) == [w \in Keeps(s, n) |-> Came(FromNgram(s, n), FromFuzzy(s, n), w)]

\* The lists of a situation are lists.
LEMMA SituationLists ==
    ASSUME NEW s \in Situations, NEW n \in Sizes
    PROVE  IsList(FromNgram(s, n)) /\ IsList(FromFuzzy(s, n))
<1> DEFINE T == [word : RankWords, p : Nat]
<1>1. n \in Nat /\ 2 * n \in Nat
  BY RankingConstants
<1>2. s.ngram \in Seq(T) /\ Len(s.ngram) <= Longest /\ s.fuzzy \in Seq(T) /\ Len(s.fuzzy) <= Longest
  BY RankingConstants
<1>3. IsList({})
  BY FS_EmptySet DEF IsList
<1>4. IsList(FromNgram(s, n))
  BY <1>1, <1>2, ListedIsList DEF FromNgram
<1>5. \A kept : IsList(Listed(FirstOf(s.fuzzy, n), kept))
  BY <1>1, <1>2, ListedIsList
<1>6. IsList(FromFuzzy(s, n))
  BY <1>3, <1>5, Zenon DEF FromFuzzy
<1> QED BY <1>4, <1>6

\* What the proofs need to know of a situation.
LEMMA SituationParts ==
    ASSUME strategy \in Strategies, NEW s \in Situations, NEW n \in Sizes
    PROVE  /\ Keeps(s, n) \in SUBSET RankWords /\ IsFiniteSet(Keeps(s, n))
           /\ ScoreOf(s, n) \in [Keeps(s, n) -> Nat] /\ CameAt(s, n) \in [Keeps(s, n) -> Nat]
           /\ \A v, w \in Keeps(s, n) : CameAt(s, n)[v] = CameAt(s, n)[w] => v = w
<1> DEFINE N == FromNgram(s, n)
           F == FromFuzzy(s, n)
           W == {x.e.word : x \in N \cup F}
           K == Keeps(s, n)
<1>1. IsList(N) /\ IsList(F)
  BY SituationLists
<1>2. /\ W \in SUBSET RankWords
      /\ \A w \in W : Came(N, F, w) \in Nat
      /\ \A v, w \in W : Came(N, F, v) = Came(N, F, w) => v = w
  <2> HIDE DEF N, F
  <2> QED BY <1>1, CameOnce
<1>3. K \in SUBSET W
  BY DEF Keeps
<1>4. \A w \in RankWords : Scored(s, N, F, w) \in Nat
  <2> HIDE DEF N, F
  <2> QED BY <1>1, ScoredIsNat
<1> HIDE DEF W, K
<1>5. K \in SUBSET RankWords /\ IsFiniteSet(K)
  BY <1>2, <1>3, RankingConstants, FS_Subset
<1>6. ScoreOf(s, n) \in [K -> Nat]
  BY <1>4, <1>5 DEF ScoreOf, K
<1>7. CameAt(s, n) \in [K -> Nat] /\ \A v, w \in K : CameAt(s, n)[v] = CameAt(s, n)[w] => v = w
  <2>1. CameAt(s, n) = [w \in K |-> Came(N, F, w)]
    BY DEF CameAt, K
  <2> HIDE DEF N, F
  <2> QED BY <1>2, <1>3, <2>1
<1> QED BY <1>5, <1>6, <1>7 DEF K

\* What is offered are the first of what is kept.
LEMMA OfferedIsFirst ==
    ASSUME strategy \in Strategies, NEW s \in Situations, NEW n \in Sizes,
           NEW bad \in [RankWords -> Nat]
    PROVE  IsFirst(Offered(s, n, bad), n, Keeps(s, n),
                   InFront(Keeps(s, n), ScoreOf(s, n), bad, CameAt(s, n)))
<1> DEFINE N == FromNgram(s, n)
           F == FromFuzzy(s, n)
           W == {x.e.word : x \in N \cup F}
           score == [w \in W |-> Scored(s, N, F, w)]
           came(w) == IF Entry(N, w) # {} THEN The(Entry(N, w)).place
                      ELSE Longest + The(Entry(F, w)).place
           S == {w \in DOMAIN score : (s.next => NextWordAllowed(w)) /\ ~HeldBack(w)}
           Fronts(x) == {y \in S : \/ score[y] * (2 + bad[x]) > score[x] * (2 + bad[y])
                                   \/ /\ score[y] * (2 + bad[x]) = score[x] * (2 + bad[y])
                                      /\ came(y) < came(x)}
           l == IF Cardinality(S) < n THEN Cardinality(S) ELSE n
           q == [i \in 1..l |-> CHOOSE x \in S : Cardinality(Fronts(x)) = i - 1]
           K == Keeps(s, n)
           f == ScoreOf(s, n)
           g == CameAt(s, n)
           R == InFront(K, f, bad, g)
<1>1. Offered(s, n, bad) = q
  BY Zenon DEF Offered, FirstBy
<1>2. S = K
  BY DEF Keeps
<1>3. \A x \in S : score[x] = f[x] /\ came(x) = g[x]
  BY <1>2 DEF ScoreOf, CameAt, Came
<1>4. /\ K \in SUBSET RankWords /\ IsFiniteSet(K) /\ f \in [K -> Nat] /\ g \in [K -> Nat]
      /\ \A v, w \in K : g[v] = g[w] => v = w
  BY SituationParts
<1> HIDE DEF N, F, W, score, came, S, K, f, g
<1>5. \A x \in S : Fronts(x) = Earlier(x, K, R)
  BY <1>2, <1>3 DEF Earlier, InFront
<1>6. Orders(R, K)
  BY <1>4, InFrontOrders
<1> HIDE DEF R, Fronts
<1>7. Cardinality(K) \in Nat /\ n \in Nat
  BY <1>4, <1>6, RankBounds, RankingConstants
<1>8. ASSUME NEW i \in 1..l
      PROVE  q[i] \in S /\ RankIn(q[i], K, R) = i - 1
  <2>1. i - 1 \in 0..(Cardinality(K) - 1)
    BY <1>2, <1>7
  <2>2. PICK x \in K : RankIn(x, K, R) = i - 1
    BY <1>4, <1>6, <2>1, RankIsTaken
  <2>3. Cardinality(Fronts(x)) = i - 1
    BY <1>2, <1>5, <2>2 DEF RankIn
  <2>4. q[i] \in S /\ Cardinality(Fronts(q[i])) = i - 1
    <3> HIDE DEF l
    <3> QED BY <1>2, <2>2, <2>3
  <2> QED BY <1>5, <2>4 DEF RankIn
<1>9. q = [i \in 1..l |-> q[i]]
  <2> HIDE DEF l
  <2> QED OBVIOUS
<1>10. l = IF Cardinality(K) < n THEN Cardinality(K) ELSE n
  BY <1>2
<1> HIDE DEF q, l
<1>11. IsFirst(q, n, K, R)
  BY <1>2, <1>8, <1>9, <1>10 DEF IsFirst
<1> QED BY <1>1, <1>11 DEF R, K, f, g

-----------------------------------------------------------------------------

RankingTyped == strategy \in Strategies /\ demoted \in [RankWords -> Nat]

LEMMA RankingTypedHolds == RankingInit /\ [][RankingNext]_rankingVars => []RankingTyped
<1>1. RankingInit => RankingTyped
  BY DEF RankingInit, RankingTyped, NoDemotions
<1>2. RankingTyped /\ [RankingNext]_rankingVars => RankingTyped'
  <2> SUFFICES ASSUME RankingTyped, [RankingNext]_rankingVars PROVE RankingTyped'
    OBVIOUS
  <2>1. ASSUME NEW w \in RankWords, MarkBad(w) PROVE RankingTyped'
    BY <2>1 DEF RankingTyped, MarkBad
  <2>2. ASSUME NEW w \in RankWords, Undisprefer(w) PROVE RankingTyped'
    BY <2>2 DEF RankingTyped, Undisprefer
  <2>3. CASE ClearRanking
    BY <2>3 DEF RankingTyped, ClearRanking, NoDemotions
  <2>4. CASE ChangeSettings
    BY <2>4 DEF RankingTyped, ChangeSettings
  <2>5. ASSUME NEW w \in RankWords,
               RemoveWord(w) \/ RestoreWord(w) \/ TypeRemoved(w) \/ AdoptFlagged(w)
        PROVE  RankingTyped'
    BY <2>5 DEF RankingTyped, RemoveWord, RestoreWord, TypeRemoved, AdoptFlagged
  <2>6. CASE UNCHANGED rankingVars
    BY <2>6 DEF RankingTyped, rankingVars
  <2> QED BY <2>1, <2>2, <2>3, <2>4, <2>5, <2>6 DEF RankingNext
<1> QED BY <1>1, <1>2, PTL

\* One word marked bad, in one situation.
LEMMA DemotionLowersHere ==
    ASSUME RankingTyped, NEW s \in Situations, NEW n \in Sizes,
           NEW w \in ToSet(Offered(s, n, demoted))
    PROVE  LET was == Offered(s, n, demoted)
               now == Offered(s, n, [demoted EXCEPT ![w] = @ + 1])
           IN /\ IsPrefix(RemoveFirst(was, w), RemoveFirst(now, w))
              /\ \A i \in DOMAIN now : now[i] = w => \E j \in 1..i : was[j] = w
<1> DEFINE worse == [demoted EXCEPT ![w] = @ + 1]
           was == Offered(s, n, demoted)
           now == Offered(s, n, worse)
           K == Keeps(s, n)
           f == ScoreOf(s, n)
           g == CameAt(s, n)
           R == InFront(K, f, demoted, g)
           Q == InFront(K, f, worse, g)
<1>1. /\ K \in SUBSET RankWords /\ IsFiniteSet(K) /\ f \in [K -> Nat] /\ g \in [K -> Nat]
      /\ \A u, v \in K : g[u] = g[v] => u = v
  BY SituationParts DEF RankingTyped
<1>2. demoted \in [RankWords -> Nat] /\ worse \in [RankWords -> Nat]
  <2>1. demoted \in [RankWords -> Nat]
    BY DEF RankingTyped
  <2>2. \A v \in RankWords : worse[v] \in Nat
    BY <2>1
  <2>3. worse = [v \in RankWords |-> worse[v]]
    BY <2>1
  <2> HIDE DEF worse
  <2> QED BY <2>1, <2>2, <2>3
<1>3. IsFirst(was, n, K, R) /\ IsFirst(now, n, K, Q)
  BY <1>2, OfferedIsFirst DEF RankingTyped
<1>4. n \in Nat \ {0}
  BY RankingConstants
<1>5. w \in ToSet(was)
  OBVIOUS
<1>6. worse = [demoted EXCEPT ![w] = @ + 1]
  OBVIOUS
<1> HIDE DEF worse, was, now, K, f, g
<1>7. Orders(R, K) /\ Orders(Q, K)
  <2>1. \A v \in K : demoted[v] \in Nat /\ worse[v] \in Nat
    BY <1>1, <1>2
  <2> QED BY <1>1, <2>1, InFrontOrders
<1>8. w \in K
  <2> HIDE DEF R, Q
  <2>1. ToSet(was) = {x \in K : RankIn(x, K, R) < n}
    BY <1>1, <1>3, <1>4, <1>7, FirstHas
  <2> QED BY <1>5, <2>1
<1>9. /\ \A u, v \in K \ {w} : <<u, v>> \in R <=> <<u, v>> \in Q
      /\ \A v \in K : v # w /\ <<v, w>> \in R => <<v, w>> \in Q
  <2>1. /\ \A u, v \in K \ {w} : <<u, v>> \in InFront(K, f, demoted, g)
                                    <=> <<u, v>> \in InFront(K, f, worse, g)
        /\ \A v \in K : v # w /\ <<v, w>> \in InFront(K, f, demoted, g)
                          => <<v, w>> \in InFront(K, f, worse, g)
    <3>1. worse[w] = demoted[w] + 1 /\ \A v \in K \ {w} : worse[v] = demoted[v]
      BY <1>1, <1>2, <1>6, <1>8
    <3> HIDE DEF R, Q
    <3> QED BY <1>1, <1>2, <1>8, <3>1, BadGoesBack
  <2> HIDE DEF K, f, g
  <2> QED BY <2>1
<1>10. \A v \in K : <<v, w>> \in R => <<v, w>> \in Q
  <2>1. <<w, w>> \notin R
    BY <1>7, <1>8 DEF Orders
  <2> QED BY <1>9, <2>1
<1> HIDE DEF R, Q
<1>11. /\ IsPrefix(RemoveFirst(was, w), RemoveFirst(now, w))
       /\ \A i \in DOMAIN now : now[i] = w => \E j \in 1..i : was[j] = w
  BY <1>1, <1>3, <1>4, <1>5, <1>7, <1>8, <1>9, <1>10, MovedBack
<1> QED BY <1>11 DEF was, now, worse

\* Whatever the user removed, restored, marked, typed or set before, and
\* whichever strategy fuses the lists, marking an offered word bad never raises
\* it, and leaves the others as they stood.
THEOREM DemotionOnlyLowers ==
    RankingInit /\ [][RankingNext]_rankingVars => []DemotionNeverRaises
<1>1. RankingTyped => DemotionNeverRaises
  <2> SUFFICES ASSUME RankingTyped, NEW s \in Situations, NEW n \in Sizes,
                      NEW w \in ToSet(Offered(s, n, demoted))
               PROVE  LET was == Offered(s, n, demoted)
                          now == Offered(s, n, [demoted EXCEPT ![w] = @ + 1])
                      IN /\ IsPrefix(RemoveFirst(was, w), RemoveFirst(now, w))
                         /\ \A i \in DOMAIN now : now[i] = w => \E j \in 1..i : was[j] = w
    BY Zenon DEF DemotionNeverRaises
  <2> QED BY DemotionLowersHere
<1> QED BY <1>1, RankingTypedHolds, PTL

\* The same beside the other engines.
THEOREM DemotionOnlyLowersInTheEngine == PredictionSpec => []RunDemotionNeverRaises
<1>1. PredictionInit => RankingInit
  BY DEF PredictionInit
<1>2. [PredictionNext]_<<engine, vars, contextVars, indexVars, nextWordsVars, rankingVars>>
        => [RankingNext]_rankingVars
  BY DEF PredictionNext
<1>3. DemotionNeverRaises => RunDemotionNeverRaises
  BY DEF RunDemotionNeverRaises
<1> QED BY <1>1, <1>2, <1>3, DemotionOnlyLowers, PTL DEF PredictionSpec
=============================================================================
