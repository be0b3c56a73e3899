--------------------------- MODULE VocabularyGate ---------------------------
(***************************************************************************)
(* What typing teaches NgramPredictor, and what the bridge hands it.  A    *)
(* known word (base dictionary or already the user's) is counted at once;  *)
(* an unknown one waits in the candidate pool until it has been sighted    *)
(* often enough.  The bridge learns the whole running sentence at every    *)
(* boundary, and retracts one sighting when Backspace goes back into a     *)
(* word.  The n-gram's pairs, the blacklist and the other engines are left *)
(* out; every word is plausible (_is_plausible_word).                      *)
(***************************************************************************)
EXTENDS Integers, Sequences, FiniteSets, FiniteSetsExt

CONSTANTS
    Words,          \* the words typed
    Base,           \* those of the shipped dictionary (or corpus prior)
    Threshold,      \* _candidate_threshold
    Boost,          \* what learn_word and a pill tap add (5 in the code)
    DecayInterval,  \* _decay_interval, in learn() calls
    DecayNum,       \* _decay_factor is DecayNum / DecayDen
    DecayDen,
    Boosted,        \* bound: the words an explicit signal boosts
    MaxCount,       \* bound: the learned part of a merged count
    MaxBase,        \* bound: the same for a base word
    MaxSentence,    \* bound: words in _sentence_buffer
    MaxContext      \* words _context_buffer keeps (200 characters)

ASSUME ConstantsAssumption ==
    /\ Base \subseteq Words /\ Boosted \subseteq Words
    /\ Threshold \in Nat \ {0} /\ Boost \in Nat \ {0} /\ DecayInterval \in Nat \ {0}
    /\ DecayDen \in Nat \ {0} /\ DecayNum \in 0..DecayDen
    /\ MaxCount \in Nat /\ MaxBase \in Nat /\ MaxSentence \in Nat /\ MaxContext \in Nat

VARIABLES
    user,        \* user_vocab
    merged,      \* unigrams, less the count a base word ships with
    userTotal,   \* _user_total
    candidates,  \* _candidate_counts
    lastSeen,    \* _candidate_last_seen: "none", "recent", or "old" once
                 \* _candidate_max_age_seconds have passed
    preferred,   \* preferred
    learnCount,  \* _learn_count
    sentence,    \* words of _sentence_buffer
    context      \* words and marks of _context_buffer

tables == <<user, merged, userTotal, candidates, lastSeen>>
buffers == <<sentence, context>>
vars == <<tables, preferred, learnCount, buffers>>

Mark == "."

TypeOK ==
    /\ user \in [Words -> Nat] /\ merged \in [Words -> Nat]
    /\ userTotal \in Nat
    /\ candidates \in [Words -> 0..(Threshold - 1)]
    /\ lastSeen \in [Words -> {"none", "recent", "old"}]
    /\ preferred \in [Words -> Nat]
    /\ learnCount \in 0..(DecayInterval - 1)
    /\ sentence \in Seq(Words) /\ context \in Seq(Words \cup {Mark})

\* Bounds what the runs explore.
Bounded == \A w \in Words : merged[w] <= IF w \in Base THEN MaxBase ELSE MaxCount

Zero == [w \in Words |-> 0]

\* A fresh model, or one saved before candidates were time-stamped.
Init ==
    /\ candidates \in [Words -> 0..(Threshold - 1)]
    /\ \A w \in Base : candidates[w] = 0
    /\ user = Zero /\ merged = Zero /\ userTotal = 0
    /\ lastSeen = [w \in Words |-> "none"]
    /\ preferred = Zero /\ learnCount = 0
    /\ sentence = <<>> /\ context = <<>>

-----------------------------------------------------------------------------
(* learn(text) and its decay.                                              *)

Known(w) == w \in Base \/ user[w] > 0

Occurrences(s, w) == Cardinality({i \in DOMAIN s : s[i] = w})

\* Does an unknown word sighted n times now pass the gate?
Promoted(w, n) == ~Known(w) /\ n > 0 /\ candidates[w] + n >= Threshold

\* What n sightings of weight k each add to its count.
Gain(w, n, k) == IF Known(w) THEN n * k
                 ELSE IF Promoted(w, n) THEN (candidates[w] + n) * k ELSE 0

\* The tables after sightings n[w] of weight k, before any decay.
UserAfter(n, k) == [w \in Words |-> user[w] + Gain(w, n[w], k)]
MergedOfThisCall(n, k) ==
    [w \in Words |-> merged[w] + IF Known(w) \/ Promoted(w, n[w]) THEN n[w] * k ELSE 0]
MergedAfter(n, k) == [w \in Words |-> merged[w] + Gain(w, n[w], k)]
TotalAfter(n, k) == userTotal + MapThenSumSet(LAMBDA w : Gain(w, n[w], k), Words)
CandidatesAfter(n) ==
    [w \in Words |-> IF Known(w) THEN candidates[w]
                     ELSE IF Promoted(w, n[w]) THEN 0 ELSE candidates[w] + n[w]]
SeenAfter(n) ==
    [w \in Words |-> IF Known(w) \/ n[w] = 0 THEN lastSeen[w]
                     ELSE IF Promoted(w, n[w]) THEN "none" ELSE "recent"]

\* int(n * _decay_factor)
Decayed(n) == (n * DecayNum) \div DecayDen

\* _user_total is summed afresh while the counts decay.
TotalDecayed(u, total) == MapThenSumSet(LAMBDA w : Decayed(u[w]), Words)

\* _sweep_stale_candidates, then the multiplicative decay of the pool; an
\* entry without a time stamp is only stamped.
Swept(c, seen, w) == c[w] > 0 /\ seen[w] = "old"
CandidatesDecayed(c, seen) ==
    [w \in Words |-> IF Swept(c, seen, w) THEN 0 ELSE Decayed(c[w])]
SeenDecayed(c, seen) ==
    [w \in Words |-> IF c[w] = 0 THEN seen[w]
                     ELSE IF Swept(c, seen, w) \/ Decayed(c[w]) = 0 THEN "none"
                     ELSE IF seen[w] = "none" THEN "recent" ELSE seen[w]]

\* Every DecayInterval-th call ends in _apply_decay.
LearnTables(n) ==
    LET u == UserAfter(n, 1)  c == CandidatesAfter(n)  seen == SeenAfter(n)
        t == TotalAfter(n, 1)
    IN /\ merged' = MergedAfter(n, 1)
       /\ IF learnCount + 1 < DecayInterval
          THEN /\ user' = u /\ userTotal' = t
               /\ candidates' = c /\ lastSeen' = seen
               /\ learnCount' = learnCount + 1
          ELSE /\ user' = [w \in Words |-> Decayed(u[w])]
               /\ userTotal' = TotalDecayed(u, t)
               /\ candidates' = CandidatesDecayed(c, seen)
               /\ lastSeen' = SeenDecayed(c, seen)
               /\ learnCount' = 0
    /\ Bounded'

\* learn(s), which returns at once when there is nothing in s.
Learn(s) ==
    IF s = <<>> THEN UNCHANGED <<tables, learnCount>>
    ELSE LearnTables([w \in Words |-> Occurrences(s, w)])

-----------------------------------------------------------------------------
(* The bridge.                                                             *)

\* The context is cut to its last MaxContext entries.
Grow(s) ==
    LET all == context \o s  n == Len(all)
    IN context' = SubSeq(all, IF n > MaxContext THEN n - MaxContext + 1 ELSE 1, n)

\* A word and a space: the running sentence is learned, and goes on.
TypeSpace(w) ==
    /\ Len(sentence) < MaxSentence
    /\ sentence' = Append(sentence, w)
    /\ Grow(<<w>>)
    /\ Learn(sentence')
    /\ UNCHANGED preferred

\* A word and a comma: it joins the sentence for the next boundary.
TypeComma(w) ==
    /\ Len(sentence) < MaxSentence
    /\ sentence' = Append(sentence, w)
    /\ Grow(<<Mark>>)
    /\ UNCHANGED <<tables, preferred, learnCount>>

\* A word and Return, or Return alone: the sentence is learned and ends.
TypeReturn(ws) ==
    /\ Learn(sentence \o ws)
    /\ sentence' = <<>>
    /\ Grow(ws)
    /\ UNCHANGED preferred

\* A word and a full stop: the same, but the word leaves the context.
TypeStop(w) ==
    /\ Learn(Append(sentence, w))
    /\ sentence' = <<>>
    /\ Grow(<<Mark>>)
    /\ UNCHANGED preferred

TakeAway(w) ==
    /\ user' = [user EXCEPT ![w] = @ - 1]
    /\ merged' = [merged EXCEPT ![w] = @ - 1]
    /\ userTotal' = userTotal - 1

\* unlearn_word: one sighting less, of the candidate if it is one.  The
\* sentence buffer keeps the word.
UnlearnWord(w) ==
    IF candidates[w] > 0
    THEN candidates' = [candidates EXCEPT ![w] = @ - 1] /\ UNCHANGED <<user, merged, userTotal>>
    ELSE IF user[w] > 0 THEN TakeAway(w) /\ UNCHANGED candidates
    ELSE UNCHANGED <<user, merged, userTotal, candidates>>

\* Backspace into the last word of the context.
BackspaceIntoWord ==
    /\ context # <<>>
    /\ UNCHANGED <<preferred, learnCount, sentence>>
    /\ LET w == context[Len(context)] IN
         /\ context' = SubSeq(context, 1, Len(context) - 1)
         /\ IF w = Mark THEN UNCHANGED tables
            ELSE UnlearnWord(w) /\ UNCHANGED lastSeen

\* _reset_typing_context
ResetContext ==
    /\ sentence' = <<>> /\ context' = <<>>
    /\ UNCHANGED <<tables, preferred, learnCount>>

-----------------------------------------------------------------------------
(* Explicit signals.                                                       *)

Only(w) == [v \in Words |-> IF v = w THEN 1 ELSE 0]

\* A pill is tapped: learn_from_pill_click, and a context that grows.
TapPill(w) ==
    /\ LET n == Only(w) IN
         /\ user' = UserAfter(n, Boost) /\ merged' = MergedAfter(n, Boost)
         /\ userTotal' = TotalAfter(n, Boost)
         /\ candidates' = CandidatesAfter(n) /\ lastSeen' = SeenAfter(n)
    /\ Bounded'
    /\ Grow(<<w>>)
    /\ UNCHANGED <<preferred, learnCount, sentence>>

LearnWordKeepsCandidate(w) ==
    /\ user' = [user EXCEPT ![w] = @ + Boost]
    /\ merged' = [merged EXCEPT ![w] = @ + Boost]
    /\ userTotal' = userTotal + Boost
    /\ UNCHANGED <<candidates, lastSeen>>

\* learn_word: past the gate, and out of the candidate pool.
LearnWord(w) ==
    /\ user' = [user EXCEPT ![w] = @ + Boost]
    /\ merged' = [merged EXCEPT ![w] = @ + Boost]
    /\ userTotal' = userTotal + Boost
    /\ candidates' = [candidates EXCEPT ![w] = 0]
    /\ lastSeen' = [lastSeen EXCEPT ![w] = "none"]

\* mark_good ("Show more") remembers the boost, a correction in the
\* prediction editor does not.
BoostWord(w) ==
    /\ LearnWord(w) /\ Bounded'
    /\ preferred' \in {preferred, [preferred EXCEPT ![w] = @ + Boost]}
    /\ UNCHANGED <<learnCount, buffers>>

\* What unprefer takes back: no more than decay and retractions have left.
Rollback(w) == IF preferred[w] < user[w] THEN preferred[w] ELSE user[w]

\* unprefer
Unprefer(w) ==
    /\ preferred[w] > 0
    /\ user' = [user EXCEPT ![w] = @ - Rollback(w)]
    /\ merged' = [merged EXCEPT ![w] = @ - Rollback(w)]
    /\ userTotal' = userTotal - Rollback(w)
    /\ preferred' = [preferred EXCEPT ![w] = 0]
    /\ UNCHANGED <<candidates, lastSeen, learnCount, buffers>>

\* clear_user_data.  The bridge's buffers outlive it, and the next boundary
\* teaches the running sentence again.
ClearUserData ==
    /\ user' = Zero /\ merged' = Zero /\ userTotal' = 0
    /\ candidates' = Zero /\ lastSeen' = [w \in Words |-> "none"]
    /\ preferred' = Zero /\ learnCount' = 0
    /\ UNCHANGED buffers

\* _candidate_max_age_seconds pass.
TimePasses ==
    /\ lastSeen' = [w \in Words |-> IF lastSeen[w] = "recent" THEN "old" ELSE lastSeen[w]]
    /\ lastSeen' # lastSeen
    /\ UNCHANGED <<user, merged, userTotal, candidates, preferred, learnCount, buffers>>

\* Quit and start: save and load keep the tables, the clock starts anew, and
\* a time stamp outlives its candidate only until then.
Restart ==
    /\ learnCount' = 0
    /\ lastSeen' = [w \in Words |-> IF candidates[w] = 0 THEN "none" ELSE lastSeen[w]]
    /\ sentence' = <<>> /\ context' = <<>>
    /\ UNCHANGED <<user, merged, userTotal, candidates, preferred>>

-----------------------------------------------------------------------------

Next ==
    \/ \E w \in Words : TypeSpace(w) \/ TypeComma(w) \/ TypeStop(w)
    \/ TypeReturn(<<>>) \/ \E w \in Words : TypeReturn(<<w>>)
    \/ BackspaceIntoWord \/ ResetContext
    \/ \E w \in Words : TapPill(w) \/ Unprefer(w)
    \/ \E w \in Boosted : BoostWord(w)
    \/ ClearUserData \/ TimePasses \/ Restart

Spec == Init /\ [][Next]_vars

-----------------------------------------------------------------------------
(* Properties.                                                             *)

\* A candidate is a word the user does not have yet, so no sighting is ever
\* counted on both sides of the gate.
CandidatesAreUnknown == \A w \in Words : candidates[w] > 0 => ~Known(w)

\* The merged count covers the user's share whatever is retracted, decayed
\* or rolled back, so a base word never sinks below its shipped count.
MergedCoversUser == \A w \in Words : user[w] <= merged[w]

=============================================================================
