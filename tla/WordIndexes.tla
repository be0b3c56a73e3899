---------------------------- MODULE WordIndexes ----------------------------
(***************************************************************************)
(* What the fuzzy recogniser looks words up in.  Its dictionary is indexed *)
(* twice: SymSpell's deletion index, for a finished word, and the prefix   *)
(* index the beam completes a mistyped beginning with.  Both are built in  *)
(* bulk into tables that never change and then kept up with by overlays,   *)
(* since words are learned between two keystrokes.  The beam also holds    *)
(* what it costs to hit one key for another on the layout shown, and knows *)
(* the layout's model by its address.                                      *)
(*                                                                         *)
(* A word is a sequence of letters, letters are numbers; costs are whole   *)
(* numbers, 0 for a hit and negative for every slip.  The beam's width is  *)
(* taken to be enough for every live prefix.                               *)
(***************************************************************************)
EXTENDS Spelling, SequencesExt, FiniteSets, FiniteSetsExt

CONSTANTS
    Letters,      \* a set of numbers
    Dictionary,   \* words that may be known
    Typings,      \* what may be typed
    Builds,       \* the words of a start: the shipped list with a user's
    MaxFreq,      \* bound: a word's frequency
    Edits,        \* max_edit_distance
    IndexedChars, \* prefix_length: letters SymSpell indexes a word by
    TopK,         \* completions kept for a short prefix
    ShortPrefix,  \* precompute_len
    MaxScan,      \* words looked at for a longer prefix
    Layouts,      \* key grids
    HitCost,      \* HitCost[g][c]: the keys within reach of c on grid g and
                  \* what it costs to have meant each
    FreqScore,    \* FREQ_WEIGHT * log1p(f), for each frequency
    OmitCost, ExtraCost, SwapCost, \* of a letter left out, typed once too
                                   \* often, or swapped with the next
    MayBuy,       \* _PROTECT_EDIT_LOGPROB: slips frequency may not make up
    MinTyped, MinDead,             \* MIN_PREFIX and MIN_DEAD_PREFIX
    Addresses     \* where a spatial model may be put

ASSUME IndexConstants ==
    /\ Letters \subseteq Nat /\ Dictionary \subseteq Seq(Letters) \ {<<>>}
    /\ IsFiniteSet(Dictionary) /\ MaxFreq \in Nat
    /\ Edits \in Nat /\ IndexedChars > Edits
    /\ Builds \subseteq [Dictionary -> 0..MaxFreq]
    /\ TopK \in Nat \ {0} /\ ShortPrefix \in Nat /\ MaxScan \in Nat \ {0}
    /\ \A g \in Layouts : \A c \in Letters :
         /\ c \in DOMAIN HitCost[g][c] /\ DOMAIN HitCost[g][c] \subseteq Letters
         /\ HitCost[g][c][c] = 0
         /\ \A k \in DOMAIN HitCost[g][c] : HitCost[g][c][k] \in Int /\ HitCost[g][c][k] <= 0
    /\ FreqScore \in [0..MaxFreq -> Int]
    /\ \A f \in 1..MaxFreq : FreqScore[f - 1] < FreqScore[f]
    /\ {OmitCost, ExtraCost, SwapCost} \subseteq Int
    /\ OmitCost < 0 /\ ExtraCost < 0 /\ SwapCost < 0 /\ MinDead <= MinTyped
    /\ Cardinality(Addresses) >= 2

VARIABLES
    freq,      \* FuzzyWordGenerator.dictionary; 0 for a word it lacks
    packed,    \* words in SymSpell's packed table
    overlay,   \* words in its overlay
    beam,      \* _prefix_beam, or NoBeam
    dirty,     \* _prefix_dirty
    spatial    \* the spatial model: its grid and where it lives

indexVars == <<freq, packed, overlay, beam, dirty, spatial>>

Unknown == [w \in Dictionary |-> 0]
KnownIn(d) == {w \in Dictionary : d[w] > 0}

AllBeginnings == UNION {Beginnings(w) : w \in Dictionary}

\* (frequency, word) rows, best first.
Better(x, y) == x[1] > y[1] \/ (x[1] = y[1] /\ Before(y[2], x[2]))
Best(k, rows) == FirstBy(k, rows, Better)

-----------------------------------------------------------------------------
(* PrefixIndex: a base that is built once, and overlays.                   *)

\* The completions of a prefix of any length, read from the sorted words
\* from the first that does not come before the prefix.
Scanned(d, p) ==
    LET seen == ToSet(FirstBy(MaxScan, {w \in KnownIn(d) : ~Before(w, p)}, Before))
    IN Best(TopK, {<<d[w], w>> : w \in {v \in seen : StartsWith(v, p)}})

TopRow(d, p) == Best(TopK, {<<d[w], w>> : w \in {v \in KnownIn(d) : StartsWith(v, p)}})

Short == {p \in AllBeginnings : Len(p) <= ShortPrefix}

NewIndex(d) ==
    [base |-> d, freq |-> d, live |-> {}, children |-> [p \in AllBeginnings |-> {}],
     override |-> [p \in Short |-> <<>>]]

InBase(ix, p) == \E w \in KnownIn(ix.base) : StartsWith(w, p)
IsLive(ix, p) == p \in ix.live \/ InBase(ix, p)
Children(ix, p) ==
    ix.children[p] \cup
        {w[Len(p) + 1] : w \in {v \in KnownIn(ix.base) : StartsWith(v, p) /\ v # p}}
BaseRow(ix, p) ==
    LET r == TopRow(ix.base, p) IN [i \in DOMAIN r |-> <<ix.freq[r[i][2]], r[i][2]>>]
Completions(ix, p) ==
    IF Len(p) > ShortPrefix THEN Scanned(ix.freq, p)
    ELSE IF ix.override[p] # <<>> THEN ix.override[p] ELSE BaseRow(ix, p)

\* (Slip) The first row that overrides a prefix forgets the packed one.
OverrideAlone(ix, w, n, p) ==
    Best(TopK, {r \in ToSet(ix.override[p]) : r[2] # w} \cup {<<n, w>>})

\* The row of a short prefix of w once w has frequency n.
OverrideWith(ix, w, n, p) ==
    LET row == IF ix.override[p] # <<>> THEN ix.override[p] ELSE BaseRow(ix, p)
    IN Best(TopK, {r \in ToSet(row) : r[2] # w} \cup {<<n, w>>})

\* update_word, for a frequency that is a raise.
WithWord(ix, w, n) ==
    LET fresh == IF ix.freq[w] = 0 THEN Beginnings(w) ELSE {}
    IN [base |-> ix.base,
        freq |-> [ix.freq EXCEPT ![w] = n],
        live |-> ix.live \cup {p \in fresh : ~InBase(ix, p)},
        children |-> [p \in AllBeginnings |->
            ix.children[p] \cup IF p \in fresh /\ p # w THEN {w[Len(p) + 1]} ELSE {}],
        override |-> [p \in Short |->
            IF StartsWith(w, p) THEN OverrideWith([ix EXCEPT !.freq[w] = n], w, n, p)
            ELSE ix.override[p]]]

-----------------------------------------------------------------------------
(* SymSpell.                                                               *)

Head7(w) == SubSeq(w, 1, IF Len(w) < IndexedChars THEN Len(w) ELSE IndexedChars)

\* A word's indexed letters with up to n of them deleted, never all.
Deleted(w, n) ==
    LET h == Head7(w) IN
    {SetToSortSeq(keep, <) : keep \in {s \in SUBSET DOMAIN h : Cardinality(s) >= Len(h) - n /\ s # {}}}
Variants(w, n) == LET h == Head7(w) IN {[i \in DOMAIN k |-> h[k[i]]] : k \in Deleted(w, n)}

Min3(a, b, c) == IF a <= b /\ a <= c THEN a ELSE IF b <= c THEN b ELSE c

\* damerau_levenshtein by rows, without its early end.  A row is indexed
\* from 1: row[j + 1] compares with the first j letters of b.
NextRow(a, b, i, rows) ==
    LET prev == rows[2]
        Cell(row, j) ==
            LET cost == IF a[i] = b[j] THEN 0 ELSE 1
                plain == Min3(row[j] + 1, prev[j + 1] + 1, prev[j] + cost)
                swapped == rows[1][j - 1] + cost
            IN IF i > 1 /\ j > 1 /\ a[i] = b[j - 1] /\ a[i - 1] = b[j] /\ swapped < plain
               THEN swapped ELSE plain
    IN <<prev, FoldLeft(LAMBDA row, j : Append(row, Cell(row, j)), <<i>>, [j \in DOMAIN b |-> j])>>

Distance(a, b) ==
    LET first == [j \in 1..(Len(b) + 1) |-> j - 1]
    IN FoldLeft(LAMBDA rows, i : NextRow(a, b, i, rows), <<first, first>>,
                [i \in DOMAIN a |-> i])[2][Len(b) + 1]

Distances == [t \in Typings, w \in Dictionary |-> Distance(t, w)]
Meets == [t \in Typings, w \in Dictionary |-> Variants(t, Edits) \cap Variants(w, Edits) # {}]

\* lookup(t), less the order of the result.
Found(t) == {w \in packed \cup overlay : Meets[t, w] /\ Distances[t, w] <= Edits}

-----------------------------------------------------------------------------
(* The recogniser's dictionary.                                            *)

NoBeam == [index |-> NewIndex(Unknown), grid |-> "none", address |-> "none"]

Sooner(m, n) == IF m > n THEN m ELSE n
Raise(d, e) == [w \in Dictionary |-> Sooner(d[w], e[w])]

\* _ensure_prefix_beam: an index over the dictionary unless there is one,
\* and a beam on it unless it is for the model at this address.
Ensured(b, d, stale, model) ==
    IF b # NoBeam /\ ~stale /\ b.address = model.address THEN b
    ELSE [index |-> IF b # NoBeam /\ ~stale THEN b.index ELSE NewIndex(d),
          grid |-> model.grid, address |-> model.address]

\* The startup sequence, which a clearing, an import and an un-boost run
\* again after reset_dictionary: the words in, both indexes built.
BuiltFor(d) ==
    /\ freq' = d /\ packed' = KnownIn(d) /\ overlay' = {} /\ dirty' = FALSE

IndexInit ==
    /\ \E d \in Builds : freq = d /\ packed = KnownIn(d)
    /\ overlay = {} /\ dirty = FALSE
    /\ \E g \in Layouts, a \in Addresses : spatial = [grid |-> g, address |-> a]
    /\ beam = Ensured(NoBeam, freq, TRUE, spatial)

\* update_word: a word is learned, tapped or boosted.
UpdateWord(w, n) ==
    /\ n > freq[w]
    /\ freq' = [freq EXCEPT ![w] = n]
    /\ overlay' = IF w \in packed THEN overlay ELSE overlay \cup {w}
    /\ beam' = IF beam = NoBeam \/ dirty THEN beam
               ELSE [beam EXCEPT !.index = WithWord(@, w, n)]
    /\ UNCHANGED <<packed, dirty, spatial>>

\* set_frequencies on a built dictionary: a vocabulary pack is enabled.
SetFrequencies(e) ==
    /\ e # Unknown
    /\ freq' = Raise(freq, e)
    /\ overlay' = overlay \cup (KnownIn(e) \ packed)
    /\ dirty' = TRUE
    /\ UNCHANGED <<packed, beam, spatial>>

\* _rebuild_fuzzy_dictionary
RebuildDictionary(d) ==
    /\ BuiltFor(d)
    /\ beam' = Ensured(NoBeam, d, TRUE, spatial)
    /\ UNCHANGED spatial

\* set_key_positions: a new model, made before the old one is let go.  Its
\* address may be that of any model let go before.
SetKeyPositions(g) ==
    /\ \E a \in Addresses \ {spatial.address} : spatial' = [grid |-> g, address |-> a]
    /\ UNCHANGED <<freq, packed, overlay, beam, dirty>>

\* A prefix is completed.
CompletePrefix ==
    /\ beam' = Ensured(beam, freq, dirty, spatial) /\ dirty' = FALSE
    /\ UNCHANGED <<freq, packed, overlay, spatial>>

Packs == {e \in [Dictionary -> {0, MaxFreq}] : Cardinality(KnownIn(e)) <= 1}

IndexNext ==
    \/ \E w \in Dictionary, n \in 1..MaxFreq : UpdateWord(w, n)
    \/ \E e \in Packs : SetFrequencies(e)
    \/ \E d \in Builds : RebuildDictionary(d)
    \/ \E g \in Layouts : SetKeyPositions(g)
    \/ CompletePrefix

-----------------------------------------------------------------------------
(* PrefixBeam.complete.                                                    *)

WorthCompleting(t, sparse) ==
    Len(t) >= MinTyped \/ (Len(t) >= MinDead /\ (sparse \/ ~IsLive(beam.index, t)))

BestOf(states) == {s \in states : \A o \in states : o[1] = s[1] => o[2] <= s[2]}

Alive(p) == p = <<>> \/ IsLive(beam.index, p)
\* No row holds the letters a word may begin with.
Growths(p) == IF p = <<>> THEN {} ELSE Children(beam.index, p)

\* From the <<prefix, cost>> states at the i-th typed letter: to the next
\* letter, and over it when the two were swapped.
Landings(t, i, s) ==
    LET hit == HitCost[beam.grid][t[i]]
        Land(p, cost) == {<<Append(p, k), cost + hit[k]>> : k \in DOMAIN hit}
    IN {x \in Land(s[1], s[2])
              \cup UNION {Land(Append(s[1], m), s[2] + OmitCost) : m \in Growths(s[1])} :
            Alive(x[1])}
       \cup {<<s[1], s[2] + ExtraCost>>}
Swaps(t, i, s) ==
    {x \in {<<s[1] \o <<t[i + 1], t[i]>>, s[2] + SwapCost>>} : Alive(x[1])}

\* Two buckets are carried: the states before letter i and those beyond it.
Advance(t, buckets, i) ==
    LET now == BestOf(buckets[1])
    IN <<buckets[2] \cup UNION {Landings(t, i, s) : s \in now},
         IF i < Len(t) /\ t[i + 1] # t[i] THEN UNION {Swaps(t, i, s) : s \in now} ELSE {}>>

Paths(t) ==
    LET carried[i \in 0..Len(t)] ==
            IF i = 0 THEN <<{<<<<>>, 0>>}, {}>> ELSE Advance(t, carried[i - 1], i)
    IN BestOf(carried[Len(t)][1])

Top(S) == CHOOSE x \in S : \A y \in S : y <= x

\* The words reached: each with its best path and its score.
Reached(t) ==
    LET hits == UNION {{<<r[2], s[2], s[2] + FreqScore[r[1]]>> :
                           r \in ToSet(Completions(beam.index, s[1]))} :
                       s \in {x \in Paths(t) : x[1] # <<>>}}
        words == {h[1] : h \in hits}
    IN [w \in words |-> CHOOSE h \in hits : h[1] = w /\ \A o \in hits : o[1] = w => o[3] <= h[3]]

ExactWords(t) == IF t \in AllBeginnings THEN {r[2] : r \in ToSet(Completions(beam.index, t))} ELSE {}

\* (Slip) Frequency is left to decide.
Unprotected(t) == [w \in DOMAIN Reached(t) |-> Reached(t)[w][3]]

\* _protect_exact_completions: what strayed too far and still beats the best
\* completion of the letters as typed moves to just below it, together.
Scores(t) ==
    LET got == Reached(t)
        exact == ExactWords(t) \cap DOMAIN got
        best == Top({got[w][3] : w \in exact})
        strays == {w \in DOMAIN got \ ExactWords(t) : got[w][2] < MayBuy /\ got[w][3] >= best}
        shift == Top({got[w][3] : w \in strays}) - best + 1
    IN [w \in DOMAIN got |->
           got[w][3] - IF exact # {} /\ strays # {} /\ w \in strays THEN shift ELSE 0]

-----------------------------------------------------------------------------
(* Properties.                                                             *)

Current == beam # NoBeam /\ ~dirty

\* However words were learned, raised and merged since, a prefix index that
\* counts as current answers as one built from the dictionary afresh.
IndexIsAsRebuilt ==
    Current =>
        LET fresh == NewIndex(freq) IN
        \A p \in AllBeginnings :
            /\ IsLive(beam.index, p) = IsLive(fresh, p)
            /\ Children(beam.index, p) = Children(fresh, p)
            /\ Completions(beam.index, p) = Completions(fresh, p)

\* No word further than one cheap slip from what was typed outranks the best
\* completion of the very letters typed, however common it is.
TypedLettersWin ==
    Current =>
        \A t \in {u \in Typings : WorthCompleting(u, TRUE)} :
            LET exact == ExactWords(t)
                got   == Reached(t)
                score == Scores(t)
            IN \A w \in DOMAIN score \ exact :
                   got[w][2] < MayBuy /\ exact # {} => \E x \in exact : score[w] < score[x]
=============================================================================
