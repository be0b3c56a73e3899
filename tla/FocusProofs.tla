----------------------------- MODULE FocusProofs -----------------------------
(***************************************************************************)
(* Where the typing goes.  Password fields, for any number of windows,     *)
(* moves and keystrokes, and however long the probe reads: a word that     *)
(* holds a secret is learned only where no reading of its field came, and  *)
(* no reading that was overtaken switches protection off.                  *)
(* The caret polls, for any places and periods: a context that was left    *)
(* is dropped within two polls, and typing alone never drops one.          *)
(***************************************************************************)
EXTENDS FocusPrivacy, CaretPolls, TLAPS

\* Readings that are queued, owed to the key that waits, or being taken.
Owed == IF want > 0 THEN want ELSE IF probe.at = "idle" THEN 0 ELSE 1

QueueIsBounded ==
    /\ key = "none" => want = 0
    /\ Len(signals) + Owed <= MaxSignals + 2 * keys

\* The newest of the queued readings is the latest one, and none is still new
\* once that has been applied.
LatestIsNewest ==
    /\ signals # <<>> => /\ signals[Len(signals)].hwnd = latest.hwnd
                         /\ signals[Len(signals)].secret <=> latest.secret
    /\ \A i \in DOMAIN signals : signals[i].new => latest.new

\* A reading begun since focus last moved shows the field focus is in; and one
\* that has been applied has left privacy mode as it found the field.
YoungIsTrue ==
    /\ probe.at = "read" /\ probe.young => (probe.secret <=> secret)
    /\ latest.young => (latest.secret <=> secret)
    /\ latest.young /\ ~latest.new /\ ~manual => (privacy <=> latest.secret)

\* A reading begun while a key waits, and so the one it waits for, is of the
\* field it goes to, and nothing applies it before that key.
AnswerIsTrue ==
    /\ key # "none" => ~blank /\ ~manual
    /\ key # "none" /\ want <= 1 =>
         /\ probe.at \in {"located", "read"} => probe.hwnd = window
         /\ probe.at = "read" => (probe.secret <=> secret)
    /\ key # "none" /\ want = 0 =>
         latest.new /\ latest.hwnd = window /\ (latest.secret <=> secret)

\* Only a word typed in a password field before it was recognised is tainted,
\* and it does not outlive either but by being carried to another field.
TaintIsHere ==
    /\ tainted => ~privacy /\ (secret \/ carried)
    /\ carried => tainted

Inv == /\ TypeOK /\ QueueIsBounded /\ LatestIsNewest
       /\ YoungIsTrue /\ AnswerIsTrue /\ TaintIsHere /\ AnsweredSecretsStay

LEMMA InitInv == Init => Inv
<1> SUFFICES ASSUME Init
             PROVE  Inv
  OBVIOUS
<1> USE DEF Init
<1>1. TypeOK
  <2>1. probe \in Probes /\ latest \in Latests
    BY DEF Probes, Latests, Hwnds
  <2>2. signals \in Seq(Readings) /\ Len(signals) = 0
    OBVIOUS
  <2>3. moves \in 0..MaxMoves /\ keys \in 0..MaxKeys /\ keys = 0
    BY ConstantsAssumption
  <2>4. Len(signals) <= MaxSignals + 2 * MaxKeys
    BY <2>2, ConstantsAssumption
  <2>5. want \in 0..2
    OBVIOUS
  <2> QED BY <2>1, <2>2, <2>3, <2>4, <2>5 DEF TypeOK
<1>2. QueueIsBounded
  BY ConstantsAssumption DEF QueueIsBounded, Owed
<1>3. LatestIsNewest /\ YoungIsTrue /\ AnswerIsTrue /\ TaintIsHere /\ AnsweredSecretsStay
  BY DEF LatestIsNewest, YoungIsTrue, AnswerIsTrue, TaintIsHere, AnsweredSecretsStay
<1> QED BY <1>1, <1>2, <1>3 DEF Inv

-----------------------------------------------------------------------------
(* The desktop and the probe.                                              *)

LEMMA Aged ==
    ASSUME TypeOK, AllAge
    PROVE  /\ probe' \in Probes /\ ~probe'.young
           /\ probe'.at = probe.at /\ probe'.hwnd = probe.hwnd
           /\ probe'.secret <=> probe.secret
           /\ latest' \in Latests /\ ~latest'.young
           /\ latest'.hwnd = latest.hwnd
           /\ latest'.secret <=> latest.secret
           /\ latest'.new <=> latest.new
BY DEF TypeOK, AllAge, Probes, Latests

LEMMA MoveFocusKeepsInv ==
    ASSUME Inv, NEW w \in Windows, NEW s \in BOOLEAN, MoveFocus(w, s)
    PROVE  Inv'
<1> USE DEF Inv, MoveFocus, UIFree, bridge
<1>1. /\ probe' \in Probes /\ ~probe'.young /\ probe'.at = probe.at
      /\ latest' \in Latests /\ ~latest'.young
      /\ latest'.hwnd = latest.hwnd
      /\ latest'.secret <=> latest.secret
      /\ latest'.new <=> latest.new
  BY Aged
<1>2. moves' \in 0..MaxMoves /\ blank' \in BOOLEAN
  <2>1. blank \in BOOLEAN /\ (w # window) \in BOOLEAN
    BY DEF TypeOK
  <2>2. blank' \in BOOLEAN
    BY <2>1
  <2>3. moves' \in 0..MaxMoves
    BY ConstantsAssumption DEF TypeOK
  <2> QED BY <2>2, <2>3
<1>3. carried' \in BOOLEAN /\ (carried' <=> tainted /\ ~privacy)
  BY DEF TypeOK
<1>8. TypeOK'
  BY <1>1, <1>2, <1>3 DEF TypeOK
<1>4. QueueIsBounded' /\ LatestIsNewest'
  BY <1>1 DEF QueueIsBounded, Owed, LatestIsNewest
<1>5. YoungIsTrue' /\ AnswerIsTrue'
  BY <1>1 DEF YoungIsTrue, AnswerIsTrue
<1>6. TaintIsHere' /\ AnsweredSecretsStay'
  BY <1>3 DEF TaintIsHere, AnsweredSecretsStay
<1> QED BY <1>4, <1>5, <1>6, <1>8

LEMMA DesktopKeepsInv ==
    ASSUME Inv, ForegroundBlanks \/ ForegroundReturns \/ ReadingAges
    PROVE  Inv'
<1> USE DEF Inv, UIFree, bridge, desktop
<1>1. CASE ForegroundBlanks \/ ForegroundReturns
  <2>1. UNCHANGED <<window, secret, probe, latest, signals, key, want, bridge, keys>>
    BY <1>1 DEF ForegroundBlanks, ForegroundReturns
  <2>2. TypeOK'
    <3>1. blank' \in BOOLEAN /\ window' \in Windows /\ secret' \in BOOLEAN
      BY <1>1, <2>1 DEF TypeOK, ForegroundBlanks, ForegroundReturns
    <3>2. moves' \in 0..MaxMoves
      BY <1>1, ConstantsAssumption DEF TypeOK, ForegroundBlanks, ForegroundReturns
    <3> QED BY <2>1, <3>1, <3>2 DEF TypeOK
  <2>3. QueueIsBounded' /\ LatestIsNewest' /\ YoungIsTrue' /\ TaintIsHere' /\ AnsweredSecretsStay'
    BY <2>1 DEF QueueIsBounded, Owed, LatestIsNewest, YoungIsTrue, TaintIsHere, AnsweredSecretsStay
  <2>4. AnswerIsTrue'
    BY <1>1, <2>1 DEF AnswerIsTrue, ForegroundBlanks, ForegroundReturns
  <2> QED BY <2>2, <2>3, <2>4
<1>2. CASE ReadingAges
  <2> USE <1>2 DEF ReadingAges
  <2>1. /\ latest' \in Latests /\ ~latest'.young
        /\ latest'.hwnd = latest.hwnd
        /\ latest'.secret <=> latest.secret
        /\ latest'.new <=> latest.new
    BY DEF TypeOK, Latests
  <2>2. TypeOK'
    BY <2>1 DEF TypeOK
  <2>3. QueueIsBounded' /\ LatestIsNewest' /\ YoungIsTrue'
    BY <2>1 DEF QueueIsBounded, Owed, LatestIsNewest, YoungIsTrue
  <2>4. AnswerIsTrue' /\ TaintIsHere' /\ AnsweredSecretsStay'
    BY <2>1 DEF AnswerIsTrue, TaintIsHere, AnsweredSecretsStay
  <2> QED BY <2>2, <2>3, <2>4
<1> QED BY <1>1, <1>2

LEMMA ReadingKeepsInv ==
    ASSUME Inv, ReadBegins \/ WindowIsRead \/ ElementIsRead
    PROVE  Inv'
<1> USE DEF Inv, bridge, desktop
<1>0. /\ UNCHANGED <<window, blank, secret, moves, latest, signals, key, want, keys>>
      /\ UNCHANGED <<privacy, manual, tainted, carried, slips>>
  BY DEF ReadBegins, WindowIsRead, ElementIsRead
<1>1. probe' \in Probes
  <2>1. Foreground \in Hwnds
    BY DEF Foreground, TypeOK, Hwnds
  <2> QED BY <2>1 DEF ReadBegins, WindowIsRead, ElementIsRead, TypeOK, Probes
<1>2. TypeOK'
  BY <1>0, <1>1 DEF TypeOK
<1>9. \/ /\ probe.at = "idle" /\ probe'.at = "begun"
         /\ Len(signals) < MaxSignals \/ want > 0
      \/ /\ probe.at = "begun" /\ probe'.at = "located"
         /\ probe'.hwnd = Foreground
      \/ /\ probe.at = "located" /\ probe'.at = "read"
         /\ probe'.hwnd = probe.hwnd
         /\ probe'.secret <=> secret
  <2>1. CASE ReadBegins
    BY <2>1 DEF ReadBegins, TypeOK, Probes
  <2>2. CASE WindowIsRead
    BY <2>2 DEF WindowIsRead, TypeOK, Probes
  <2>3. CASE ElementIsRead
    BY <2>3 DEF ElementIsRead, TypeOK, Probes
  <2> QED BY <2>1, <2>2, <2>3
<1>3. QueueIsBounded'
  <2>1. Len(signals) \in Nat /\ Len(signals') = Len(signals)
    BY <1>0 DEF TypeOK
  <2>2. Owed' = Owed \/ (Owed = 0 /\ Owed' = 1 /\ Len(signals) < MaxSignals)
    BY <1>0, <1>9 DEF Owed, TypeOK
  <2>3. Owed \in 0..2
    BY DEF Owed, TypeOK
  <2> QED BY <1>0, <2>1, <2>2, <2>3, ConstantsAssumption DEF QueueIsBounded, TypeOK
<1>4. YoungIsTrue'
  BY <1>0, <1>9 DEF YoungIsTrue
<1>5. AnswerIsTrue'
  BY <1>0, <1>9 DEF AnswerIsTrue, Foreground
<1>6. LatestIsNewest' /\ TaintIsHere' /\ AnsweredSecretsStay'
  BY <1>0 DEF LatestIsNewest, TaintIsHere, AnsweredSecretsStay
<1> QED BY <1>2, <1>3, <1>4, <1>5, <1>6

LEMMA CompleteKeepsInv ==
    ASSUME Inv, ReadCompletes
    PROVE  Inv'
<1> USE DEF Inv, ReadCompletes, bridge, desktop
<1> DEFINE r == [hwnd |-> probe.hwnd, secret |-> probe.secret, new |-> TRUE]
<1>1. r \in Readings /\ r.hwnd = probe.hwnd /\ (r.secret <=> probe.secret) /\ r.new
  BY DEF TypeOK, Probes, Readings
<1>2. /\ latest' \in Latests /\ latest'.hwnd = probe.hwnd /\ latest'.new
      /\ latest'.secret <=> probe.secret
      /\ latest'.young <=> probe.young
  BY DEF TypeOK, Probes, Latests
<1>3. probe' \in Probes /\ probe'.at = "idle"
  BY DEF TypeOK, Probes
<1>4. signals' = Append(signals, r)
  OBVIOUS
<1> HIDE DEF r
<1>5. /\ signals' \in Seq(Readings) /\ Len(signals') = Len(signals) + 1
      /\ signals'[Len(signals')] = r /\ signals' # <<>>
  BY <1>1, <1>4 DEF TypeOK
<1>6. want' \in 0..2 /\ want' <= want /\ (want > 0 => want' = want - 1)
      /\ (want = 0 => want' = 0)
  BY DEF TypeOK
<1>7. QueueIsBounded'
  <2>1. Len(signals) \in Nat
    BY DEF TypeOK
  <2>2. Len(signals') + Owed' <= Len(signals) + Owed
    BY <1>3, <1>5, <1>6, <2>1 DEF Owed, TypeOK
  <2>3. Owed \in 0..2 /\ Owed' \in 0..2
    BY <1>6 DEF Owed, TypeOK
  <2> QED BY <1>5, <1>6, <2>1, <2>2, <2>3, ConstantsAssumption DEF QueueIsBounded, TypeOK
<1>8. TypeOK'
  <2>1. Len(signals') <= MaxSignals + 2 * MaxKeys
    <3>1. Len(signals') \in Nat /\ Owed' \in 0..2
      BY <1>5, <1>6 DEF Owed, TypeOK
    <3> QED BY <1>7, <3>1, ConstantsAssumption DEF QueueIsBounded, TypeOK
  <2> QED BY <1>2, <1>3, <1>5, <1>6, <2>1 DEF TypeOK
<1>9. LatestIsNewest'
  BY <1>1, <1>2, <1>5 DEF LatestIsNewest
<1>10. YoungIsTrue'
  BY <1>2, <1>3 DEF YoungIsTrue
<1>11. AnswerIsTrue'
  BY <1>2, <1>3, <1>6 DEF AnswerIsTrue, TypeOK
<1>12. TaintIsHere' /\ AnsweredSecretsStay'
  BY DEF TaintIsHere, AnsweredSecretsStay
<1> QED BY <1>7, <1>8, <1>9, <1>10, <1>11, <1>12

-----------------------------------------------------------------------------
(* The UI thread.                                                          *)

\* What applying the latest reading does: all or nothing.
LEMMA ApplyLatestFacts ==
    ASSUME TypeOK, ApplyLatest
    PROVE  /\ latest' \in Latests /\ latest'.hwnd = latest.hwnd
           /\ latest'.secret <=> latest.secret
           /\ latest'.young <=> latest.young
           /\ signals' \in Seq(Readings) /\ Len(signals') = Len(signals)
           /\ \A i \in DOMAIN signals :
                 /\ signals'[i].hwnd = signals[i].hwnd
                 /\ signals'[i].secret <=> signals[i].secret
           /\ privacy' \in BOOLEAN
           /\ \/ /\ Applies(latest) /\ ~latest'.new
                 /\ privacy' <=> latest.secret
                 /\ \A i \in DOMAIN signals : ~signals'[i].new
              \/ ~Applies(latest) /\ UNCHANGED <<privacy, latest, signals>>
<1> USE DEF TypeOK
<1>1. CASE Applies(latest)
  <2>1. /\ privacy' = latest.secret /\ latest' = [latest EXCEPT !.new = FALSE]
        /\ signals' = Overtaken(signals)
    BY <1>1 DEF ApplyLatest, MovesWatermark, PrivacyAfter
  <2>2. /\ latest' \in Latests /\ latest'.hwnd = latest.hwnd /\ ~latest'.new
        /\ latest'.secret <=> latest.secret
        /\ latest'.young <=> latest.young
    BY <2>1 DEF Latests
  <2>3. latest.secret \in BOOLEAN
    BY DEF Latests
  <2>4. \A r \in Readings : [r EXCEPT !.new = FALSE] \in Readings
    BY DEF Readings
  <2>5. /\ signals' \in Seq(Readings) /\ Len(signals') = Len(signals)
        /\ \A i \in DOMAIN signals : signals'[i] = [signals[i] EXCEPT !.new = FALSE]
    BY <2>1, <2>4 DEF Overtaken
  <2>6. \A i \in DOMAIN signals :
          /\ signals'[i].hwnd = signals[i].hwnd
          /\ signals'[i].secret <=> signals[i].secret
          /\ ~signals'[i].new
    <3> TAKE i \in DOMAIN signals
    <3>1. signals[i] \in Readings
      OBVIOUS
    <3>2. signals'[i] = [signals[i] EXCEPT !.new = FALSE]
      BY <2>5
    <3> QED BY <3>1, <3>2 DEF Readings
  <2> QED BY <1>1, <2>1, <2>2, <2>3, <2>5, <2>6
<1>2. CASE ~Applies(latest)
  BY <1>2 DEF ApplyLatest, MovesWatermark, PrivacyAfter
<1> QED BY <1>1, <1>2

\* Applied, the latest reading still stands for the readings it overtook.
LEMMA ApplyLatestKeeps ==
    ASSUME Inv, ApplyLatest
    PROVE  LatestIsNewest'
<1>1. signals \in Seq(Readings) /\ TypeOK
  BY DEF Inv, TypeOK
<1>2. CASE UNCHANGED <<privacy, latest, signals>>
  BY <1>2 DEF Inv, LatestIsNewest
<1>3. CASE \A i \in DOMAIN signals : ~signals'[i].new
  <2>1. DOMAIN signals' = DOMAIN signals /\ (signals' = <<>> <=> signals = <<>>)
    BY <1>1, ApplyLatestFacts
  <2>2. signals # <<>> => Len(signals) \in DOMAIN signals
    BY <1>1
  <2> QED BY <1>1, <1>3, <2>1, <2>2, ApplyLatestFacts DEF Inv, LatestIsNewest
<1> QED BY <1>1, <1>2, <1>3, ApplyLatestFacts

LEMMA TypeFacts ==
    ASSUME TypeOK, NEW k, NEW p \in BOOLEAN, NEW t \in BOOLEAN,
           NEW how \in {"answered", "unanswered"}, Type(k, p, t, how)
    PROVE  /\ tainted' \in BOOLEAN /\ carried' \in BOOLEAN
           /\ tainted' <=> k = "char" /\ (t \/ (secret /\ ~p))
           /\ carried' <=> k = "char" /\ t /\ carried
           /\ slips' \subseteq {"answered", "unanswered", "carried"}
           /\ "answered" \in slips' =>
                \/ "answered" \in slips
                \/ k = "end" /\ ~p /\ t /\ ~carried /\ how = "answered"
<1>1. /\ tainted' = (k = "char" /\ (t \/ (secret /\ ~p)))
      /\ carried' = (k = "char" /\ t /\ carried)
      /\ slips' = IF k = "end" /\ ~p /\ t
                  THEN slips \cup {IF carried THEN "carried" ELSE how} ELSE slips
  BY DEF Type
<1>2. carried \in BOOLEAN /\ slips \subseteq {"answered", "unanswered", "carried"}
  BY DEF TypeOK
<1>3. /\ tainted' \in BOOLEAN
      /\ tainted' <=> k = "char" /\ (t \/ (secret /\ ~p))
  <2>1. CASE k = "char" /\ (t \/ (secret /\ ~p))
    BY <1>1, <2>1
  <2>2. CASE ~(k = "char" /\ (t \/ (secret /\ ~p)))
    BY <1>1, <2>2
  <2> QED BY <2>1, <2>2
<1>4. /\ carried' \in BOOLEAN
      /\ carried' <=> k = "char" /\ t /\ carried
  <2>1. CASE k = "char" /\ t /\ carried
    BY <1>1, <2>1
  <2>2. CASE ~(k = "char" /\ t /\ carried)
    BY <1>1, <2>2
  <2> QED BY <2>1, <2>2
<1>5. /\ slips' \subseteq {"answered", "unanswered", "carried"}
      /\ "answered" \in slips' =>
           \/ "answered" \in slips
           \/ k = "end" /\ ~p /\ t /\ ~carried /\ how = "answered"
  <2>1. CASE k = "end" /\ ~p /\ t
    BY <1>1, <1>2, <2>1
  <2>2. CASE ~(k = "end" /\ ~p /\ t)
    BY <1>1, <1>2, <2>2
  <2> QED BY <2>1, <2>2
<1> QED BY <1>3, <1>4, <1>5

\* A key that goes out on a reading of the field it goes to: protection is
\* what that field needs, and of a secret nothing gets through but what an
\* unanswered field left behind it.
LEMMA KeyGoesOut ==
    ASSUME Inv, NEW k, TypeOnLatest(k), ~blank,
           latest.hwnd = window, latest.secret <=> secret,
           latest.new \/ (privacy <=> latest.secret)
    PROVE  /\ privacy' \in BOOLEAN /\ (privacy' <=> secret)
           /\ tainted' \in BOOLEAN /\ carried' \in BOOLEAN
           /\ tainted' => ~privacy' /\ carried'
           /\ carried' => tainted'
           /\ slips' \subseteq {"answered", "unanswered", "carried"}
           /\ "answered" \notin slips'
<1> DEFINE t == TaintedAfter(latest)
<1>1. TypeOK /\ ApplyLatest /\ Type(k, privacy', t, "answered")
  BY DEF Inv, TypeOnLatest
<1>2. privacy' \in BOOLEAN /\ (privacy' <=> secret)
  BY <1>1, ApplyLatestFacts DEF Applies, Foreground
<1>3. privacy' = PrivacyAfter(latest)
  BY <1>1 DEF ApplyLatest
<1>4. t \in BOOLEAN /\ (t <=> tainted /\ ~(privacy' /\ ~privacy))
  BY <1>3 DEF TaintedAfter
<1> HIDE DEF t
<1>5. t => ~privacy' /\ carried
  BY <1>2, <1>4 DEF Inv, TaintIsHere
<1>6. /\ tainted' \in BOOLEAN /\ carried' \in BOOLEAN
      /\ tainted' <=> k = "char" /\ (t \/ (secret /\ ~privacy'))
      /\ carried' <=> k = "char" /\ t /\ carried
      /\ slips' \subseteq {"answered", "unanswered", "carried"}
      /\ "answered" \in slips' =>
           \/ "answered" \in slips
           \/ k = "end" /\ ~privacy' /\ t /\ ~carried
  BY <1>1, <1>2, <1>4, TypeFacts
<1> QED BY <1>2, <1>5, <1>6 DEF Inv, AnsweredSecretsStay

LEMMA KeyArrivesKeepsInv ==
    ASSUME Inv, NEW k \in {"char", "end"}, KeyArrives(k)
    PROVE  Inv'
<1> USE DEF Inv
<1>0. /\ key = "none" /\ want = 0 /\ ~blank /\ keys' = keys + 1 /\ keys' \in 0..MaxKeys
      /\ UNCHANGED <<window, blank, secret, moves, probe, manual>> /\ TypeOK
  BY ConstantsAssumption DEF KeyArrives, UIFree, QueueIsBounded, desktop, TypeOK
<1>1. CASE manual
  <2>1. /\ Type(k, privacy, tainted, "unanswered")
        /\ UNCHANGED <<key, want, privacy, latest, signals>>
    BY <1>1 DEF KeyArrives, TypeAsItIs
  <2>2. /\ privacy /\ privacy \in BOOLEAN /\ ~tainted /\ tainted \in BOOLEAN
    BY <1>1 DEF TypeOK, TaintIsHere
  <2>3. /\ tainted' \in BOOLEAN /\ ~tainted' /\ carried' \in BOOLEAN /\ ~carried'
        /\ slips' \subseteq {"answered", "unanswered", "carried"}
        /\ "answered" \in slips' => "answered" \in slips
    BY <1>0, <2>1, <2>2, TypeFacts
  <2>4. TypeOK'
    BY <1>0, <2>1, <2>3 DEF TypeOK
  <2>5. QueueIsBounded'
    BY <1>0, <2>1, ConstantsAssumption DEF QueueIsBounded, Owed, TypeOK
  <2>6. LatestIsNewest' /\ YoungIsTrue' /\ AnswerIsTrue' /\ TaintIsHere' /\ AnsweredSecretsStay'
    BY <1>0, <2>1, <2>3 DEF LatestIsNewest, YoungIsTrue, AnswerIsTrue, TaintIsHere, AnsweredSecretsStay
  <2> QED BY <2>4, <2>5, <2>6
<1>2. CASE ~manual /\ latest.young /\ latest.hwnd = Foreground
  <2>1. TypeOnLatest(k) /\ ApplyLatest /\ UNCHANGED <<key, want>>
    BY <1>2 DEF KeyArrives, TypeOnLatest
  <2>2. /\ latest.hwnd = window
        /\ latest.secret <=> secret
        /\ latest.new \/ (privacy <=> latest.secret)
    BY <1>0, <1>2 DEF Foreground, YoungIsTrue
  <2>3. /\ privacy' \in BOOLEAN /\ (privacy' <=> secret)
        /\ tainted' \in BOOLEAN /\ carried' \in BOOLEAN
        /\ tainted' => ~privacy' /\ carried'
        /\ carried' => tainted'
        /\ slips' \subseteq {"answered", "unanswered", "carried"}
        /\ "answered" \notin slips'
    BY <1>0, <2>1, <2>2, KeyGoesOut
  <2>4. /\ latest' \in Latests /\ latest'.hwnd = latest.hwnd
        /\ latest'.secret <=> latest.secret
        /\ latest'.young <=> latest.young
        /\ signals' \in Seq(Readings) /\ Len(signals') = Len(signals)
    BY <1>0, <2>1, ApplyLatestFacts
  <2>5. QueueIsBounded'
    BY <1>0, <2>1, <2>4, ConstantsAssumption DEF QueueIsBounded, Owed, TypeOK
  <2>6. TypeOK'
    BY <1>0, <1>2, <2>1, <2>3, <2>4 DEF TypeOK
  <2>7. LatestIsNewest'
    BY <2>1, ApplyLatestKeeps
  <2>8. YoungIsTrue' /\ AnswerIsTrue' /\ TaintIsHere' /\ AnsweredSecretsStay'
    BY <1>0, <2>1, <2>2, <2>3, <2>4 DEF YoungIsTrue, AnswerIsTrue, TaintIsHere, AnsweredSecretsStay
  <2> QED BY <2>5, <2>6, <2>7, <2>8
<1>3. CASE ~manual /\ ~(latest.young /\ latest.hwnd = Foreground)
  <2>1. /\ key' = k /\ want' = NextToBegin
        /\ UNCHANGED <<privacy, latest, signals, tainted, carried, slips>>
    BY <1>3 DEF KeyArrives
  <2>2. want' \in 1..2 /\ (want' = 1 => probe.at = "idle") /\ (want' = 2 => probe.at # "idle")
    BY <2>1 DEF NextToBegin
  <2>3. QueueIsBounded'
    BY <1>0, <2>1, <2>2, ConstantsAssumption DEF QueueIsBounded, Owed, TypeOK
  <2>4. TypeOK'
    BY <1>0, <2>1, <2>2 DEF TypeOK
  <2>5. LatestIsNewest' /\ YoungIsTrue' /\ TaintIsHere' /\ AnsweredSecretsStay'
    BY <1>0, <2>1 DEF LatestIsNewest, YoungIsTrue, TaintIsHere, AnsweredSecretsStay
  <2>6. AnswerIsTrue'
    BY <1>0, <1>3, <2>1, <2>2 DEF AnswerIsTrue
  <2> QED BY <2>3, <2>4, <2>5, <2>6
<1> QED BY <1>1, <1>2, <1>3

LEMMA KeyWaitsKeepsInv ==
    ASSUME Inv, AnswerArrives \/ WaitTimesOut
    PROVE  Inv'
<1> USE DEF Inv
<1>1. CASE AnswerArrives
  <2>1. /\ key # "none" /\ want = 0 /\ TypeOnLatest(key) /\ ApplyLatest /\ key' = "none"
        /\ UNCHANGED <<window, blank, secret, moves, probe, want, manual, keys>> /\ TypeOK
        /\ ~blank /\ ~manual
    BY <1>1 DEF AnswerArrives, TypeOnLatest, desktop, AnswerIsTrue
  <2>2. /\ latest.new /\ latest.hwnd = window
        /\ latest.secret <=> secret
    BY <2>1 DEF AnswerIsTrue
  <2>3. /\ privacy' \in BOOLEAN /\ (privacy' <=> secret)
        /\ tainted' \in BOOLEAN /\ carried' \in BOOLEAN
        /\ tainted' => ~privacy' /\ carried'
        /\ carried' => tainted'
        /\ slips' \subseteq {"answered", "unanswered", "carried"}
        /\ "answered" \notin slips'
    BY <2>1, <2>2, KeyGoesOut
  <2>4. /\ latest' \in Latests /\ latest'.hwnd = latest.hwnd
        /\ latest'.secret <=> latest.secret
        /\ latest'.young <=> latest.young
        /\ signals' \in Seq(Readings) /\ Len(signals') = Len(signals)
    BY <2>1, ApplyLatestFacts
  <2>5. TypeOK'
    BY <2>1, <2>3, <2>4 DEF TypeOK
  <2>6. QueueIsBounded'
    BY <2>1, <2>4 DEF QueueIsBounded, Owed
  <2>7. LatestIsNewest'
    BY <2>1, ApplyLatestKeeps
  <2>8. YoungIsTrue' /\ AnswerIsTrue' /\ TaintIsHere' /\ AnsweredSecretsStay'
    BY <2>1, <2>2, <2>3, <2>4 DEF YoungIsTrue, AnswerIsTrue, TaintIsHere, AnsweredSecretsStay
  <2> QED BY <2>5, <2>6, <2>7, <2>8
<1>2. CASE WaitTimesOut
  <2>1. /\ want > 0 /\ Type(key, privacy, tainted, "unanswered")
        /\ key' = "none" /\ want' = 0 /\ UNCHANGED <<privacy, latest, signals>>
        /\ UNCHANGED <<window, blank, secret, moves, probe, manual, keys>> /\ TypeOK
    BY <1>2 DEF WaitTimesOut, TypeAsItIs, desktop
  <2>2. privacy \in BOOLEAN /\ tainted \in BOOLEAN
    BY <2>1 DEF TypeOK
  <2>3. /\ tainted' \in BOOLEAN
        /\ tainted' <=> key = "char" /\ (tainted \/ (secret /\ ~privacy))
        /\ carried' \in BOOLEAN
        /\ carried' <=> key = "char" /\ tainted /\ carried
        /\ slips' \subseteq {"answered", "unanswered", "carried"}
        /\ "answered" \in slips' => "answered" \in slips
    BY <2>1, <2>2, TypeFacts
  <2>4. TypeOK'
    BY <2>1, <2>3 DEF TypeOK
  <2>5. QueueIsBounded'
    BY <2>1, ConstantsAssumption DEF QueueIsBounded, Owed, TypeOK
  <2>6. LatestIsNewest' /\ YoungIsTrue' /\ AnswerIsTrue' /\ TaintIsHere' /\ AnsweredSecretsStay'
    BY <2>1, <2>3 DEF LatestIsNewest, YoungIsTrue, AnswerIsTrue, TaintIsHere, AnsweredSecretsStay
  <2> QED BY <2>4, <2>5, <2>6
<1> QED BY <1>1, <1>2

\* A word is wiped by the reading that switches protection on.
LEMMA TaintedAfterFacts ==
    ASSUME TypeOK, NEW r, tainted' = TaintedAfter(r), privacy' = PrivacyAfter(r),
           carried' = (carried /\ tainted'), TaintIsHere, UNCHANGED secret
    PROVE  tainted' \in BOOLEAN /\ carried' \in BOOLEAN /\ TaintIsHere'
<1>1. TaintedAfter(r) \in BOOLEAN /\ (TaintedAfter(r) => tainted /\ (privacy' => privacy))
  BY DEF TaintedAfter
<1>2. tainted' => tainted /\ (privacy' => privacy)
  BY <1>1
<1>3. carried' \in BOOLEAN /\ (carried' <=> carried /\ tainted')
  OBVIOUS
<1> QED BY <1>1, <1>2, <1>3 DEF TaintIsHere

LEMMA TimerKeepsInv ==
    ASSUME Inv, TimerChecks
    PROVE  Inv'
<1> USE DEF Inv
<1>0. /\ TypeOK /\ key = "none" /\ want = 0 /\ ~manual /\ ApplyLatest
      /\ tainted' = TaintedAfter(latest) /\ carried' = (carried /\ tainted')
      /\ UNCHANGED <<window, blank, secret, moves, probe, key, want, manual, slips, keys>>
  BY DEF TimerChecks, UIFree, Listening, QueueIsBounded, desktop
<1>1. /\ latest' \in Latests /\ latest'.hwnd = latest.hwnd
      /\ latest'.secret <=> latest.secret
      /\ latest'.young <=> latest.young
      /\ signals' \in Seq(Readings) /\ Len(signals') = Len(signals)
      /\ privacy' \in BOOLEAN
  BY <1>0, ApplyLatestFacts
<1>2. tainted' \in BOOLEAN /\ carried' \in BOOLEAN /\ TaintIsHere'
  BY <1>0, TaintedAfterFacts DEF ApplyLatest
<1>3. TypeOK'
  BY <1>0, <1>1, <1>2 DEF TypeOK
<1>4. QueueIsBounded' /\ AnswerIsTrue'
  BY <1>0, <1>1 DEF QueueIsBounded, Owed, AnswerIsTrue
<1>5. LatestIsNewest'
  BY <1>0, ApplyLatestKeeps
<1>6. YoungIsTrue' /\ AnsweredSecretsStay'
  <2>1. CASE UNCHANGED <<privacy, latest, signals>>
    BY <1>0, <2>1 DEF YoungIsTrue, AnsweredSecretsStay
  <2>2. CASE privacy' <=> latest.secret
    BY <1>0, <1>1, <2>2 DEF YoungIsTrue, AnsweredSecretsStay
  <2> QED BY <1>0, <2>1, <2>2, ApplyLatestFacts
<1> QED BY <1>2, <1>3, <1>4, <1>5, <1>6

LEMMA SignalKeepsInv ==
    ASSUME Inv, SignalArrives
    PROVE  Inv'
<1> USE DEF Inv
<1> DEFINE r == Head(signals)
<1>0. /\ TypeOK /\ key = "none" /\ want = 0 /\ signals # <<>> /\ signals' = Tail(signals)
      /\ UNCHANGED <<window, blank, secret, moves, probe, key, want, manual, slips, keys>>
  BY DEF SignalArrives, UIFree, QueueIsBounded, desktop
<1>1. signals \in Seq(Readings) /\ signals # <<>>
  BY <1>0 DEF TypeOK
<1>2. /\ signals' \in Seq(Readings) /\ Len(signals') = Len(signals) - 1
      /\ r = signals[1] /\ r \in Readings /\ Len(signals) \in Nat \ {0}
      /\ \A i \in DOMAIN signals' : signals'[i] = signals[i + 1] /\ i + 1 \in DOMAIN signals
  BY <1>0, <1>1
<1>3. CASE manual
  <2>1. UNCHANGED <<privacy, tainted, carried, latest>>
    BY <1>3 DEF SignalArrives, Listening
  <2>2. TypeOK' /\ QueueIsBounded' /\ AnswerIsTrue'
    BY <1>0, <1>2, <2>1, ConstantsAssumption DEF TypeOK, QueueIsBounded, Owed, AnswerIsTrue
  <2>3. LatestIsNewest'
    <3>1. signals' # <<>> => signals'[Len(signals')] = signals[Len(signals)]
      BY <1>2
    <3> QED BY <1>1, <1>2, <2>1, <3>1 DEF LatestIsNewest
  <2>4. YoungIsTrue' /\ TaintIsHere' /\ AnsweredSecretsStay'
    BY <1>0, <1>3, <2>1 DEF YoungIsTrue, TaintIsHere, AnsweredSecretsStay
  <2> QED BY <2>2, <2>3, <2>4
<1>4. CASE ~manual
  <2>1. /\ privacy' = PrivacyAfter(r) /\ tainted' = TaintedAfter(r)
        /\ carried' = (carried /\ tainted')
        /\ latest' = IF Applies(r) /\ Len(signals) = 1
                     THEN [latest EXCEPT !.new = FALSE] ELSE latest
    BY <1>4 DEF SignalArrives, Listening, MovesWatermark
  <2>2. tainted' \in BOOLEAN /\ carried' \in BOOLEAN /\ TaintIsHere'
    BY <1>0, <2>1, TaintedAfterFacts
  <2>3. privacy' \in BOOLEAN
    BY <1>0, <1>2, <2>1 DEF PrivacyAfter, Readings, TypeOK
  <2>4. /\ latest' \in Latests /\ latest'.hwnd = latest.hwnd
        /\ latest'.secret <=> latest.secret
        /\ latest'.young <=> latest.young
        /\ latest' = latest \/ (Applies(r) /\ Len(signals) = 1 /\ ~latest'.new)
    BY <1>0, <2>1 DEF TypeOK, Latests
  <2>5. TypeOK' /\ QueueIsBounded' /\ AnswerIsTrue'
    BY <1>0, <1>2, <1>4, <2>2, <2>3, <2>4, ConstantsAssumption
       DEF TypeOK, QueueIsBounded, Owed, AnswerIsTrue
  <2>6. LatestIsNewest'
    <3>1. CASE Len(signals) = 1
      <4>1. Len(signals') = 0 /\ signals' = <<>>
        BY <1>2, <3>1
      <4> QED BY <4>1 DEF LatestIsNewest
    <3>2. CASE Len(signals) # 1
      <4>1. latest' = latest /\ signals'[Len(signals')] = signals[Len(signals)]
        BY <1>2, <2>4, <3>2
      <4> QED BY <1>1, <1>2, <4>1 DEF LatestIsNewest
    <3> QED BY <3>1, <3>2
  <2>7. YoungIsTrue' /\ AnsweredSecretsStay'
    <3>1. CASE ~Applies(r)
      BY <1>0, <2>1, <2>4, <3>1 DEF YoungIsTrue, AnsweredSecretsStay, PrivacyAfter
    <3>2. CASE Applies(r) /\ Len(signals) = 1
      <4>1. r.secret <=> latest.secret
        BY <1>1, <1>2, <3>2 DEF LatestIsNewest
      <4>2. privacy' <=> latest.secret
        BY <2>1, <3>2, <4>1 DEF PrivacyAfter
      <4> QED BY <1>0, <2>4, <4>2 DEF YoungIsTrue, AnsweredSecretsStay
    <3>3. CASE Applies(r) /\ Len(signals) # 1
      <4>1. latest' = latest /\ latest.new
        BY <1>1, <1>2, <2>4, <3>3 DEF LatestIsNewest, Applies
      <4> QED BY <1>0, <4>1 DEF YoungIsTrue, AnsweredSecretsStay
    <3> QED BY <3>1, <3>2, <3>3
  <2> QED BY <2>2, <2>5, <2>6, <2>7
<1> QED BY <1>3, <1>4

LEMMA SetPrivacyKeepsInv ==
    ASSUME Inv, NEW on \in BOOLEAN, SetPrivacyMode(on)
    PROVE  Inv'
<1> USE DEF Inv
<1>0. /\ TypeOK /\ key = "none" /\ want = 0 /\ AllAge
      /\ manual' = on /\ privacy' = on
      /\ tainted' = (tainted /\ ~on) /\ carried' = (carried /\ ~on)
      /\ UNCHANGED <<window, blank, secret, signals, key, want, slips, keys>>
  BY DEF SetPrivacyMode, UIFree, QueueIsBounded
<1>1. moves' \in 0..MaxMoves
  BY <1>0, ConstantsAssumption DEF SetPrivacyMode, TypeOK
<1>2. /\ tainted' \in BOOLEAN /\ (tainted' <=> tainted /\ ~on)
      /\ carried' \in BOOLEAN /\ (carried' <=> carried /\ ~on)
  BY <1>0
<1>3. /\ probe' \in Probes /\ ~probe'.young /\ probe'.at = probe.at
      /\ latest' \in Latests /\ ~latest'.young
      /\ latest'.hwnd = latest.hwnd
      /\ latest'.secret <=> latest.secret
      /\ latest'.new <=> latest.new
  BY <1>0, Aged
<1>4. TypeOK'
  BY <1>0, <1>1, <1>2, <1>3 DEF TypeOK
<1>5. QueueIsBounded' /\ LatestIsNewest'
  BY <1>0, <1>3 DEF QueueIsBounded, Owed, LatestIsNewest
<1>6. YoungIsTrue' /\ AnswerIsTrue' /\ TaintIsHere' /\ AnsweredSecretsStay'
  BY <1>0, <1>2, <1>3 DEF YoungIsTrue, AnswerIsTrue, TaintIsHere, AnsweredSecretsStay
<1> QED BY <1>4, <1>5, <1>6

LEMMA ResetKeepsInv ==
    ASSUME Inv, ContextIsReset
    PROVE  Inv'
<1> USE DEF Inv, ContextIsReset, desktop
<1>1. TypeOK'
  BY DEF TypeOK
<1>2. QueueIsBounded' /\ LatestIsNewest'
  BY DEF QueueIsBounded, Owed, LatestIsNewest
<1>3. YoungIsTrue' /\ AnswerIsTrue' /\ TaintIsHere' /\ AnsweredSecretsStay'
  BY DEF YoungIsTrue, AnswerIsTrue, TaintIsHere, AnsweredSecretsStay
<1> QED BY <1>1, <1>2, <1>3

-----------------------------------------------------------------------------
(* The theorems.                                                           *)

LEMMA NextInv == Inv /\ [Next]_vars => Inv'
<1> SUFFICES ASSUME Inv, [Next]_vars
             PROVE  Inv'
  OBVIOUS
<1>1. CASE \E w \in Windows, s \in BOOLEAN : MoveFocus(w, s)
  BY <1>1, MoveFocusKeepsInv
<1>2. CASE ForegroundBlanks \/ ForegroundReturns \/ ReadingAges
  BY <1>2, DesktopKeepsInv
<1>3. CASE Probe
  BY <1>3, ReadingKeepsInv, CompleteKeepsInv DEF Probe
<1>4. CASE \E k \in {"char", "end"} : KeyArrives(k)
  BY <1>4, KeyArrivesKeepsInv
<1>5. CASE AnswerArrives \/ WaitTimesOut
  BY <1>5, KeyWaitsKeepsInv
<1>6. CASE SignalArrives
  BY <1>6, SignalKeepsInv
<1>7. CASE TimerChecks
  BY <1>7, TimerKeepsInv
<1>8. CASE \E on \in BOOLEAN : SetPrivacyMode(on)
  BY <1>8, SetPrivacyKeepsInv
<1>10. CASE ContextIsReset
  BY <1>10, ResetKeepsInv
<1>9. CASE UNCHANGED vars
  BY <1>9 DEF vars, desktop, bridge, Inv, TypeOK, QueueIsBounded, Owed, LatestIsNewest,
              YoungIsTrue, AnswerIsTrue, TaintIsHere, AnsweredSecretsStay
<1> QED BY <1>1, <1>2, <1>3, <1>4, <1>5, <1>6, <1>7, <1>8, <1>9, <1>10 DEF Next

\* Through every interleaving of the probe thread, the queued signals, the
\* timer and the keystrokes.
THEOREM InvHolds == Spec => []Inv
<1> QED BY InitInv, NextInv, PTL DEF Spec

\* TypeOK for every value of the constants; in particular the readings that
\* wait for an idle UI thread stay within their bound.
THEOREM TypeCorrect == Spec => []TypeOK
<1>1. Inv => TypeOK
  BY DEF Inv
<1> QED BY <1>1, InvHolds, PTL

\* _learn_word gets a word with characters of a password in it only where no
\* reading came for their field: whatever the interleaving, the key's own reading
\* or any applied before it wipes the word and switches protection on.
THEOREM AnsweredStaySecret == Spec => []AnsweredSecretsStay
<1>1. Inv => AnsweredSecretsStay
  BY DEF Inv, AnsweredSecretsStay
<1> QED BY <1>1, InvHolds, PTL

\* _apply_focus_reading switches protection off for a reading newer than the
\* last it applied, of the window in front, and for no other.
THEOREM OnlyNewerUndoes == Spec => OlderNeverUndoes
<1> DEFINE Undone == privacy /\ ~privacy' =>
                       \/ SetPrivacyMode(FALSE)
                       \/ \E r \in {latest} \cup ToSet(signals) :
                            r.new /\ r.hwnd = Foreground /\ ~r.secret
<1>1. Inv /\ [Next]_vars => [Undone]_vars
  <2> SUFFICES ASSUME Inv, Next, privacy, ~privacy', ~SetPrivacyMode(FALSE)
               PROVE  \E r \in {latest} \cup ToSet(signals) :
                        r.new /\ r.hwnd = Foreground /\ ~r.secret
    OBVIOUS
  <2>1. CASE privacy' = PrivacyAfter(latest)
    BY <2>1 DEF PrivacyAfter, Applies
  <2>2. CASE SignalArrives
    <3>1. signals \in Seq(Readings) /\ signals # <<>>
      BY <2>2 DEF Inv, TypeOK, SignalArrives
    <3>2. Head(signals) \in ToSet(signals)
      BY <3>1 DEF ToSet
    <3>3. privacy' = PrivacyAfter(Head(signals))
      BY <2>2 DEF SignalArrives
    <3> QED BY <3>2, <3>3 DEF PrivacyAfter, Applies
  <2>3. CASE \E k \in {"char", "end"} : KeyArrives(k)
    BY <2>1, <2>3 DEF KeyArrives, TypeOnLatest, TypeAsItIs, ApplyLatest
  <2>4. CASE AnswerArrives \/ TimerChecks
    BY <2>1, <2>4 DEF AnswerArrives, TypeOnLatest, TimerChecks, ApplyLatest
  <2>5. CASE \E on \in BOOLEAN : SetPrivacyMode(on)
    <3>1. PICK on \in BOOLEAN : SetPrivacyMode(on)
      BY <2>5
    <3>2. on = FALSE
      BY <3>1 DEF SetPrivacyMode
    <3> QED BY <3>1, <3>2
  <2>6. CASE UNCHANGED privacy
    BY <2>6
  <2> QED BY <2>2, <2>3, <2>4, <2>5, <2>6
          DEF Next, Probe, MoveFocus, ForegroundBlanks, ForegroundReturns, ReadingAges,
              ReadBegins, WindowIsRead, ElementIsRead, ReadCompletes, WaitTimesOut, ContextIsReset,
              TypeAsItIs, bridge
<1>2. Spec => [][Next]_vars
  BY PTL DEF Spec
<1> QED BY <1>1, <1>2, InvHolds, PTL DEF OlderNeverUndoes

-----------------------------------------------------------------------------
(* The caret polls: whether the context is where the caret is.             *)

Positions == {Unread} \cup (Places \X {0, 1})
Elements == {Unread} \cup (Readable \X {p.field : p \in Places} \X {0, 1})
Contexts ==
    [about : Places \cup {Nowhere}, mixed : BOOLEAN, inWord : BOOLEAN,
     focus : Elements, caret : Positions, before : Positions,
     settle : [left : 0..SettleTicks, base : Positions],
     reading : [token : Elements, usable : BOOLEAN, graced : BOOLEAN]]

PollsTyped ==
    /\ caret \in Places /\ column \in {0, 1} /\ skin \in {0, 1}
    /\ away \in BOOLEAN /\ pressed \in BOOLEAN /\ inserting \in BOOLEAN
    /\ click \in {NoClick} \cup [to : Places, age : 0..LagTicks]
    /\ context \in Contexts
    /\ typed \in [poll : BOOLEAN, click : BOOLEAN]
    /\ sinceKey \in 0..GraceTicks /\ untilPoll \in 0..PollTicks /\ sinceRead \in 0..ProbeTicks
    /\ calm \in BOOLEAN /\ left \in Nat

\* The foreground reads 0 only while a switch is on its way, and a click goes
\* to the window in front or has left it for another.
SwitchKnown ==
    /\ away => Switched /\ click = NoClick
    /\ click # NoClick /\ Switched => click.to.win = caret.win

\* A click not handled yet is watched for, or the context it would leave has
\* been dropped already.
ClickKnown ==
    /\ click # NoClick \/ pressed => ~typed.click
    /\ click # NoClick /\ pressed => click.age = 0
    /\ click # NoClick /\ ~pressed /\ context.about # Nowhere =>
         /\ context.settle # NoSettle
         /\ context.settle.left + click.age = SettleTicks + 1
         /\ context.before[1] = caret

SettleKnown ==
    context.settle # NoSettle =>
        /\ context.settle.left > 0
        /\ context.settle.base # Unread /\ context.settle.base = context.before

\* The element last seen is one of the window in front, and so is the one read.
FocusKnown ==
    /\ context.focus # Unread => context.focus[1] = front /\ front \in Readable
    /\ ~context.reading.usable => context.focus \in {Unread, context.reading.token}
    /\ context.reading.usable /\ ~Switched /\ caret.win \in Readable =>
         context.reading.token # Unread /\ context.reading.token[1] = caret.win

\* What the polls hold against a context that has been left: the window in
\* front,
BySwitch ==
    /\ Switched
    /\ left + untilPoll <= 1 + 2 * PollTicks
    /\ away => left + untilPoll <= 1 + PollTicks

\* a press, or its settling, with a caret that is not where it was,
ByClick ==
    /\ left = 1 /\ ~typed.click /\ (pressed \/ context.settle # NoSettle)
    /\ \/ context.before = Unread \/ caret.win \notin Publishing
       \/ context.before[1] # caret

\* or an element that is not the one last seen, read already or in time.
Fresh ==
    LET r == context.reading IN
    r.usable /\ r.token \notin {Unread, context.focus} /\ r.token[1] = caret.win
ByCommand ==
    /\ ~Switched /\ context.focus # Unread /\ context.focus[2] # caret.field
    /\ ~context.reading.graced /\ sinceKey = GraceTicks /\ ~inserting
    /\ left <= 1 + sinceRead \/ (Fresh /\ left + untilPoll <= 1 + 2 * PollTicks)

Pending == left > 0 /\ Stale => BySwitch \/ ByClick \/ ByCommand

\* While only typing goes on the polls have nothing against the context: where
\* the caret, or the element's name, is not what they last saw, a flag of the
\* code or the time of the last key excuses it.
AtPeace ==
    /\ ~Switched /\ ~pressed /\ click = NoClick /\ context.settle = NoSettle
    /\ context.about # Nowhere
    /\ typed.poll \/ inserting \/ context.caret \in {Unread, CaretToken}

RenamesExcused ==
    /\ context.reading.usable \/ context.focus # Unread =>
         context.reading.token = FocusToken \/ sinceKey <= ChurnTicks + sinceRead
    /\ \/ context.focus \in {Unread, FocusToken}
       \/ sinceKey + untilPoll <= ChurnTicks + ProbeTicks + PollTicks
    /\ context.focus \in {Unread, context.reading.token} \/ context.reading.graced

PollsInv ==
    /\ PollsTyped /\ SwitchKnown /\ ClickKnown /\ SettleKnown /\ FocusKnown
    /\ Pending /\ LeftBehindIsDropped
    /\ calm => AtPeace /\ RenamesExcused

\* The assumptions, as the arithmetic below uses them.
LEMMA PollBounds ==
    /\ Home \in Places /\ \A p \in Places : p.win # 0 /\ p # Nowhere
    /\ PollTicks \in Nat /\ ProbeTicks \in Nat /\ SettleTicks \in Nat /\ GraceTicks \in Nat
    /\ PollTicks > 0 /\ ProbeTicks > 0 /\ SettleTicks > 0 /\ GraceTicks > 0
    /\ ChurnTicks \in Nat /\ LagTicks \in Nat
    /\ LagTicks < SettleTicks /\ ProbeTicks <= PollTicks
    /\ ChurnTicks + ProbeTicks + PollTicks < GraceTicks
BY PollsAssumption DEF Nowhere

\* What is read of the caret and of the element in focus.
LEMMA TokensRead ==
    ASSUME PollsTyped
    PROVE  /\ CaretToken \in Positions /\ FocusToken \in Elements
           /\ CaretToken # Unread => caret.win \in Publishing /\ CaretToken = <<caret, column>>
           /\ CaretToken = Unread => away \/ caret.win \notin Publishing
           /\ caret.win \in Readable =>
                FocusToken # Unread /\ FocusToken[1] = caret.win /\ FocusToken[2] = caret.field
           /\ caret.win \notin Readable => FocusToken = Unread
<1>1. <<caret, column>> \in Places \X {0, 1} /\ <<caret, column>> # Unread
  BY DEF PollsTyped, Unread
<1>2. ASSUME caret.win \in Readable
      PROVE  /\ <<caret.win, caret.field, skin>> \in Readable \X {p.field : p \in Places} \X {0, 1}
             /\ <<caret.win, caret.field, skin>> # Unread
  BY <1>2 DEF PollsTyped, Unread
<1> QED BY <1>1, <1>2 DEF CaretToken, FocusToken, Positions, Elements

\* Only a window that publishes its elements has one to read.
LEMMA ElementsKnown ==
    ASSUME NEW e \in Elements, e # Unread
    PROVE  e[1] \in Readable
BY DEF Elements

\* The ranges of the clocks.
LEMMA PollCounts ==
    ASSUME PollsTyped
    PROVE  /\ left \in Nat /\ sinceKey \in Nat /\ untilPoll \in Nat /\ sinceRead \in Nat
           /\ sinceKey <= GraceTicks /\ untilPoll <= PollTicks /\ sinceRead <= ProbeTicks
BY PollBounds DEF PollsTyped

\* A reading that is due in time for the poll after it is within two polls.
LEMMA InTwoPolls ==
    ASSUME NEW n \in Nat, NEW m \in Nat,
           (n <= 1 + m /\ m <= ProbeTicks) \/ n + m <= 1 + 2 * PollTicks
    PROVE  n <= 1 + 2 * PollTicks
BY PollBounds

\* Not having read is a value of both kinds.
LEMMA UnreadTyped == Unread \in Positions /\ Unread \in Elements
BY DEF Positions, Elements

\* The types of a context's fields.
LEMMA ContextParts ==
    ASSUME NEW c \in Contexts
    PROVE  /\ c.about \in Places \cup {Nowhere} /\ c.mixed \in BOOLEAN /\ c.inWord \in BOOLEAN
           /\ c.focus \in Elements /\ c.caret \in Positions /\ c.before \in Positions
           /\ c.settle.left \in 0..SettleTicks /\ c.settle.base \in Positions
           /\ c.settle = [left |-> c.settle.left, base |-> c.settle.base]
           /\ c.reading.token \in Elements /\ c.reading.usable \in BOOLEAN
           /\ c.reading.graced \in BOOLEAN
BY DEF Contexts

\* A context that is dropped.
LEMMA ResetGives ==
    ASSUME NEW c \in Contexts
    PROVE  /\ Reset(c) \in Contexts /\ Reset(c).about = Nowhere /\ Reset(c).settle = NoSettle
           /\ Reset(c).before = Unread /\ Reset(c).focus = Unread /\ Reset(c).caret = c.caret
           /\ ~Reset(c).reading.usable /\ Reset(c).reading.token = c.reading.token
<1> DEFINE r == [c.reading EXCEPT !.usable = FALSE]
<1>1. /\ r \in [token : Elements, usable : BOOLEAN, graced : BOOLEAN]
      /\ r.token = c.reading.token /\ r.usable = FALSE
  BY DEF Contexts
<1>2. Reset(c) = [c EXCEPT !.about = Nowhere, !.mixed = FALSE, !.inWord = FALSE,
                           !.settle = NoSettle, !.before = Unread,
                           !.focus = Unread, !.reading = r]
  BY DEF Reset
<1> HIDE DEF r
<1>3. /\ Reset(c).about = Nowhere /\ Reset(c).settle = NoSettle /\ Reset(c).before = Unread
      /\ Reset(c).focus = Unread /\ Reset(c).caret = c.caret /\ Reset(c).reading = r
  BY <1>2 DEF Contexts
<1>4. NoSettle \in [left : 0..SettleTicks, base : Positions]
  BY UnreadTyped, PollBounds DEF NoSettle
<1>5. Reset(c) \in Contexts
  BY <1>1, <1>2, <1>4, UnreadTyped DEF Contexts
<1> QED BY <1>1, <1>3, <1>5

\* What becomes of a reading, and of a context, whose flags change.
LEMMA ReadingGraced ==
    ASSUME NEW c \in Contexts, NEW g \in BOOLEAN
    PROVE  LET d == [c EXCEPT !.reading.graced = g] IN
           /\ d \in Contexts /\ d.about = c.about /\ d.mixed = c.mixed /\ d.settle = c.settle
           /\ d.before = c.before /\ d.focus = c.focus /\ d.caret = c.caret
           /\ (d.reading.usable <=> c.reading.usable) /\ d.reading.token = c.reading.token
           /\ (d.reading.graced <=> g)
<1> DEFINE r == [c.reading EXCEPT !.graced = g]
           d == [c EXCEPT !.reading = r]
<1>1. /\ r \in [token : Elements, usable : BOOLEAN, graced : BOOLEAN]
      /\ r.token = c.reading.token /\ r.usable = c.reading.usable /\ r.graced = g
  BY DEF Contexts
<1> HIDE DEF r
<1>2. /\ d \in Contexts /\ d.about = c.about /\ d.mixed = c.mixed /\ d.settle = c.settle
      /\ d.before = c.before /\ d.focus = c.focus /\ d.caret = c.caret /\ d.reading = r
  BY <1>1 DEF Contexts
<1>3. d = [c EXCEPT !.reading.graced = g]
  BY DEF r
<1> HIDE DEF d
<1> QED BY <1>1, <1>2, <1>3

-----------------------------------------------------------------------------

\* The bridge starts with a context nothing is held against.
LEMMA PollsStart == PollsInit => PollsInv
<1> SUFFICES ASSUME PollsInit
             PROVE  PollsInv
  OBVIOUS
<1> USE DEF PollsInit
<1>1. CaretToken \in Positions /\ FocusToken \in Elements
  <2>1. <<caret, column>> \in Places \X {0, 1}
    BY PollBounds
  <2>2. caret.win \in Readable =>
          <<caret.win, caret.field, skin>> \in Readable \X {p.field : p \in Places} \X {0, 1}
    BY PollBounds
  <2> QED BY <2>1, <2>2 DEF CaretToken, FocusToken, Positions, Elements
<1>2. context \in Contexts
  <2>1. NoSettle \in [left : 0..SettleTicks, base : Positions]
    BY UnreadTyped, PollBounds DEF NoSettle
  <2> QED BY <1>1, <2>1, UnreadTyped DEF Contexts
<1>3. PollsTyped
  <2>1. /\ sinceKey \in 0..GraceTicks /\ untilPoll \in 0..PollTicks /\ sinceRead \in 0..ProbeTicks
        /\ left \in Nat
    BY PollBounds
  <2>2. caret \in Places
    BY PollBounds
  <2>3. typed \in [poll : BOOLEAN, click : BOOLEAN]
    OBVIOUS
  <2> QED BY <1>2, <2>1, <2>2, <2>3 DEF PollsTyped
<1>4. SwitchKnown /\ ClickKnown /\ SettleKnown
  BY DEF SwitchKnown, ClickKnown, SettleKnown, Switched
<1>5. FocusKnown
  <2>1. FocusToken # Unread => FocusToken[1] = caret.win /\ caret.win \in Readable
    BY <1>3, TokensRead
  <2> QED BY <1>3, <2>1, TokensRead DEF FocusKnown
<1>6. Pending /\ LeftBehindIsDropped
  BY PollBounds DEF Pending, LeftBehindIsDropped
<1> QED BY <1>3, <1>4, <1>5, <1>6 DEF PollsInv

-----------------------------------------------------------------------------
(* The user types.                                                         *)

\* Text arrives, of one key or of an insert that goes on.
LEMMA TextKeepsPolls ==
    ASSUME PollsInv, NEW ends \in BOOLEAN, NEW long \in BOOLEAN, TextArrives(ends, long)
    PROVE  PollsInv'
<1> DEFINE about == IF context.about = Nowhere THEN caret ELSE context.about
           mixed == context.mixed \/ context.about \notin {Nowhere, caret}
           c == [context EXCEPT !.reading.graced = TRUE]
<1> USE DEF TextArrives
<1>1. PollsTyped /\ context \in Contexts /\ caret \in Places /\ column \in {0, 1}
  BY DEF PollsInv, PollsTyped
<1>2. /\ c \in Contexts /\ c.settle = context.settle
      /\ c.before = context.before /\ c.focus = context.focus /\ c.caret = context.caret
      /\ (c.reading.usable <=> context.reading.usable) /\ c.reading.token = context.reading.token
      /\ c.reading.graced
  BY <1>1, ReadingGraced
<1>3. context' = [c EXCEPT !.about = about, !.mixed = mixed, !.inWord = ~ends]
  BY <1>1 DEF Contexts
<1>4. about \in Places \cup {Nowhere} /\ about # Nowhere /\ mixed \in BOOLEAN
  BY <1>1, ContextParts, PollBounds
<1> HIDE DEF c
<1>5. /\ context' \in Contexts /\ context'.about = about /\ context'.mixed = mixed
      /\ context'.settle = context.settle /\ context'.before = context.before
      /\ context'.focus = context.focus /\ context'.caret = context.caret
      /\ (context'.reading.usable <=> context.reading.usable)
      /\ context'.reading.token = context.reading.token /\ context'.reading.graced
  <2>1. /\ context' \in Contexts /\ context'.about = about /\ context'.mixed = mixed
        /\ context'.settle = c.settle /\ context'.before = c.before
        /\ context'.focus = c.focus /\ context'.caret = c.caret /\ context'.reading = c.reading
    BY <1>2, <1>3, <1>4 DEF Contexts
  <2> QED BY <1>2, <2>1
<1>6. PollsTyped'
  <2>1. sinceKey' \in 0..GraceTicks
    BY PollBounds DEF NoteOwnKeystroke
  <2>2. typed' \in [poll : BOOLEAN, click : BOOLEAN]
    BY DEF NoteOwnKeystroke
  <2>3. column' \in {0, 1}
    BY <1>1 DEF NextColumn
  <2>4. calm' \in BOOLEAN
    BY <1>1 DEF AtRest, PollsTyped
  <2>5. inserting' \in BOOLEAN
    OBVIOUS
  <2> QED BY <1>1, <1>5, <2>1, <2>2, <2>3, <2>4, <2>5 DEF PollsTyped
<1>7. SwitchKnown' /\ ClickKnown' /\ SettleKnown' /\ FocusKnown'
  BY <1>5 DEF PollsInv, SwitchKnown, ClickKnown, SettleKnown, FocusKnown, HandsFree, Switched
<1>8. ~Stale'
  BY <1>5 DEF Stale
<1>9. Pending' /\ LeftBehindIsDropped'
  BY <1>8 DEF Pending, LeftBehindIsDropped, PollsInv
<1>10. ASSUME calm'
       PROVE  AtPeace'
  <2>1. context.settle = NoSettle /\ ~Switched
    BY <1>10 DEF PollsInv, AtPeace, AtRest, Switched
  <2> QED BY <1>4, <1>5, <2>1 DEF AtPeace, HandsFree, Switched, NoteOwnKeystroke
<1>11. RenamesExcused'
  <2>1. sinceKey' = 0
    BY DEF NoteOwnKeystroke
  <2>2. sinceKey' <= ChurnTicks + sinceRead'
    BY <1>6, <2>1, PollBounds DEF PollsTyped
  <2>3. sinceKey' + untilPoll' <= ChurnTicks + ProbeTicks + PollTicks
    BY <1>6, <2>1, PollBounds DEF PollsTyped
  <2> QED BY <1>5, <2>2, <2>3 DEF RenamesExcused
<1> QED BY <1>6, <1>7, <1>9, <1>10, <1>11 DEF PollsInv

\* An insert that is under way goes on, or ends.
LEMMA InsertKeepsPolls ==
    ASSUME PollsInv, InsertGoesOn \/ InsertEnds
    PROVE  PollsInv'
<1> USE DEF InsertGoesOn, InsertEnds, clocks, modes
<1>1. inserting /\ column' = NextColumn
  OBVIOUS
<1>2. /\ caret' = caret /\ skin' = skin /\ away' = away /\ click' = click /\ pressed' = pressed
      /\ context' = context /\ front' = front /\ typed' = typed /\ left' = left
      /\ sinceKey' = sinceKey /\ untilPoll' = untilPoll /\ sinceRead' = sinceRead
      /\ inserting' \in BOOLEAN /\ (calm' => calm /\ (inserting' \/ typed.poll))
      /\ calm' \in BOOLEAN
  <2>1. PollsTyped
    BY DEF PollsInv
  <2>2. CASE InsertGoesOn
    BY <2>1, <2>2, Zenon DEF PollsTyped
  <2>3. CASE InsertEnds
    <3>1. inserting' \in BOOLEAN /\ calm' \in BOOLEAN /\ (calm' => calm /\ typed.poll)
      BY <2>3
    <3> QED BY <2>3, <3>1, Zenon
  <2> QED BY <2>2, <2>3
<1> HIDE DEF InsertGoesOn, InsertEnds
<1>3. PollsTyped'
  BY <1>1, <1>2 DEF PollsInv, PollsTyped, NextColumn
<1>4. SwitchKnown' /\ ClickKnown' /\ SettleKnown' /\ FocusKnown'
  BY <1>2 DEF PollsInv, SwitchKnown, ClickKnown, SettleKnown, FocusKnown, Switched
<1>5. Pending' /\ LeftBehindIsDropped'
  <2>1. LeftBehindIsDropped'
    BY <1>2 DEF PollsInv, LeftBehindIsDropped
  <2>2. BySwitch => BySwitch'
    BY <1>2 DEF BySwitch, Switched
  <2>3. ByClick => ByClick'
    BY <1>2 DEF ByClick
  <2>4. ~ByCommand
    BY <1>1 DEF ByCommand
  <2>5. left' > 0 /\ Stale' => left > 0 /\ Stale
    BY <1>2 DEF Stale
  <2> QED BY <2>1, <2>2, <2>3, <2>4, <2>5 DEF Pending, PollsInv
<1>6. calm' => AtPeace' /\ RenamesExcused'
  <2>1. FocusToken' = FocusToken
    BY <1>2 DEF FocusToken
  <2>2. RenamesExcused => RenamesExcused'
    BY <1>2, <2>1 DEF RenamesExcused
  <2>3. calm' /\ AtPeace => AtPeace'
    BY <1>2 DEF AtPeace, Switched
  <2> QED BY <1>2, <2>2, <2>3 DEF PollsInv
<1> QED BY <1>3, <1>4, <1>5, <1>6 DEF PollsInv

\* The page renames its element; typing is what makes it do so.
LEMMA RenameKeepsPolls ==
    ASSUME PollsInv, ElementIsRenamed
    PROVE  PollsInv'
<1>1. /\ caret' = caret /\ column' = column /\ away' = away /\ click' = click
      /\ pressed' = pressed /\ context' = context /\ inserting' = inserting /\ front' = front
      /\ typed' = typed /\ left' = left /\ calm' = calm
      /\ sinceKey' = sinceKey /\ untilPoll' = untilPoll /\ sinceRead' = sinceRead
      /\ skin' = 1 - skin /\ sinceKey <= ChurnTicks
  BY DEF ElementIsRenamed, clocks, modes
<1>2. PollsTyped'
  BY <1>1 DEF PollsInv, PollsTyped
<1>3. SwitchKnown' /\ ClickKnown' /\ SettleKnown' /\ FocusKnown'
  BY <1>1 DEF PollsInv, SwitchKnown, ClickKnown, SettleKnown, FocusKnown, Switched
<1>4. Pending' /\ LeftBehindIsDropped'
  <2>1. LeftBehindIsDropped'
    BY <1>1 DEF PollsInv, LeftBehindIsDropped
  <2>2. BySwitch => BySwitch'
    BY <1>1 DEF BySwitch, Switched
  <2>3. ByClick => ByClick'
    BY <1>1 DEF ByClick
  <2>4. ~ByCommand
    BY <1>1, PollBounds DEF ByCommand
  <2>5. left' > 0 /\ Stale' => left > 0 /\ Stale
    BY <1>1 DEF Stale
  <2> QED BY <2>1, <2>2, <2>3, <2>4, <2>5 DEF Pending, PollsInv
<1>5. RenamesExcused => RenamesExcused'
  <2>1. sinceKey' <= ChurnTicks + sinceRead'
    BY <1>1, <1>2, PollBounds DEF PollsTyped
  <2>2. sinceKey' + untilPoll' <= ChurnTicks + ProbeTicks + PollTicks
    BY <1>1, <1>2, PollBounds DEF PollsTyped
  <2> QED BY <1>1, <2>1, <2>2 DEF RenamesExcused
<1>6. AtPeace => AtPeace'
  BY <1>1 DEF AtPeace, Switched, CaretToken
<1> QED BY <1>1, <1>2, <1>3, <1>4, <1>5, <1>6 DEF PollsInv

-----------------------------------------------------------------------------
(* The user, or an app, does something else.                               *)

\* Where the caret lands.
LEMMA CaretLands ==
    ASSUME PollsTyped, NEW p \in Places, GoTo(p)
    PROVE  /\ caret' = p /\ column' \in {0, 1} /\ skin' \in {0, 1}
           /\ p = caret => column' = column /\ skin' = skin
BY DEF GoTo, PollsTyped

\* A click that no poll has seen yet.
LEMMA OutsideClickKeepsPolls ==
    ASSUME PollsInv, NEW p \in Places, OutsideClick(p)
    PROVE  PollsInv'
<1>1. /\ caret' = caret /\ column' = column /\ skin' = skin /\ away' = away
      /\ context' = context /\ inserting' = inserting /\ front' = front
      /\ typed' = typed /\ left' = left /\ calm' = FALSE
      /\ sinceKey' = sinceKey /\ untilPoll' = untilPoll /\ sinceRead' = sinceRead
      /\ click' = [to |-> p, age |-> 0] /\ pressed' = TRUE
      /\ ~away /\ ~typed.click /\ ~pressed /\ click = NoClick
      /\ (p.win # caret.win => front = caret.win)
  BY DEF OutsideClick, clocks, modes
<1>2. click' \in [to : Places, age : 0..LagTicks] /\ click'.to = p /\ click'.age = 0
  BY <1>1, PollBounds
<1>3. PollsTyped'
  BY <1>1, <1>2 DEF PollsInv, PollsTyped
<1>4. SwitchKnown' /\ ClickKnown' /\ SettleKnown' /\ FocusKnown'
  BY <1>1, <1>2 DEF PollsInv, SwitchKnown, ClickKnown, SettleKnown, FocusKnown, Switched
<1>5. Pending' /\ LeftBehindIsDropped'
  <2>1. LeftBehindIsDropped'
    BY <1>1 DEF PollsInv, LeftBehindIsDropped
  <2>2. BySwitch => BySwitch'
    BY <1>1 DEF BySwitch, Switched
  <2>3. ByClick => ByClick'
    BY <1>1 DEF ByClick
  <2>4. ByCommand => ByCommand'
    BY <1>1 DEF ByCommand, Switched, Fresh
  <2>5. left' > 0 /\ Stale' => left > 0 /\ Stale
    BY <1>1 DEF Stale
  <2> QED BY <2>1, <2>2, <2>3, <2>4, <2>5 DEF Pending, PollsInv
<1> QED BY <1>1, <1>3, <1>4, <1>5 DEF PollsInv

\* The app handles a click, before or after the poll that saw it.
LEMMA HandledClickKeepsPolls ==
    ASSUME PollsInv, AppHandlesClick
    PROVE  PollsInv'
<1> DEFINE p == click.to
<1>1. /\ away' = away /\ context' = context /\ inserting' = inserting /\ front' = front
      /\ typed' = typed /\ pressed' = pressed /\ calm' = calm
      /\ sinceKey' = sinceKey /\ untilPoll' = untilPoll /\ sinceRead' = sinceRead
      /\ click # NoClick /\ click' = NoClick /\ GoTo(p)
      /\ left' = IF p = caret THEN left ELSE IF BroughtBack(p) THEN 0 ELSE 1
  BY DEF AppHandlesClick, clocks, modes
<1>2. p \in Places
  BY <1>1 DEF PollsInv, PollsTyped
<1> HIDE DEF p
<1>3. PollsTyped
  BY DEF PollsInv
<1>4. caret' = p /\ column' \in {0, 1} /\ skin' \in {0, 1}
      /\ (p = caret => column' = column /\ skin' = skin)
  BY <1>1, <1>2, <1>3, CaretLands
<1>5. ~away /\ (Switched => p.win = caret.win) /\ ~typed.click
  BY <1>1 DEF PollsInv, SwitchKnown, ClickKnown, p
<1>6. PollsTyped'
  BY <1>1, <1>2, <1>3, <1>4 DEF PollsTyped
<1>7. SwitchKnown' /\ ClickKnown' /\ SettleKnown' /\ FocusKnown'
  <2>1. SwitchKnown' /\ ClickKnown' /\ SettleKnown'
    BY <1>1, <1>5 DEF PollsInv, SwitchKnown, ClickKnown, SettleKnown
  <2>2. ~Switched' => ~Switched /\ caret'.win = caret.win
    BY <1>1, <1>4, <1>5 DEF Switched
  <2> QED BY <1>1, <2>1, <2>2 DEF PollsInv, FocusKnown
<1>8. LeftBehindIsDropped'
  BY <1>1, PollBounds DEF PollsInv, LeftBehindIsDropped
<1>9. Pending'
  <2>1. CASE p = caret
    <3>1. BySwitch => BySwitch'
      BY <1>1, <1>4, <2>1 DEF BySwitch, Switched
    <3>2. ByClick => ByClick'
      BY <1>1, <1>4, <2>1 DEF ByClick
    <3>3. ByCommand => ByCommand'
      BY <1>1, <1>4, <2>1 DEF ByCommand, Switched, Fresh
    <3>4. left' > 0 /\ Stale' => left > 0 /\ Stale
      BY <1>1, <1>4, <2>1 DEF Stale
    <3> QED BY <3>1, <3>2, <3>3, <3>4 DEF Pending, PollsInv
  <2>2. CASE p # caret /\ Stale' /\ left' > 0
    <3>1. left' = 1 /\ ~BroughtBack(p)
      BY <1>1, <2>2
    <3>2. context.about # Nowhere
      BY <1>1, <2>2 DEF Stale
    <3>3. pressed \/ (context.settle # NoSettle /\ context.before[1] = caret)
      BY <1>1, <3>2 DEF PollsInv, ClickKnown
    <3>4. context.before = Unread \/ context.before[1] # p
      BY <2>2, <3>1, <3>3 DEF BroughtBack
    <3>5. ByClick'
      BY <1>1, <1>4, <1>5, <3>1, <3>3, <3>4 DEF ByClick
    <3> QED BY <3>5 DEF Pending
  <2> QED BY <2>1, <2>2 DEF Pending
<1>10. ~calm
  BY <1>1 DEF PollsInv, AtPeace
<1> QED BY <1>1, <1>6, <1>7, <1>8, <1>9, <1>10 DEF PollsInv

\* A switch begins, and the foreground reads 0.
LEMMA SwitchKeepsPolls ==
    ASSUME PollsInv, NEW p \in Places, SwitchApp(p)
    PROVE  PollsInv'
<1>1. /\ context' = context /\ inserting' = inserting /\ front' = front
      /\ typed' = typed /\ pressed' = pressed /\ calm' = FALSE /\ left' = 1
      /\ sinceKey' = sinceKey /\ untilPoll' = untilPoll /\ sinceRead' = sinceRead
      /\ click = NoClick /\ click' = click /\ GoTo(p) /\ away' \in BOOLEAN
      /\ p.win # caret.win /\ front = caret.win
  BY DEF SwitchApp, clocks, modes
<1>2. PollsTyped
  BY DEF PollsInv
<1>3. caret' = p /\ column' \in {0, 1} /\ skin' \in {0, 1}
  BY <1>1, <1>2, CaretLands
<1>4. PollsTyped'
  BY <1>1, <1>2, <1>3 DEF PollsTyped
<1>5. Switched'
  BY <1>1, <1>3 DEF Switched
<1>6. SwitchKnown' /\ ClickKnown' /\ SettleKnown' /\ FocusKnown'
  BY <1>1, <1>5 DEF PollsInv, SwitchKnown, ClickKnown, SettleKnown, FocusKnown
<1>7. BySwitch' /\ LeftBehindIsDropped'
  <2>1. left' + untilPoll' <= 1 + PollTicks /\ left' + untilPoll' <= 1 + 2 * PollTicks
    BY <1>1, <1>4, PollBounds DEF PollsTyped
  <2>2. left' <= 1 + 2 * PollTicks
    BY <1>1, PollBounds
  <2> QED BY <1>5, <2>1, <2>2 DEF BySwitch, LeftBehindIsDropped
<1> QED BY <1>1, <1>4, <1>6, <1>7 DEF PollsInv, Pending

\* The switch is over.
LEMMA SwitchEndKeepsPolls ==
    ASSUME PollsInv, SwitchCompletes
    PROVE  PollsInv'
<1>1. /\ caret' = caret /\ column' = column /\ skin' = skin /\ away /\ away' = FALSE
      /\ click' = click /\ pressed' = pressed
      /\ context' = context /\ inserting' = inserting /\ front' = front
      /\ typed' = typed /\ left' = left /\ calm' = calm
      /\ sinceKey' = sinceKey /\ untilPoll' = untilPoll /\ sinceRead' = sinceRead
  BY DEF SwitchCompletes, clocks, modes
<1>2. PollsTyped'
  BY <1>1 DEF PollsInv, PollsTyped
<1>3. SwitchKnown' /\ ClickKnown' /\ SettleKnown' /\ FocusKnown'
  BY <1>1 DEF PollsInv, SwitchKnown, ClickKnown, SettleKnown, FocusKnown, Switched
<1>4. Pending' /\ LeftBehindIsDropped'
  <2>1. LeftBehindIsDropped'
    BY <1>1 DEF PollsInv, LeftBehindIsDropped
  <2>2. BySwitch => BySwitch'
    BY <1>1 DEF BySwitch, Switched
  <2>3. ByClick => ByClick'
    BY <1>1 DEF ByClick
  <2>4. ByCommand => ByCommand'
    BY <1>1 DEF ByCommand, Switched, Fresh
  <2>5. left' > 0 /\ Stale' => left > 0 /\ Stale
    BY <1>1 DEF Stale
  <2> QED BY <2>1, <2>2, <2>3, <2>4, <2>5 DEF Pending, PollsInv
<1>5. ~calm
  BY <1>1 DEF PollsInv, SwitchKnown, AtPeace
<1> QED BY <1>1, <1>2, <1>3, <1>4, <1>5 DEF PollsInv

\* A move nothing reports leaves no debt: history does not count it.
LEMMA UnseenMoveKeepsPolls ==
    ASSUME PollsInv, NEW p \in Places, MoveUnseen(p)
    PROVE  PollsInv'
<1>1. /\ context' = context /\ inserting' = inserting /\ front' = front /\ away' = away
      /\ typed' = typed /\ pressed' = pressed /\ calm' = FALSE /\ left' = 0
      /\ sinceKey' = sinceKey /\ untilPoll' = untilPoll /\ sinceRead' = sinceRead
      /\ HandsFree /\ click' = click /\ p.win = caret.win
  BY DEF MoveUnseen, clocks, modes
<1>2. PollsTyped
  BY DEF PollsInv
<1>3. caret' = p /\ column' \in {0, 1} /\ skin' \in {0, 1}
  <2>1. CASE p = caret
    BY <1>2, <2>1 DEF MoveUnseen, NextColumn, PollsTyped
  <2>2. CASE p # caret
    BY <1>2, <2>2, CaretLands DEF MoveUnseen
  <2> QED BY <2>1, <2>2
<1>4. PollsTyped'
  BY <1>1, <1>2, <1>3 DEF PollsTyped
<1>5. SwitchKnown' /\ ClickKnown' /\ SettleKnown' /\ FocusKnown'
  BY <1>1, <1>3
     DEF PollsInv, SwitchKnown, ClickKnown, SettleKnown, FocusKnown, Switched, HandsFree
<1>6. Pending' /\ LeftBehindIsDropped'
  BY <1>1, PollBounds DEF Pending, LeftBehindIsDropped
<1> QED BY <1>1, <1>4, <1>5, <1>6 DEF PollsInv

\* The two modes are for other parts of the bridge, and idle steps for none.
LEMMA ModesKeepPolls ==
    ASSUME PollsInv, UNCHANGED pollVars \/ \E on \in BOOLEAN : SetCompatAutoDetect(on)
    PROVE  PollsInv'
<1>1. /\ caret' = caret /\ column' = column /\ skin' = skin /\ away' = away
      /\ click' = click /\ pressed' = pressed
      /\ context' = context /\ inserting' = inserting /\ front' = front
      /\ typed' = typed /\ left' = left /\ calm' = calm
      /\ sinceKey' = sinceKey /\ untilPoll' = untilPoll /\ sinceRead' = sinceRead
  BY DEF SetCompatAutoDetect, clocks, screen, pollVars
<1>2. PollsTyped'
  BY <1>1 DEF PollsInv, PollsTyped
<1>3. SwitchKnown' /\ ClickKnown' /\ SettleKnown' /\ FocusKnown'
  BY <1>1 DEF PollsInv, SwitchKnown, ClickKnown, SettleKnown, FocusKnown, Switched
<1>4. Pending' /\ LeftBehindIsDropped'
  BY <1>1 DEF PollsInv, LeftBehindIsDropped, Pending, Stale, BySwitch, ByClick, ByCommand,
              Fresh, Switched
<1>5. calm => AtPeace' /\ RenamesExcused'
  BY <1>1 DEF PollsInv, AtPeace, RenamesExcused, Switched, CaretToken, FocusToken
<1> QED BY <1>1, <1>2, <1>3, <1>4, <1>5 DEF PollsInv

\* A command that may move focus to another field of its window.
LEMMA CommandKeepsPolls ==
    ASSUME PollsInv, NEW p \in Places, CommandKey(p)
    PROVE  PollsInv'
<1>1. /\ inserting' = inserting /\ front' = front /\ away' = away /\ click' = click
      /\ pressed' = pressed /\ calm' = FALSE
      /\ sinceKey' = GraceTicks /\ untilPoll' = untilPoll /\ sinceRead' = sinceRead
      /\ typed' = [poll |-> TRUE, click |-> TRUE]
      /\ HandsFree /\ p.win = caret.win /\ GoTo(p)
      /\ context' = [context EXCEPT !.reading.graced = FALSE]
  BY DEF CommandKey, NoteOwnKeystroke
<1>2. PollsTyped /\ context \in Contexts
  BY DEF PollsInv, PollsTyped
<1>3. caret' = p /\ column' \in {0, 1} /\ skin' \in {0, 1}
  BY <1>1, <1>2, CaretLands
<1>4. /\ context' \in Contexts /\ context'.about = context.about /\ context'.mixed = context.mixed
      /\ context'.settle = context.settle /\ context'.before = context.before
      /\ context'.focus = context.focus
      /\ (context'.reading.usable <=> context.reading.usable)
      /\ context'.reading.token = context.reading.token /\ ~context'.reading.graced
  BY <1>1, <1>2, ReadingGraced
<1>5. \/ context.focus # Unread /\ context.focus[2] # p.field /\ left' = 1
      \/ /\ ~(context.focus # Unread /\ context.focus[2] # p.field)
         /\ p = caret /\ context.settle = NoSettle /\ left' = left
      \/ left' = 0
  BY DEF CommandKey
<1>6. PollsTyped'
  <2>1. typed' \in [poll : BOOLEAN, click : BOOLEAN]
    BY <1>1
  <2>2. sinceKey' \in 0..GraceTicks
    BY <1>1, PollBounds
  <2>3. left' \in Nat
    BY <1>2, <1>5 DEF PollsTyped
  <2> QED BY <1>1, <1>2, <1>3, <1>4, <2>1, <2>2, <2>3 DEF PollsTyped
<1>7. SwitchKnown' /\ ClickKnown' /\ SettleKnown' /\ FocusKnown'
  BY <1>1, <1>3, <1>4
     DEF PollsInv, SwitchKnown, ClickKnown, SettleKnown, FocusKnown, Switched, HandsFree
<1>8. LeftBehindIsDropped'
  BY <1>5, PollBounds DEF PollsInv, LeftBehindIsDropped
<1>9. Pending'
  <2>1. CASE left' = 0
    BY <2>1 DEF Pending
  <2>2. CASE context.focus # Unread /\ context.focus[2] # p.field /\ left' = 1
    <3>1. CASE Switched
      <4>1. left' + untilPoll' <= 1 + 2 * PollTicks
        <5>1. left' = 1 /\ untilPoll' = untilPoll
          BY <1>1, <2>2
        <5> QED BY <1>2, <5>1, PollCounts, PollBounds
      <4>2. Switched' /\ ~away'
        BY <1>1, <1>3, <3>1 DEF Switched, HandsFree
      <4> QED BY <4>1, <4>2 DEF BySwitch, Pending
    <3>2. CASE ~Switched
      <4>1. left' <= 1 + sinceRead'
        <5>1. left' = 1 /\ sinceRead' = sinceRead
          BY <1>1, <2>2
        <5> QED BY <1>2, <5>1, PollCounts
      <4>2. ~Switched' /\ ~inserting'
        BY <1>1, <1>3, <3>2 DEF Switched, HandsFree
      <4>3. context'.focus # Unread /\ context'.focus[2] # caret'.field
        BY <1>3, <1>4, <2>2
      <4> QED BY <1>1, <1>4, <4>1, <4>2, <4>3 DEF ByCommand, Pending
    <3> QED BY <3>1, <3>2
  <2>3. CASE /\ ~(context.focus # Unread /\ context.focus[2] # p.field)
             /\ p = caret /\ context.settle = NoSettle /\ left' = left
    <3>1. ~ByClick
      BY <1>1, <2>3 DEF ByClick, HandsFree
    <3>2. ~ByCommand
      BY <2>3 DEF ByCommand
    <3>3. BySwitch => BySwitch'
      BY <1>1, <1>3, <2>3 DEF BySwitch, Switched
    <3>4. left' > 0 /\ Stale' => left > 0 /\ Stale
      BY <1>3, <1>4, <2>3 DEF Stale
    <3> QED BY <3>1, <3>2, <3>3, <3>4 DEF Pending, PollsInv
  <2> QED BY <1>5, <2>1, <2>2, <2>3
<1> QED BY <1>1, <1>6, <1>7, <1>8, <1>9 DEF PollsInv

\* Tab and the arrows, which the bridge sends itself.
LEMMA MovingKeyKeepsPolls ==
    ASSUME PollsInv, NEW p \in Places, NEW drops, MovingKey(p, drops),
           drops \/ context.about = Nowhere
    PROVE  PollsInv'
<1> DEFINE c == IF drops THEN Reset(context) ELSE context
<1>1. /\ inserting' = inserting /\ front' = front /\ away' = away /\ click' = click
      /\ pressed' = pressed /\ calm' = FALSE /\ left' = left
      /\ sinceKey' = GraceTicks /\ untilPoll' = untilPoll /\ sinceRead' = sinceRead
      /\ typed' = [poll |-> TRUE, click |-> TRUE]
      /\ HandsFree /\ p.win = caret.win /\ GoTo(p)
      /\ context' = [c EXCEPT !.reading.graced = FALSE]
  BY DEF MovingKey, NoteOwnKeystroke
<1>2. PollsTyped /\ context \in Contexts
  BY DEF PollsInv, PollsTyped
<1>3. caret' = p /\ column' \in {0, 1} /\ skin' \in {0, 1}
  BY <1>1, <1>2, CaretLands
<1>4. /\ c \in Contexts /\ c.about = Nowhere
      /\ \/ /\ c.settle = context.settle /\ c.before = context.before /\ c.focus = context.focus
            /\ (c.reading.usable <=> context.reading.usable)
         \/ /\ c.settle = NoSettle /\ c.focus = Unread /\ ~c.reading.usable
      /\ c.reading.token = context.reading.token
  BY <1>2, ResetGives
<1> HIDE DEF c
<1>5. /\ context' \in Contexts /\ context'.about = Nowhere
      /\ context'.settle = c.settle /\ context'.before = c.before /\ context'.focus = c.focus
      /\ (context'.reading.usable <=> c.reading.usable)
      /\ context'.reading.token = c.reading.token
  BY <1>1, <1>4, ReadingGraced
<1>6. PollsTyped'
  <2>1. typed' \in [poll : BOOLEAN, click : BOOLEAN]
    BY <1>1
  <2>2. sinceKey' \in 0..GraceTicks
    BY <1>1, PollBounds
  <2> QED BY <1>1, <1>2, <1>3, <1>5, <2>1, <2>2 DEF PollsTyped
<1>7. SwitchKnown' /\ ClickKnown'
  BY <1>1 DEF PollsInv, SwitchKnown, ClickKnown, HandsFree
<1>8. SettleKnown'
  BY <1>4, <1>5 DEF PollsInv, SettleKnown
<1>9. FocusKnown'
  BY <1>1, <1>3, <1>4, <1>5 DEF PollsInv, FocusKnown, Switched
<1>10. Pending' /\ LeftBehindIsDropped'
  BY <1>1, <1>5 DEF PollsInv, Pending, Stale, LeftBehindIsDropped
<1> QED BY <1>1, <1>6, <1>7, <1>8, <1>9, <1>10 DEF PollsInv

-----------------------------------------------------------------------------
(* The focus probe and the two timers.                                     *)

\* A reading of the probe, with what excuses the name it may bring.
LEMMA ReadKeepsPolls ==
    ASSUME PollsInv, ProbeReads
    PROVE  PollsInv'
<1> DEFINE now == IF away THEN Unread ELSE FocusToken
           r == [token |-> now, usable |-> TRUE, graced |-> sinceKey < GraceTicks]
<1>1. /\ caret' = caret /\ column' = column /\ skin' = skin /\ away' = away
      /\ click' = click /\ pressed' = pressed
      /\ inserting' = inserting /\ front' = front
      /\ typed' = typed /\ left' = left /\ calm' = calm
      /\ sinceKey' = sinceKey /\ untilPoll' = untilPoll /\ sinceRead' = 0
      /\ context' = [context EXCEPT !.reading = r]
  BY DEF ProbeReads, screen, modes
<1>2. PollsTyped /\ context \in Contexts
  BY DEF PollsInv, PollsTyped
<1>3. now \in Elements
  BY <1>2, TokensRead, UnreadTyped
<1>4. /\ r \in [token : Elements, usable : BOOLEAN, graced : BOOLEAN]
      /\ r.token = now /\ r.usable /\ (r.graced <=> sinceKey < GraceTicks)
  <2> DEFINE g == sinceKey < GraceTicks
  <2>1. g \in BOOLEAN /\ r = [token |-> now, usable |-> TRUE, graced |-> g]
    OBVIOUS
  <2> HIDE DEF now, g, r
  <2>2. /\ r \in [token : Elements, usable : BOOLEAN, graced : BOOLEAN]
        /\ r.token = now /\ r.usable /\ r.graced = g
    BY <1>3, <2>1
  <2> QED BY <2>2 DEF g
<1> HIDE DEF r
<1>5. /\ context' \in Contexts /\ context'.about = context.about /\ context'.mixed = context.mixed
      /\ context'.settle = context.settle /\ context'.before = context.before
      /\ context'.focus = context.focus /\ context'.caret = context.caret /\ context'.reading = r
  BY <1>1, <1>2, <1>4 DEF Contexts
<1>6. PollsTyped'
  <2>1. sinceRead' \in 0..ProbeTicks
    BY <1>1, PollBounds
  <2> QED BY <1>1, <1>2, <1>5, <2>1 DEF PollsTyped
<1>7. SwitchKnown' /\ ClickKnown' /\ SettleKnown'
  BY <1>1, <1>5 DEF PollsInv, SwitchKnown, ClickKnown, SettleKnown, Switched
<1>8. FocusKnown'
  <2>1. ~Switched /\ caret.win \in Readable => now # Unread /\ now[1] = caret.win
    BY <1>2, TokensRead DEF PollsInv, SwitchKnown
  <2> HIDE DEF now
  <2> QED BY <1>1, <1>4, <1>5, <2>1 DEF PollsInv, FocusKnown, Switched
<1>9. Pending' /\ LeftBehindIsDropped'
  <2>1. LeftBehindIsDropped'
    BY <1>1 DEF PollsInv, LeftBehindIsDropped
  <2>2. BySwitch => BySwitch'
    BY <1>1 DEF BySwitch, Switched
  <2>3. ByClick => ByClick'
    BY <1>1, <1>5 DEF ByClick
  <2>4. ByCommand => ByCommand'
    <3> SUFFICES ASSUME ByCommand PROVE ByCommand'
      OBVIOUS
    <3>1. left + untilPoll <= 1 + 2 * PollTicks
      BY <1>2, PollBounds DEF ByCommand, PollsTyped
    <3>2. caret.win \in Readable /\ ~away
      BY DEF ByCommand, PollsInv, FocusKnown, SwitchKnown, Switched
    <3>3. now # Unread /\ now[1] = caret.win /\ now # context.focus
      BY <1>2, <3>2, TokensRead DEF ByCommand
    <3>4. ~r.graced
      BY <1>2, <1>4, PollBounds DEF ByCommand
    <3> HIDE DEF now
    <3>5. Fresh'
      BY <1>1, <1>4, <1>5, <3>3 DEF Fresh
    <3> QED BY <1>1, <1>5, <3>1, <3>4, <3>5 DEF ByCommand, Switched
  <2>5. left' > 0 /\ Stale' => left > 0 /\ Stale
    BY <1>1, <1>5 DEF Stale
  <2> QED BY <2>1, <2>2, <2>3, <2>4, <2>5 DEF Pending, PollsInv
<1>10. calm => AtPeace' /\ RenamesExcused'
  <2> SUFFICES ASSUME calm, AtPeace, RenamesExcused
               PROVE  AtPeace' /\ RenamesExcused'
    BY DEF PollsInv
  <2>1. AtPeace'
    BY <1>1, <1>5 DEF AtPeace, Switched, CaretToken
  <2>2. now = FocusToken /\ FocusToken' = FocusToken
    BY <1>1 DEF AtPeace, PollsInv, SwitchKnown, FocusToken
  <2>3. context.focus \in {Unread, FocusToken} \/ r.graced
    <3>1. sinceKey + untilPoll <= ChurnTicks + ProbeTicks + PollTicks => sinceKey < GraceTicks
      BY <1>2, PollBounds DEF PollsTyped
    <3> QED BY <1>4, <3>1 DEF RenamesExcused
  <2> HIDE DEF now
  <2> QED BY <1>1, <1>4, <1>5, <2>1, <2>2, <2>3 DEF RenamesExcused
<1> QED BY <1>1, <1>6, <1>7, <1>8, <1>9, <1>10 DEF PollsInv

\* The same context after a poll, but for what settles and what was seen.
Kept(c, d) ==
    /\ d.about = c.about /\ d.mixed = c.mixed /\ d.focus = c.focus /\ d.caret = c.caret
    /\ d.reading = c.reading

\* A context that has been dropped.
Dropped(c, d) ==
    /\ d.about = Nowhere /\ d.settle = NoSettle /\ d.before = Unread /\ d.focus = Unread
    /\ ~d.reading.usable /\ d.reading.token = c.reading.token

\* What the click poll makes of a press, and of a caret that settles.
LEMMA ClickPollGives ==
    ASSUME PollsTyped, SettleKnown, NEW d, d = SettleAfter([context EXCEPT !.before = CaretToken],
                                              context.before, CaretToken)
    PROVE  /\ d \in Contexts
           /\ \/ Dropped(context, d)
              \/ /\ Kept(context, d) /\ d.before = CaretToken
                 /\ \/ /\ pressed /\ d.settle = [left |-> SettleTicks, base |-> CaretToken]
                       /\ context.before # Unread /\ CaretToken = context.before
                    \/ /\ ~pressed /\ context.settle # NoSettle
                       /\ CaretToken = context.settle.base \/ (typed.click /\ CaretToken # Unread)
                       /\ \/ context.settle.left = 1 /\ d.settle = NoSettle
                          \/ /\ context.settle.left # 1
                             /\ d.settle = [left |-> context.settle.left - 1, base |-> CaretToken]
                    \/ ~pressed /\ context.settle = NoSettle /\ d.settle = NoSettle
<1> DEFINE now == CaretToken
           c == [context EXCEPT !.before = now]
<1>1. context \in Contexts /\ now \in Positions
  BY TokensRead DEF PollsTyped
<1> HIDE DEF now
<1>2. c \in Contexts /\ Kept(context, c) /\ c.before = now /\ c.settle = context.settle
  BY <1>1 DEF Contexts, Kept
<1>3. Reset(c) \in Contexts /\ Dropped(context, Reset(c))
  BY <1>2, ResetGives DEF Dropped, Kept
<1>4. ASSUME NEW s \in [left : 0..SettleTicks, base : Positions]
      PROVE  LET e == [c EXCEPT !.settle = s] IN
             e \in Contexts /\ Kept(context, e) /\ e.before = now /\ e.settle = s
  <2> HIDE DEF c
  <2> QED BY <1>2 DEF Contexts, Kept
<1>5. d = SettleAfter(c, context.before, now)
  BY DEF now
<1> HIDE DEF c
<1>6. CASE d = Reset(c)
  BY <1>3, <1>6
<1>7. CASE pressed /\ d # Reset(c)
  <2>1. [left |-> SettleTicks, base |-> now] \in [left : 0..SettleTicks, base : Positions]
    BY <1>1, PollBounds
  <2>2. /\ d = [c EXCEPT !.settle = [left |-> SettleTicks, base |-> now]]
        /\ context.before # Unread /\ now = context.before
    BY <1>5, <1>7 DEF SettleAfter, BeginSettle
  <2> QED BY <1>4, <1>7, <2>1, <2>2 DEF now
<1>8. CASE ~pressed /\ context.settle # NoSettle /\ d # Reset(c)
  <2>1. d = ContinueSettle(c, now)
    BY <1>2, <1>5, <1>8 DEF SettleAfter
  <2> DEFINE base == IF typed.click /\ now # Unread THEN now ELSE context.settle.base
  <2>2. /\ now = base
        /\ d = [c EXCEPT !.settle = IF @.left = 1 THEN NoSettle
                                    ELSE [left |-> @.left - 1, base |-> base]]
    BY <1>2, <1>8, <2>1 DEF ContinueSettle
  <2>3. now = context.settle.base \/ (typed.click /\ now # Unread)
    BY <2>2
  <2> HIDE DEF base
  <2>4. d = [c EXCEPT !.settle = IF context.settle.left = 1 THEN NoSettle
                                 ELSE [left |-> context.settle.left - 1, base |-> now]]
    BY <1>2, <2>2
  <2>5. context.settle.left \in 0..SettleTicks
    BY <1>1, ContextParts
  <2>6. CASE context.settle.left = 1
    <3>1. NoSettle \in [left : 0..SettleTicks, base : Positions]
      BY UnreadTyped, PollBounds DEF NoSettle
    <3> QED BY <1>4, <1>8, <2>3, <2>4, <2>6, <3>1 DEF now
  <2>7. CASE context.settle.left # 1 /\ context.settle.left # 0
    <3>1. [left |-> context.settle.left - 1, base |-> now]
             \in [left : 0..SettleTicks, base : Positions]
      BY <1>1, <2>5, <2>7, PollBounds
    <3> QED BY <1>4, <1>8, <2>3, <2>4, <2>7, <3>1 DEF now
  <2>8. context.settle.left # 0
    BY <1>8, <2>5 DEF SettleKnown
  <2> QED BY <2>6, <2>7, <2>8
<1>9. CASE ~pressed /\ context.settle = NoSettle
  <2>1. d = c
    BY <1>2, <1>5, <1>9 DEF SettleAfter
  <2> QED BY <1>2, <1>9, <2>1 DEF now
<1> QED BY <1>6, <1>7, <1>8, <1>9

\* The click poll, and a tick of every clock.
LEMMA ClickPollKeepsPolls ==
    ASSUME PollsInv, ClickPoll
    PROVE  PollsInv'
<1> DEFINE settles == context.settle
<1>1. /\ caret' = caret /\ column' = column /\ skin' = skin /\ away' = away
      /\ front' = front /\ calm' = calm /\ pressed' = FALSE
      /\ typed' = [typed EXCEPT !.click = FALSE]
      /\ context' = SettleAfter([context EXCEPT !.before = CaretToken], context.before, CaretToken)
      /\ untilPoll > 0 /\ untilPoll' = untilPoll - 1
      /\ sinceRead < ProbeTicks /\ sinceRead' = sinceRead + 1
      /\ sinceKey' = (IF sinceKey < GraceTicks THEN sinceKey + 1 ELSE sinceKey)
      /\ left' = (IF left > 0 /\ Stale' THEN left + 1 ELSE 0)
  BY DEF ClickPoll, ClaimsAfterClickPoll, modes
<1>2. /\ click = NoClick \/ click.age < LagTicks
      /\ click' = (IF click = NoClick THEN click ELSE [click EXCEPT !.age = @ + 1])
  BY DEF ClickPoll
<1>3. inserting' = (inserting /\ ~((pressed \/ context.settle # NoSettle)
                                     /\ context'.before = Unread))
  BY DEF ClickPoll
<1>4. PollsTyped /\ SettleKnown /\ context \in Contexts
  BY DEF PollsInv, PollsTyped
<1>5. /\ left \in Nat /\ sinceKey \in Nat /\ untilPoll \in Nat /\ sinceRead \in Nat
      /\ sinceKey <= GraceTicks /\ untilPoll <= PollTicks /\ sinceRead <= ProbeTicks
  BY <1>4, PollCounts
<1>6. /\ context' \in Contexts
      /\ \/ Dropped(context, context')
         \/ /\ Kept(context, context') /\ context'.before = CaretToken
            /\ \/ /\ pressed /\ context'.settle = [left |-> SettleTicks, base |-> CaretToken]
                  /\ context.before # Unread /\ CaretToken = context.before
               \/ /\ ~pressed /\ settles # NoSettle
                  /\ CaretToken = settles.base \/ (typed.click /\ CaretToken # Unread)
                  /\ \/ settles.left = 1 /\ context'.settle = NoSettle
                     \/ /\ settles.left # 1
                        /\ context'.settle = [left |-> settles.left - 1, base |-> CaretToken]
               \/ ~pressed /\ settles = NoSettle /\ context'.settle = NoSettle
  BY <1>1, <1>4, ClickPollGives
<1> HIDE DEF settles
<1>7. /\ click' \in {NoClick} \cup [to : Places, age : 0..LagTicks]
      /\ click' # NoClick => click # NoClick /\ click'.to = click.to /\ click'.age = click.age + 1
  <2>1. CASE click = NoClick
    BY <1>2, <2>1
  <2>2. CASE click # NoClick
    <3>1. click \in [to : Places, age : 0..LagTicks] /\ click.age < LagTicks
      BY <1>2, <1>4, <2>2 DEF PollsTyped
    <3>2. click' = [click EXCEPT !.age = @ + 1]
      BY <1>2, <2>2
    <3> QED BY <2>2, <3>1, <3>2, PollBounds
  <2> QED BY <2>1, <2>2
<1>8. typed' \in [poll : BOOLEAN, click : BOOLEAN] /\ ~typed'.click /\ (typed'.poll <=> typed.poll)
  BY <1>1, <1>4 DEF PollsTyped
<1>9. /\ sinceKey' \in 0..GraceTicks /\ sinceKey' <= sinceKey + 1
      /\ untilPoll' \in 0..PollTicks /\ sinceRead' \in 0..ProbeTicks /\ left' \in Nat
  BY <1>1, <1>5, PollBounds
<1>0. untilPoll' \in Nat /\ sinceRead' \in Nat /\ sinceRead' <= ProbeTicks /\ left' \in Nat
  BY <1>1, <1>5, PollBounds
<1>10. PollsTyped'
  <2>1. inserting' \in BOOLEAN /\ pressed' \in BOOLEAN
    BY <1>1, <1>3
  <2> QED BY <1>1, <1>4, <1>6, <1>7, <1>8, <1>9, <2>1 DEF PollsTyped
<1>11. SwitchKnown'
  <2>1. click = NoClick => click' = NoClick
    BY <1>2
  <2> QED BY <1>1, <1>7, <2>1 DEF PollsInv, SwitchKnown, Switched
<1>12. SettleKnown'
  <2>1. CASE context'.settle = NoSettle
    BY <2>1 DEF SettleKnown
  <2>2. CASE Kept(context, context') /\ context'.settle = [left |-> SettleTicks, base |-> CaretToken]
             /\ context'.before = CaretToken /\ CaretToken = context.before /\ context.before # Unread
    BY <2>2, PollBounds DEF SettleKnown
  <2>3. CASE /\ context'.settle = [left |-> settles.left - 1, base |-> CaretToken]
             /\ context'.before = CaretToken /\ settles # NoSettle /\ settles.left # 1
             /\ CaretToken = settles.base \/ (typed.click /\ CaretToken # Unread)
    <3>1. settles.left \in 0..SettleTicks /\ settles.left > 0 /\ settles.base # Unread
      BY <1>4, <2>3, ContextParts DEF SettleKnown, settles
    <3>2. settles.left - 1 > 0 /\ CaretToken # Unread
      BY <2>3, <3>1, PollBounds
    <3> QED BY <2>3, <3>2 DEF SettleKnown
  <2> QED BY <1>6, <2>1, <2>2, <2>3 DEF Dropped
<1>13. ClickKnown'
  <2> SUFFICES ASSUME click' # NoClick, context'.about # Nowhere
               PROVE  /\ context'.settle # NoSettle
                      /\ context'.settle.left + click'.age = SettleTicks + 1
                      /\ context'.before[1] = caret'
    BY <1>1, <1>8 DEF ClickKnown
  <2>1. /\ Kept(context, context') /\ context'.before = CaretToken /\ context.about # Nowhere
        /\ click # NoClick /\ click'.age = click.age + 1 /\ ~typed.click
    BY <1>6, <1>7 DEF Dropped, Kept, PollsInv, ClickKnown
  <2>2. click.age \in 0..LagTicks /\ click.age < LagTicks
    BY <1>2, <1>4, <2>1 DEF PollsTyped
  <2>3. CASE pressed /\ context'.settle = [left |-> SettleTicks, base |-> CaretToken]
             /\ context.before # Unread /\ CaretToken = context.before
    <3>1. click.age = 0
      BY <2>1, <2>3 DEF PollsInv, ClickKnown
    <3>2. CaretToken = <<caret, column>>
      BY <1>4, <2>3, TokensRead
    <3>3. context'.settle.left = SettleTicks /\ context'.settle # NoSettle
      BY <2>3, PollBounds DEF NoSettle
    <3>4. context'.settle.left + click'.age = SettleTicks + 1
      BY <2>1, <3>1, <3>3, PollBounds
    <3> QED BY <1>1, <2>1, <3>2, <3>3, <3>4
  <2>4. CASE ~pressed
    <3>1. settles # NoSettle /\ settles.left + click.age = SettleTicks + 1
      BY <2>1, <2>4 DEF PollsInv, ClickKnown, settles
    <3>2. settles.left \in 0..SettleTicks
      BY <1>4, ContextParts DEF settles
    <3>3. settles.left # 1 /\ settles.left - 1 > 0
      BY <2>2, <3>1, <3>2, PollBounds
    <3>4. context'.settle = [left |-> settles.left - 1, base |-> CaretToken] /\ CaretToken = settles.base
      BY <1>6, <2>1, <2>4, <3>1, <3>3 DEF Dropped
    <3>5. CaretToken # Unread
      BY <1>4, <3>1, <3>4 DEF SettleKnown, settles
    <3>6. CaretToken = <<caret, column>>
      BY <1>4, <3>5, TokensRead
    <3>7. context'.settle.left = settles.left - 1 /\ context'.settle # NoSettle
      BY <3>3, <3>4 DEF NoSettle
    <3>8. context'.settle.left + click'.age = SettleTicks + 1
      BY <2>1, <2>2, <3>1, <3>2, <3>7, PollBounds
    <3> QED BY <1>1, <2>1, <3>6, <3>7, <3>8
  <2> QED BY <1>6, <2>1, <2>3, <2>4 DEF Dropped
<1>14. FocusKnown'
  BY <1>1, <1>6 DEF PollsInv, FocusKnown, Dropped, Kept, Switched
<1>15. Pending' /\ LeftBehindIsDropped'
  <2>1. CASE left' = 0
    BY <2>1, PollBounds DEF Pending, LeftBehindIsDropped
  <2>2. CASE left' # 0
    <3>1. left > 0 /\ Stale' /\ left' = left + 1
      BY <1>1, <2>2
    <3>2. Kept(context, context') /\ Stale
      BY <1>1, <1>6, <3>1 DEF Stale, Dropped, Kept
    <3>3. ~ByClick
      <4> SUFFICES ASSUME ByClick PROVE FALSE
        OBVIOUS
      <4>1. ~typed.click /\ (pressed \/ settles # NoSettle)
            /\ (context.before = Unread \/ caret.win \notin Publishing \/ context.before[1] # caret)
        BY DEF ByClick, settles
      <4>2. context'.about # Nowhere
        BY <3>1 DEF Stale
      <4>3. CaretToken = context.before /\ CaretToken # Unread
        <5>1. CASE pressed
          BY <1>6, <4>2, <5>1 DEF Dropped
        <5>2. CASE ~pressed
          <6>1. CaretToken = settles.base
            BY <1>6, <4>1, <4>2, <5>2 DEF Dropped
          <6> QED BY <1>4, <4>1, <5>2, <6>1 DEF SettleKnown, settles
        <5> QED BY <5>1, <5>2
      <4>4. CaretToken = <<caret, column>> /\ caret.win \in Publishing
        BY <1>4, <4>3, TokensRead
      <4> QED BY <4>1, <4>3, <4>4
    <3>4. CASE BySwitch
      <4>1. left' + untilPoll' = left + untilPoll
        BY <1>1, <1>5, <3>1
      <4>2. left' + untilPoll' <= 1 + 2 * PollTicks
        BY <3>4, <4>1 DEF BySwitch
      <4>3. away' => left' + untilPoll' <= 1 + PollTicks
        BY <1>1, <3>4, <4>1 DEF BySwitch
      <4>4. left' <= 1 + 2 * PollTicks
        BY <1>0, <4>2, InTwoPolls
      <4> QED BY <1>1, <3>4, <4>2, <4>3, <4>4
              DEF BySwitch, Switched, Pending, LeftBehindIsDropped
    <3>5. CASE ByCommand
      <4>1. left' <= 1 + sinceRead' \/ (Fresh' /\ left' + untilPoll' <= 1 + 2 * PollTicks)
        <5>1. CASE left <= 1 + sinceRead
          BY <1>1, <1>5, <3>1, <5>1
        <5>2. CASE Fresh /\ left + untilPoll <= 1 + 2 * PollTicks
          <6>1. left' + untilPoll' <= 1 + 2 * PollTicks
            BY <1>1, <1>5, <3>1, <5>2, PollBounds
          <6> QED BY <1>1, <3>2, <5>2, <6>1 DEF Fresh, Kept
        <5> QED BY <3>5, <5>1, <5>2 DEF ByCommand
      <4>2. left' <= 1 + 2 * PollTicks
        <5>1. CASE left' <= 1 + sinceRead'
          BY <1>0, <5>1, InTwoPolls
        <5>2. CASE left' + untilPoll' <= 1 + 2 * PollTicks
          BY <1>0, <5>2, InTwoPolls
        <5> QED BY <4>1, <5>1, <5>2
      <4>3. sinceKey' = GraceTicks
        BY <1>1, <3>5, PollBounds DEF ByCommand
      <4>4. ~inserting'
        BY <1>3, <3>5 DEF ByCommand
      <4>5. ByCommand'
        BY <1>1, <3>2, <3>5, <4>1, <4>3, <4>4 DEF ByCommand, Kept, Switched
      <4> QED BY <4>2, <4>5 DEF Pending, LeftBehindIsDropped
    <3> QED BY <3>1, <3>2, <3>3, <3>4, <3>5 DEF PollsInv, Pending
  <2> QED BY <2>1, <2>2
<1>16. calm => AtPeace' /\ RenamesExcused'
  <2> SUFFICES ASSUME calm, AtPeace, RenamesExcused
               PROVE  AtPeace' /\ RenamesExcused'
    BY DEF PollsInv
  <2>1. Kept(context, context') /\ context'.settle = NoSettle
    BY <1>1, <1>4 DEF AtPeace, SettleAfter, Kept, Contexts
  <2>2. inserting' <=> inserting
    BY <1>3 DEF AtPeace
  <2>3. click' = NoClick
    BY <1>2 DEF AtPeace
  <2>4. AtPeace'
    BY <1>1, <1>8, <2>1, <2>2, <2>3 DEF AtPeace, Kept, Switched, CaretToken
  <2>5. sinceKey <= ChurnTicks + sinceRead => sinceKey' <= ChurnTicks + sinceRead'
    BY <1>1, <1>5, <1>9, PollBounds
  <2>6. sinceKey + untilPoll <= ChurnTicks + ProbeTicks + PollTicks
          => sinceKey' + untilPoll' <= ChurnTicks + ProbeTicks + PollTicks
    BY <1>1, <1>5, <1>9, PollBounds
  <2>7. FocusToken' = FocusToken
    BY <1>1 DEF FocusToken
  <2>8. RenamesExcused'
    BY <2>1, <2>5, <2>6, <2>7 DEF RenamesExcused, Kept
  <2> QED BY <2>4, <2>8
<1> QED BY <1>1, <1>10, <1>11, <1>12, <1>13, <1>14, <1>15, <1>16 DEF PollsInv

\* The reading at hand is of an element of the window in front.
Seen(c) == c.reading.usable /\ c.reading.token # Unread /\ c.reading.token[1] = caret.win

\* What the foreground poll makes of a context: dropped, for a reason, or kept
\* with the element and the caret as they are now.
LEMMA ElementSeenGives ==
    ASSUME PollsTyped, NEW c \in Contexts
    PROVE  LET d == ElementSeen(c)
               r == c.reading
           IN /\ d \in Contexts /\ d.reading.token = r.token /\ d.caret = c.caret
              /\ \/ /\ d.about = Nowhere /\ d.settle = NoSettle /\ d.before = Unread
                    /\ ~d.reading.usable /\ d.focus = r.token /\ Seen(c)
                    /\ c.focus \notin {Unread, r.token} /\ ~r.graced /\ ~inserting /\ ~Switched
                 \/ /\ d.about = c.about /\ d.mixed = c.mixed /\ d.settle = c.settle
                    /\ d.before = c.before /\ d.reading = r /\ d.inWord = c.inWord
                    /\ \/ ~Seen(c) /\ d.focus = c.focus
                       \/ /\ Seen(c) /\ d.focus = r.token
                          /\ c.focus \in {Unread, r.token} \/ r.graced \/ inserting \/ Switched
<1> DEFINE r == c.reading
           moved == ~Switched /\ c.focus \notin {Unread, r.token} /\ ~r.graced /\ ~inserting
<1>1. /\ Reset(c) \in Contexts /\ Reset(c).about = Nowhere /\ Reset(c).settle = NoSettle
      /\ Reset(c).before = Unread /\ Reset(c).focus = Unread /\ Reset(c).caret = c.caret
      /\ ~Reset(c).reading.usable /\ Reset(c).reading.token = r.token
  BY ResetGives
<1>2. r.token \in Elements
  BY ContextParts
<1>3. ASSUME NEW e \in Contexts, NEW t \in Elements
      PROVE  LET f == [e EXCEPT !.focus = t] IN
             /\ f \in Contexts /\ f.focus = t /\ f.about = e.about /\ f.mixed = e.mixed
             /\ f.settle = e.settle /\ f.before = e.before /\ f.reading = e.reading
             /\ f.inWord = e.inWord /\ f.caret = e.caret
  BY DEF Contexts
<1>4. CASE ~Seen(c)
  BY <1>4 DEF ElementSeen, Seen
<1>5. CASE Seen(c) /\ moved
  <2>1. ElementSeen(c) = [Reset(c) EXCEPT !.focus = r.token]
    BY <1>5 DEF ElementSeen, Seen
  <2> QED BY <1>1, <1>2, <1>3, <1>5, <2>1
<1>6. CASE Seen(c) /\ ~moved
  <2>1. ElementSeen(c) = [c EXCEPT !.focus = r.token]
    BY <1>6 DEF ElementSeen, Seen
  <2> QED BY <1>2, <1>3, <1>6, <2>1
<1> QED BY <1>4, <1>5, <1>6

\* What the foreground poll makes of a caret that is elsewhere.
LEMMA CaretSeenGives ==
    ASSUME PollsTyped, NEW c \in Contexts
    PROVE  LET d == CaretSeen(c) IN
           /\ d \in Contexts /\ d.reading.token = c.reading.token /\ d.caret = CaretToken
           /\ \/ /\ d.about = Nowhere /\ d.settle = NoSettle /\ d.before = Unread
                 /\ ~d.reading.usable /\ d.focus = Unread
                 /\ ~typed.poll /\ ~inserting /\ c.caret \notin {Unread, CaretToken}
              \/ /\ d.about = c.about /\ d.mixed = c.mixed /\ d.settle = c.settle
                 /\ d.before = c.before /\ d.reading = c.reading /\ d.focus = c.focus
<1> DEFINE now == CaretToken
           stays == now = Unread \/ Switched \/ c.caret \in {Unread, now}
                      \/ typed.poll \/ inserting \/ c.inWord
<1>1. /\ Reset(c) \in Contexts /\ Reset(c).about = Nowhere /\ Reset(c).settle = NoSettle
      /\ Reset(c).before = Unread /\ Reset(c).focus = Unread
      /\ ~Reset(c).reading.usable /\ Reset(c).reading.token = c.reading.token
  BY ResetGives
<1>2. now \in Positions
  BY TokensRead
<1> HIDE DEF now
<1>3. ASSUME NEW e \in Contexts
      PROVE  LET f == [e EXCEPT !.caret = now] IN
             /\ f \in Contexts /\ f.caret = now /\ f.focus = e.focus /\ f.about = e.about
             /\ f.mixed = e.mixed /\ f.settle = e.settle /\ f.before = e.before
             /\ f.reading = e.reading
  BY <1>2 DEF Contexts
<1>4. CaretSeen(c) = [(IF stays THEN c ELSE Reset(c)) EXCEPT !.caret = now]
  BY DEF CaretSeen, now
<1>5. CASE stays
  <2>1. CaretSeen(c) = [c EXCEPT !.caret = now]
    BY <1>4, <1>5
  <2> QED BY <1>3, <2>1 DEF now
<1>6. CASE ~stays
  <2>1. CaretSeen(c) = [Reset(c) EXCEPT !.caret = now]
    BY <1>4, <1>6
  <2> QED BY <1>1, <1>3, <1>6, <2>1 DEF now
<1> QED BY <1>5, <1>6

\* The whole foreground poll: the window, then its element, then its caret.
LEMMA ForegroundPollGives ==
    ASSUME PollsTyped,
           NEW d, d = CaretSeen(ElementSeen(IF Switched THEN Reset(context) ELSE context))
    PROVE  /\ d \in Contexts /\ d.reading.token = context.reading.token /\ d.caret = CaretToken
           /\ \/ /\ d.about = Nowhere /\ d.settle = NoSettle /\ ~d.reading.usable
                 /\ d.focus = Unread \/ (d.focus = context.reading.token /\ Seen(context))
                 /\ \/ Switched
                    \/ /\ Seen(context) /\ context.focus \notin {Unread, context.reading.token}
                       /\ ~context.reading.graced /\ ~inserting
                    \/ /\ ~typed.poll /\ ~inserting
                       /\ context.caret \notin {Unread, CaretToken}
              \/ /\ ~Switched
                 /\ d.about = context.about /\ d.mixed = context.mixed
                 /\ d.settle = context.settle /\ d.before = context.before
                 /\ d.reading = context.reading
                 /\ \/ ~Seen(context) /\ d.focus = context.focus
                    \/ /\ Seen(context) /\ d.focus = context.reading.token
                       /\ \/ context.focus \in {Unread, context.reading.token}
                          \/ context.reading.graced \/ inserting
<1>1. context \in Contexts
  BY DEF PollsTyped
<1>2. CASE Switched
  <2> DEFINE c == Reset(context)
             e == ElementSeen(c)
  <2>1. /\ c \in Contexts /\ c.about = Nowhere /\ c.settle = NoSettle /\ c.focus = Unread
        /\ ~c.reading.usable /\ c.reading.token = context.reading.token
    BY <1>1, ResetGives
  <2> HIDE DEF c
  <2>2. /\ e \in Contexts /\ e.about = Nowhere /\ e.settle = NoSettle /\ e.focus = Unread
        /\ ~e.reading.usable /\ e.reading.token = context.reading.token
    <3>1. ~Seen(c)
      BY <2>1 DEF Seen
    <3> QED BY <2>1, <3>1, ElementSeenGives
  <2> HIDE DEF e
  <2>3. d = CaretSeen(e)
    BY <1>2 DEF c, e
  <2> QED BY <1>2, <2>2, <2>3, CaretSeenGives
<1>3. CASE ~Switched
  <2> DEFINE e == ElementSeen(context)
             r == context.reading
  <2>1. /\ e \in Contexts /\ e.reading.token = r.token /\ e.caret = context.caret
        /\ \/ /\ e.about = Nowhere /\ e.settle = NoSettle /\ e.before = Unread
              /\ ~e.reading.usable /\ e.focus = r.token /\ Seen(context)
              /\ context.focus \notin {Unread, r.token} /\ ~r.graced /\ ~inserting
           \/ /\ e.about = context.about /\ e.mixed = context.mixed /\ e.settle = context.settle
              /\ e.before = context.before /\ e.reading = r
              /\ \/ ~Seen(context) /\ e.focus = context.focus
                 \/ /\ Seen(context) /\ e.focus = r.token
                    /\ context.focus \in {Unread, r.token} \/ r.graced \/ inserting
    BY <1>1, <1>3, ElementSeenGives
  <2>2. d = CaretSeen(e)
    BY <1>3
  <2> HIDE DEF e
  <2>3. /\ d \in Contexts /\ d.reading.token = r.token /\ d.caret = CaretToken
        /\ \/ /\ d.about = Nowhere /\ d.settle = NoSettle /\ d.before = Unread
              /\ ~d.reading.usable /\ d.focus = Unread
              /\ ~typed.poll /\ ~inserting /\ context.caret \notin {Unread, CaretToken}
           \/ /\ d.about = e.about /\ d.mixed = e.mixed /\ d.settle = e.settle
              /\ d.before = e.before /\ d.reading = e.reading /\ d.focus = e.focus
    BY <2>1, <2>2, CaretSeenGives
  <2> QED BY <1>3, <2>1, <2>3
<1> QED BY <1>2, <1>3

\* The foreground poll.
LEMMA ForegroundPollKeepsPolls ==
    ASSUME PollsInv, ForegroundPoll
    PROVE  PollsInv'
<1>1. /\ caret' = caret /\ column' = column /\ skin' = skin /\ click' = click
      /\ pressed' = pressed /\ sinceKey' = sinceKey /\ sinceRead' = sinceRead
      /\ calm' = calm /\ left' = left /\ untilPoll = 0 /\ untilPoll' = PollTicks
  BY DEF ForegroundPoll
<1>2. PollsTyped /\ context \in Contexts /\ SettleKnown /\ FocusKnown
  BY DEF PollsInv, PollsTyped
<1>3. /\ left \in Nat /\ sinceKey \in Nat /\ sinceRead \in Nat /\ sinceRead <= ProbeTicks
  BY <1>2, PollCounts
<1>4. untilPoll' \in 0..PollTicks
  BY <1>1, PollBounds
<1>5. LeftBehindIsDropped'
  BY <1>1 DEF PollsInv, LeftBehindIsDropped
<1>6. CASE away
  <2>1. /\ away' = FALSE /\ context' = context /\ inserting' = inserting /\ front' = front
        /\ typed' = typed
    BY <1>6 DEF ForegroundPoll
  <2>2. PollsTyped'
    BY <1>1, <1>2, <1>4, <2>1 DEF PollsTyped
  <2>3. SwitchKnown' /\ ClickKnown' /\ SettleKnown' /\ FocusKnown'
    BY <1>1, <2>1 DEF PollsInv, SwitchKnown, ClickKnown, SettleKnown, FocusKnown, Switched
  <2>4. Switched
    BY <1>6 DEF PollsInv, SwitchKnown
  <2>5. Pending'
    <3>1. BySwitch => BySwitch'
      <4> SUFFICES ASSUME BySwitch PROVE BySwitch'
        OBVIOUS
      <4>1. left <= 1 + PollTicks
        BY <1>1, <1>3, <1>6, PollBounds DEF BySwitch
      <4>2. left' + untilPoll' <= 1 + 2 * PollTicks
        BY <1>1, <1>3, <4>1, PollBounds
      <4> QED BY <1>1, <2>1, <2>4, <4>2 DEF BySwitch, Switched
    <3>2. ByClick => ByClick'
      BY <1>1, <2>1 DEF ByClick
    <3>3. ~ByCommand
      BY <2>4 DEF ByCommand
    <3>4. left' > 0 /\ Stale' => left > 0 /\ Stale
      BY <1>1, <2>1 DEF Stale
    <3> QED BY <3>1, <3>2, <3>3, <3>4 DEF Pending, PollsInv
  <2>6. ~calm
    BY <2>4 DEF PollsInv, AtPeace
  <2> QED BY <1>1, <1>5, <2>2, <2>3, <2>5, <2>6 DEF PollsInv
<1>7. CASE ~away
  <2> DEFINE r == context.reading
  <2>1. /\ context' = CaretSeen(ElementSeen(IF Switched THEN Reset(context) ELSE context))
        /\ inserting' = (inserting /\ ~Switched) /\ typed' = [typed EXCEPT !.poll = FALSE]
        /\ front' = caret.win /\ away' = away
    BY <1>7 DEF ForegroundPoll
  <2>2. /\ context' \in Contexts /\ context'.reading.token = r.token /\ context'.caret = CaretToken
        /\ \/ /\ context'.about = Nowhere /\ context'.settle = NoSettle /\ ~context'.reading.usable
              /\ context'.focus = Unread \/ (context'.focus = r.token /\ Seen(context))
              /\ \/ Switched
                 \/ /\ Seen(context) /\ context.focus \notin {Unread, r.token}
                    /\ ~r.graced /\ ~inserting
                 \/ ~typed.poll /\ ~inserting /\ context.caret \notin {Unread, CaretToken}
           \/ /\ ~Switched
              /\ context'.about = context.about /\ context'.mixed = context.mixed
              /\ context'.settle = context.settle /\ context'.before = context.before
              /\ context'.reading = r
              /\ \/ ~Seen(context) /\ context'.focus = context.focus
                 \/ /\ Seen(context) /\ context'.focus = r.token
                    /\ context.focus \in {Unread, r.token} \/ r.graced \/ inserting
    BY <1>2, <2>1, ForegroundPollGives
  <2> HIDE DEF r
  <2>3. /\ typed' \in [poll : BOOLEAN, click : BOOLEAN] /\ (typed'.click <=> typed.click)
    BY <1>2, <2>1 DEF PollsTyped
  <2>4. PollsTyped'
    <3>1. inserting' \in BOOLEAN
      BY <2>1
    <3> QED BY <1>1, <1>2, <1>4, <2>1, <2>2, <2>3, <3>1 DEF PollsTyped
  <2>5. ~Switched'
    BY <1>1, <2>1 DEF Switched
  <2>6. SwitchKnown' /\ ClickKnown'
    <3>1. SwitchKnown'
      BY <1>1, <1>7, <2>1, <2>5 DEF SwitchKnown
    <3>2. ClickKnown'
      BY <1>1, <2>2, <2>3 DEF PollsInv, ClickKnown
    <3> QED BY <3>1, <3>2
  <2>7. SettleKnown'
    BY <1>2, <2>2 DEF SettleKnown
  <2>8. Seen(context) => r.usable /\ r.token # Unread /\ r.token[1] = caret.win
                           /\ caret.win \in Readable
    <3>1. r.token \in Elements
      BY <1>2, ContextParts DEF r
    <3> QED BY <3>1, ElementsKnown DEF Seen, r
  <2>9. ~Switched /\ context.focus # Unread /\ ~Seen(context) =>
           /\ context.focus[1] = caret.win /\ caret.win \in Readable
           /\ context.focus = r.token
    BY <1>2 DEF FocusKnown, Switched, Seen, r
  <2>10. FocusKnown'
    <3>1. context'.focus # Unread => context'.focus[1] = front' /\ front' \in Readable
      BY <2>1, <2>2, <2>8, <2>9
    <3>2. ~context'.reading.usable => context'.focus \in {Unread, context'.reading.token}
      BY <2>2, <2>8, <2>9
    <3>3. context'.reading.usable /\ caret'.win \in Readable =>
             context'.reading.token # Unread /\ context'.reading.token[1] = caret'.win
      BY <1>1, <1>2, <2>2 DEF FocusKnown, r
    <3> QED BY <3>1, <3>2, <3>3 DEF FocusKnown
  <2>11. Pending'
    <3> SUFFICES ASSUME left' > 0, Stale' PROVE ByClick' \/ ByCommand'
      BY DEF Pending
    <3>1. context'.about # Nowhere
      BY DEF Stale
    <3>2. left > 0 /\ Stale /\ ~Switched
      BY <1>1, <2>2, <3>1 DEF Stale
    <3>3. ByClick => ByClick'
      BY <1>1, <2>2, <2>3, <3>1 DEF ByClick
    <3>4. ByCommand => ByCommand'
      <4> SUFFICES ASSUME ByCommand PROVE ByCommand'
        OBVIOUS
      <4>1. context'.focus = context.focus
        BY <2>2, <2>9, <3>1 DEF ByCommand, r
      <4>2. ~Fresh
        BY <2>2, <2>9, <3>1 DEF ByCommand, Fresh, Seen, r
      <4>3. left' <= 1 + sinceRead'
        BY <1>1, <4>2 DEF ByCommand
      <4>4. ~context'.reading.graced
        BY <2>2, <3>1 DEF ByCommand, r
      <4> QED BY <1>1, <2>1, <2>5, <4>1, <4>3, <4>4 DEF ByCommand
    <3> QED BY <3>2, <3>3, <3>4 DEF PollsInv, Pending, BySwitch
  <2>12. calm => AtPeace' /\ RenamesExcused'
    <3> SUFFICES ASSUME calm, AtPeace, RenamesExcused
                 PROVE  AtPeace' /\ RenamesExcused'
      BY DEF PollsInv
    <3>1. context'.about # Nowhere /\ context'.settle = NoSettle /\ context'.reading = r
      BY <2>2 DEF AtPeace, RenamesExcused, r
    <3>2. AtPeace'
      BY <1>1, <2>1, <2>2, <2>5, <3>1 DEF AtPeace, CaretToken
    <3>3. FocusToken' = FocusToken
      BY <1>1 DEF FocusToken
    <3>4. context'.reading.usable \/ context'.focus # Unread =>
            r.token = FocusToken \/ sinceKey <= ChurnTicks + sinceRead
      BY <2>2, <2>8, <2>9, <3>1 DEF RenamesExcused, r
    <3>5. sinceKey <= ChurnTicks + sinceRead
             => sinceKey' + untilPoll' <= ChurnTicks + ProbeTicks + PollTicks
      BY <1>1, <1>3, PollBounds
    <3>6. context'.focus = Unread \/ context'.focus = r.token
      BY <2>2, <2>9, <3>1
    <3>7. RenamesExcused'
      BY <1>1, <2>2, <3>1, <3>3, <3>4, <3>5, <3>6 DEF RenamesExcused
    <3> QED BY <3>2, <3>7
  <2> QED BY <1>1, <1>5, <2>4, <2>6, <2>7, <2>10, <2>11, <2>12 DEF PollsInv
<1> QED BY <1>6, <1>7

-----------------------------------------------------------------------------

\* Every step keeps the invariant.
LEMMA PollsStep == PollsInv /\ [PollsNext]_pollVars => PollsInv'
<1> SUFFICES ASSUME PollsInv, [PollsNext]_pollVars PROVE PollsInv'
  OBVIOUS
<1>1. ASSUME NEW ends \in BOOLEAN, PressChar(ends) PROVE PollsInv'
  BY <1>1, TextKeepsPolls DEF PressChar
<1>2. CASE BeginLongInsert
  BY <1>2, TextKeepsPolls DEF BeginLongInsert
<1>3. ASSUME NEW p \in Places, TabKey(p) PROVE PollsInv'
  BY <1>3, MovingKeyKeepsPolls DEF TabKey
<1>4. ASSUME NEW p \in Places, ArrowKey(p) PROVE PollsInv'
  BY <1>4, MovingKeyKeepsPolls DEF ArrowKey
<1> QED BY <1>1, <1>2, <1>3, <1>4, InsertKeepsPolls, RenameKeepsPolls, OutsideClickKeepsPolls,
           HandledClickKeepsPolls, SwitchKeepsPolls, SwitchEndKeepsPolls, CommandKeepsPolls,
           UnseenMoveKeepsPolls, ModesKeepPolls, ReadKeepsPolls, ClickPollKeepsPolls,
           ForegroundPollKeepsPolls DEF PollsNext

\* The polls' invariant holds throughout.
LEMMA PollsInvHolds == PollsSpec => []PollsInv
BY PollsStart, PollsStep, PTL DEF PollsSpec

\* A context left by a click, by a switch or by a command that changed the
\* field is dropped within two foreground polls: until then the window in front,
\* the press and its settling, or the element read is held against it.
THEOREM LeftBehindGoes == PollsSpec => []LeftBehindIsDropped
<1>1. PollsInv => LeftBehindIsDropped
  BY DEF PollsInv
<1> QED BY <1>1, PollsInvHolds, PTL

\* No poll drops the context of someone who only types: the keyboard's own
\* keystrokes claim every move of the caret, and the grace every new name.
THEOREM TypingStays == PollsSpec => TypingIsNoMove
<1>1. PollsInv' => (calm /\ calm' /\ context.about # Nowhere => context'.about # Nowhere)
  BY DEF PollsInv, AtPeace
<1> QED BY <1>1, PollsInvHolds, PTL DEF PollsSpec, TypingIsNoMove
=============================================================================
