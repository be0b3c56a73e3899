-------------------------- MODULE DictationProofs --------------------------
(***************************************************************************)
(* What holds of dictation for runs of any length: the microphone is never *)
(* open without a ceiling, a password field silences everything, and no    *)
(* phrase is lost or typed twice.                                          *)
(***************************************************************************)
EXTENDS Dictation, TLAPS

\* Each waiting state has what it waits for, and nothing else is left over.
StatesMatch ==
    /\ stream.open <=> state \in {"connecting", "listening", "finishing"}
    /\ request # "none" <=> state = "polishing"
    /\ state = "finishing" <=> stream.finishing
    /\ ~Active => text = 0

\* A run that Claude is to see, or whose words are not typed, is held back.
HeldBack ==
    /\ mode.polish => mode.accumulate
    /\ mode.purpose = "write" => mode.polish
    /\ ~mode.types => mode.accumulate

\* While a run is under way its text is all that was heard, and what has been
\* typed is all of it or, held back, none.
Accounted ==
    /\ Active => ~cancelled /\ text = heard
    /\ text > 0 => got
    /\ Active => out.typed = IF mode.accumulate THEN 0 ELSE heard
    /\ request # "none" => request = mode.purpose /\ mode.polish

\* A stream that is not open is the one no run has begun with, and the
\* microphone's ceiling has gone when the stream has.
StreamWhole ==
    /\ stream.up => stream.open
    /\ ~stream.open => stream = NoStream
    /\ Active => networked /\ (ceiling => Live)

Inv ==
    /\ TypeOK /\ StatesMatch /\ MicIsBounded /\ PrivacyIsSilent /\ WordsOnce /\ NothingLost
    /\ HeldBack /\ Accounted /\ StreamWhole

-----------------------------------------------------------------------------
(* What the ways a run goes on have in common.                             *)

\* The outcome o is one a run may have.
Possible(o) ==
    /\ o \in Outcomes
    /\ o.typed <= heard
    /\ o.typed > 0 => mode.types /\ mode.purpose = "dictate"

\* It accounts for all that was heard.
Complete(o) ==
    heard > 0 => IF mode.purpose = "write" THEN o.draft \/ o.kept
                 ELSE o.shown /\ (mode.types => o.typed = heard)

\* A run that ends with a possible outcome, complete unless it was cancelled.
LEMMA EndKeepsInv ==
    ASSUME Inv, EndRun, request' = "none", reprocess' \in BOOLEAN, privacy' \in BOOLEAN,
           privacy' => reprocess' = FALSE, UNCHANGED <<settings, networked, heard>>,
           cancelled' \in BOOLEAN, Possible(out'), ~cancelled' => Complete(out')
    PROVE  Inv'
<1> USE DEF Inv, Active, Live
<1>1. /\ state' = "idle" /\ mic' = FALSE /\ ceiling' = FALSE /\ silence' = FALSE
      /\ stream' = NoStream /\ text' = 0 /\ audio' = 0 /\ mode' = mode /\ got' = got
  BY DEF EndRun, Quiet
<1>2. NoStream \in Streams /\ NoStream.open = FALSE /\ NoStream.finishing = FALSE
                          /\ NoStream.up = FALSE
  BY DEF NoStream, Streams
<1>3. TypeOK'
  <2>1. 0 \in 0..MaxPhrases
    BY ConstantsAssumption
  <2>2. out' \in Outcomes
    BY DEF Possible
  <2>3. TypeOK
    OBVIOUS
  <2>4. stream' \in Streams /\ text' \in 0..MaxPhrases /\ audio' \in 0..2
    BY <1>1, <1>2, <2>1
  <2>5. mode' \in Modes /\ got' \in BOOLEAN /\ settings' \in Settings
        /\ networked' \in BOOLEAN /\ heard' \in 0..MaxPhrases
    BY <1>1, <2>3 DEF TypeOK
  <2>6. mic' \in BOOLEAN /\ silence' \in BOOLEAN /\ ceiling' \in BOOLEAN
    BY <1>1
  <2> QED BY <1>1, <2>2, <2>4, <2>5, <2>6 DEF TypeOK
<1>4. StatesMatch'
  BY <1>1, <1>2 DEF StatesMatch
<1>5. MicIsBounded' /\ PrivacyIsSilent'
  BY <1>1 DEF MicIsBounded, PrivacyIsSilent
<1>6. WordsOnce' /\ NothingLost'
  BY <1>1 DEF WordsOnce, NothingLost, Possible, Complete
<1>7. HeldBack' /\ Accounted' /\ StreamWhole'
  BY <1>1, <1>2 DEF HeldBack, Accounted, StreamWhole
<1> QED BY <1>3, <1>4, <1>5, <1>6, <1>7

\* A stop, while there is a stream to flush.
LEMMA StopKeepsInv ==
    ASSUME Inv, stream.open, Stop, UNCHANGED <<world, heard, cancelled>>
    PROVE  Inv'
<1> USE DEF Inv, Active, Live
<1>1. /\ state' = "finishing" /\ mic' = FALSE /\ ceiling' = FALSE /\ silence' = FALSE
      /\ mode' = mode /\ text' = text /\ got' = got /\ audio' = audio
      /\ request' = request /\ reprocess' = reprocess /\ out' = out
      /\ settings' = settings /\ privacy' = privacy /\ networked' = networked
      /\ heard' = heard /\ cancelled' = cancelled
  BY DEF Stop, Quiet, run, world
<1>2. stream' \in Streams /\ stream'.open /\ stream'.finishing /\ stream'.up = stream.up
  <2>1. stream \in Streams
    BY DEF TypeOK
  <2>2. CASE stream.finishing
    BY <2>1, <2>2 DEF Stop
  <2>3. CASE ~stream.finishing
    <3>1. stream' = [stream EXCEPT !.finishing = TRUE, !.asked = stream.up]
      BY <2>3 DEF Stop
    <3> QED BY <2>1, <3>1 DEF Streams
  <2> QED BY <2>2, <2>3
<1>3. state \in {"connecting", "listening", "finishing"} /\ request = "none"
  BY DEF StatesMatch, TypeOK
<1>4. TypeOK'
  BY <1>1, <1>2 DEF TypeOK
<1>5. StatesMatch'
  BY <1>1, <1>2, <1>3 DEF StatesMatch
<1>6. MicIsBounded' /\ PrivacyIsSilent'
  BY <1>1, <1>3 DEF MicIsBounded, PrivacyIsSilent
<1>7. WordsOnce' /\ NothingLost'
  BY <1>1 DEF WordsOnce, NothingLost
<1>8. HeldBack' /\ Accounted' /\ StreamWhole'
  BY <1>1, <1>2, <1>3 DEF HeldBack, Accounted, StreamWhole
<1> QED BY <1>4, <1>5, <1>6, <1>7, <1>8

\* The end of a run whose stream is still open, in whichever way.
LEMMA FinishKeepsInv ==
    ASSUME Inv, stream.open, FinishRun, reprocess' = reprocess,
           UNCHANGED <<world, heard, cancelled>>
    PROVE  Inv'
<1> USE DEF Inv, Active, Live
<1>1. /\ settings' = settings /\ privacy' = privacy /\ networked' = networked
      /\ heard' = heard /\ cancelled' = cancelled
  BY DEF world
<1>2. /\ state \in {"connecting", "listening", "finishing"} /\ request = "none"
      /\ ~privacy /\ ~cancelled /\ text = heard
      /\ out.typed = IF mode.accumulate THEN 0 ELSE heard
  BY DEF StatesMatch, TypeOK, PrivacyIsSilent, Accounted
<1>3. text \in Nat /\ heard \in Nat /\ out \in Outcomes /\ mode \in Modes
  BY ConstantsAssumption DEF TypeOK
<1>4. CASE text = 0 /\ EndRun /\ UNCHANGED <<request, out>>
  <2>1. Possible(out')
    BY <1>2, <1>3, <1>4 DEF Possible, WordsOnce
  <2>2. Complete(out')
    BY <1>2, <1>3, <1>4 DEF Complete
  <2>3. request' = "none" /\ reprocess' \in BOOLEAN /\ privacy' \in BOOLEAN
                         /\ cancelled' \in BOOLEAN /\ ~privacy'
    BY <1>1, <1>2, <1>4 DEF TypeOK
  <2> QED BY <1>1, <1>4, <2>1, <2>2, <2>3, EndKeepsInv
<1>5. CASE /\ text > 0 /\ mode.polish
           /\ Quiet /\ stream' = NoStream /\ state' = "polishing"
           /\ request' = mode.purpose
           /\ UNCHANGED <<run, out>>
  <2>1. /\ state' = "polishing" /\ stream' = NoStream /\ request' = mode.purpose
        /\ mic' = FALSE /\ ceiling' = FALSE /\ silence' = FALSE
        /\ mode' = mode /\ text' = text /\ got' = got /\ audio' = audio /\ out' = out
    BY <1>5 DEF Quiet, run
  <2>2. NoStream \in Streams /\ NoStream.open = FALSE /\ NoStream.finishing = FALSE
                            /\ NoStream.up = FALSE
    BY DEF NoStream, Streams
  <2>3. mode.purpose \in Purposes /\ mode.purpose # "none"
    BY <1>3 DEF Modes, Purposes
  <2>4. TypeOK'
    BY <1>1, <2>1, <2>2, <2>3 DEF TypeOK
  <2>5. StatesMatch'
    BY <1>5, <2>1, <2>2, <2>3 DEF StatesMatch
  <2>6. MicIsBounded' /\ PrivacyIsSilent'
    BY <1>1, <1>2, <2>1 DEF MicIsBounded, PrivacyIsSilent
  <2>7. WordsOnce' /\ NothingLost'
    BY <1>1, <2>1 DEF WordsOnce, NothingLost
  <2>8. HeldBack' /\ Accounted' /\ StreamWhole'
    BY <1>1, <1>2, <1>5, <2>1, <2>2, <2>3 DEF HeldBack, Accounted, StreamWhole
  <2> QED BY <2>4, <2>5, <2>6, <2>7, <2>8
<1>6. CASE text > 0 /\ ~mode.polish /\ EndRun /\ HandOver /\ UNCHANGED request
  <2>1. mode.purpose = "dictate"
    BY <1>3, <1>6 DEF HeldBack, Modes, Purposes
  <2>2. PICK kept \in BOOLEAN :
            out' = [out EXCEPT !.typed = @ + IF mode.accumulate THEN Deliverable ELSE 0,
                               !.shown = TRUE, !.kept = kept]
    BY <1>6 DEF HandOver, Announce, StoreKeeps
  <2>3. Deliverable \in Nat
    BY <1>3 DEF Deliverable
  <2>4. PICK n \in Nat : n = out.typed + IF mode.accumulate THEN Deliverable ELSE 0
    BY <1>3, <2>3 DEF Outcomes
  <2>5. out' = [out EXCEPT !.typed = n, !.shown = TRUE, !.kept = kept]
    BY <1>3, <2>2, <2>4 DEF Outcomes
  <2>6. out'.typed = n /\ out'.shown = TRUE /\ out' \in Outcomes
    BY <1>3, <2>5 DEF Outcomes
  <2>7. Possible(out') /\ Complete(out')
    BY <1>2, <1>3, <2>1, <2>4, <2>6 DEF Possible, Complete, Deliverable, HeldBack
  <2>8. request' = "none" /\ reprocess' \in BOOLEAN /\ privacy' \in BOOLEAN
                         /\ cancelled' \in BOOLEAN /\ ~privacy'
    BY <1>1, <1>2, <1>6 DEF TypeOK
  <2> QED BY <1>1, <1>6, <2>7, <2>8, EndKeepsInv
<1> QED BY <1>4, <1>5, <1>6 DEF FinishRun

\* A cancel, with or without a run under way.
LEMMA CancelKeepsInv ==
    ASSUME Inv, Cancel, cancelled' = TRUE, out' = out, privacy' \in BOOLEAN,
           UNCHANGED <<settings, networked, heard>>
    PROVE  Inv'
<1> USE DEF Inv, Active, Live
<1>1. request' = "none" /\ reprocess' = FALSE
  BY DEF Cancel
<1>2. CASE state # "idle"
  <2>1. EndRun
    BY <1>2 DEF Cancel
  <2>2. Possible(out')
    BY DEF Possible, WordsOnce, TypeOK
  <2> QED BY <1>1, <2>1, <2>2, EndKeepsInv
<1>3. CASE state = "idle"
  <2>1. /\ state' = "idle" /\ mic' = mic /\ stream' = stream /\ silence' = silence
        /\ ceiling' = ceiling /\ mode' = mode /\ text' = text /\ got' = got
        /\ audio' = audio
    BY <1>3 DEF Cancel, timers, run
  <2>2. TypeOK'
    BY <1>1, <2>1 DEF TypeOK
  <2>3. StatesMatch' /\ MicIsBounded' /\ PrivacyIsSilent'
    BY <1>1, <1>3, <2>1 DEF StatesMatch, MicIsBounded, PrivacyIsSilent
  <2>4. WordsOnce' /\ NothingLost'
    BY <2>1 DEF WordsOnce, NothingLost
  <2>5. HeldBack' /\ Accounted' /\ StreamWhole'
    BY <1>1, <2>1 DEF HeldBack, Accounted, StreamWhole
  <2> QED BY <2>2, <2>3, <2>4, <2>5
<1> QED BY <1>2, <1>3

\* What happens beside the run.
LEMMA AsideKeepsInv ==
    ASSUME Inv, TypeOK',
           UNCHANGED <<state, mic, stream, timers, mode, text, got, request, networked,
                       heard, out, cancelled>>,
           privacy' => privacy /\ ~reprocess'
    PROVE  Inv'
<1> USE DEF Inv, Active, Live
<1>1. /\ state' = state /\ mic' = mic /\ stream' = stream /\ ceiling' = ceiling
      /\ mode' = mode /\ text' = text /\ got' = got /\ request' = request
      /\ networked' = networked /\ heard' = heard /\ out' = out /\ cancelled' = cancelled
  BY DEF timers
<1>2. StatesMatch' /\ MicIsBounded'
  BY <1>1 DEF StatesMatch, MicIsBounded
<1>3. PrivacyIsSilent'
  BY <1>1 DEF PrivacyIsSilent
<1>4. WordsOnce' /\ NothingLost'
  BY <1>1 DEF WordsOnce, NothingLost
<1>5. HeldBack' /\ Accounted' /\ StreamWhole'
  BY <1>1 DEF HeldBack, Accounted, StreamWhole
<1> QED BY <1>2, <1>3, <1>4, <1>5

-----------------------------------------------------------------------------
(* The actions that begin, feed and hand over a run.                       *)

LEMMA StartKeepsInv ==
    ASSUME Inv, NEW p \in Purposes, Start(p)
    PROVE  Inv'
<1> USE DEF Inv, Active, Live
<1>1. /\ state = "idle" /\ ~privacy /\ mode' = ModeOf(p) /\ text' = 0 /\ got' = FALSE
      /\ audio' = 0 /\ heard' = 0 /\ out' = NothingYet /\ cancelled' = FALSE
      /\ request' = request /\ settings' = settings /\ privacy' = privacy
      /\ networked' = networked
  BY DEF Start, world
<1>2. /\ mode' \in Modes /\ out' \in Outcomes /\ out'.typed = 0
      /\ HeldBack'
  BY <1>1 DEF TypeOK, ModeOf, Modes, Settings, Purposes, Outcomes, NothingYet, HeldBack
<1>3. request = "none" /\ ~stream.open /\ stream = NoStream /\ (networked => ~mic)
  BY <1>1 DEF StatesMatch, StreamWhole, MicIsBounded
<1>4. 0 \in 0..MaxPhrases
  BY ConstantsAssumption
<1>5. /\ NoStream \in Streams /\ ~NoStream.open /\ ~NoStream.finishing /\ ~NoStream.up
      /\ Opening \in Streams /\ Opening.open /\ ~Opening.finishing /\ ~Opening.up
  BY DEF NoStream, Opening, Streams
<1>6. \/ /\ ~networked /\ state' = "idle" /\ stream' = NoStream /\ reprocess' = FALSE
         /\ silence' = FALSE /\ mic' \in BOOLEAN /\ ceiling' \in BOOLEAN
      \/ /\ networked /\ state' = "connecting" /\ stream' = Opening
         /\ reprocess' = reprocess /\ silence' = TRUE /\ mic' = TRUE /\ ceiling' = TRUE
      \/ /\ networked /\ state' = "idle" /\ stream' = stream /\ reprocess' = FALSE
         /\ silence' = silence /\ mic' = mic /\ ceiling' = ceiling
  BY DEF Start, StartWithoutNetwork, StartCapture, timers
<1>7. /\ state' \in {"idle", "connecting"} /\ mic' \in BOOLEAN /\ silence' \in BOOLEAN
      /\ ceiling' \in BOOLEAN /\ stream' \in Streams /\ reprocess' \in BOOLEAN
  BY <1>3, <1>5, <1>6 DEF TypeOK
<1>8. TypeOK'
  <2>1. text' \in 0..MaxPhrases /\ heard' \in 0..MaxPhrases /\ audio' \in 0..2
    BY <1>1, <1>4
  <2>2. got' \in BOOLEAN /\ cancelled' \in BOOLEAN
    BY <1>1
  <2>3. /\ settings' \in Settings /\ privacy' \in BOOLEAN /\ networked' \in BOOLEAN
        /\ request' \in Purposes \cup {"none"}
    BY <1>1 DEF TypeOK
  <2> QED BY <1>2, <1>7, <2>1, <2>2, <2>3 DEF TypeOK
<1>9. StatesMatch' /\ MicIsBounded' /\ PrivacyIsSilent'
  BY <1>1, <1>3, <1>5, <1>6 DEF StatesMatch, MicIsBounded, PrivacyIsSilent
<1>10. WordsOnce' /\ NothingLost'
  BY <1>1, <1>2 DEF WordsOnce, NothingLost
<1>11. Accounted' /\ StreamWhole'
  BY <1>1, <1>2, <1>3, <1>5, <1>6 DEF Accounted, StreamWhole
<1> QED BY <1>2, <1>8, <1>9, <1>10, <1>11

LEMMA FinalKeepsInv ==
    ASSUME Inv, Final
    PROVE  Inv'
<1> USE DEF Inv, Active, Live
<1>1. /\ state' = state /\ mic' = mic /\ stream' = stream /\ ceiling' = ceiling
      /\ mode' = mode /\ audio' = audio /\ request' = request /\ reprocess' = reprocess
      /\ settings' = settings /\ privacy' = privacy /\ networked' = networked
      /\ cancelled' = cancelled /\ got' = TRUE
      /\ text' = text + 1 /\ heard' = heard + 1 /\ heard < MaxPhrases
      /\ out' = IF mode.accumulate THEN out ELSE [out EXCEPT !.typed = @ + 1]
  BY DEF Final, world
<1>2. stream.up /\ stream.open /\ Active /\ ~cancelled /\ text = heard /\ ~privacy
  BY DEF Final, StreamWhole, StatesMatch, Accounted, PrivacyIsSilent, TypeOK
<1>3. silence' \in BOOLEAN
  BY DEF Final, SilencePutOff, TypeOK
<1>4. text' \in 0..MaxPhrases /\ heard' \in 0..MaxPhrases /\ heard \in Nat
  BY <1>1, <1>2, ConstantsAssumption DEF TypeOK
<1>5. /\ out' \in Outcomes
      /\ out'.typed = IF mode.accumulate THEN 0 ELSE heard + 1
  <2>1. out \in Outcomes /\ out.typed = IF mode.accumulate THEN 0 ELSE heard
    BY <1>2 DEF TypeOK, Accounted
  <2> QED BY <1>1, <1>4, <2>1 DEF Outcomes
<1>6. ~mode.accumulate => mode.types /\ mode.purpose = "dictate"
  BY DEF HeldBack, TypeOK, Modes, Purposes
<1>7. TypeOK'
  BY <1>1, <1>3, <1>4, <1>5 DEF TypeOK
<1>8. StatesMatch' /\ MicIsBounded' /\ PrivacyIsSilent'
  BY <1>1, <1>2 DEF StatesMatch, MicIsBounded, PrivacyIsSilent
<1>9. WordsOnce' /\ NothingLost'
  BY <1>1, <1>2, <1>4, <1>5, <1>6 DEF WordsOnce, NothingLost
<1>10. HeldBack' /\ Accounted' /\ StreamWhole'
  BY <1>1, <1>2, <1>4, <1>5 DEF HeldBack, Accounted, StreamWhole
<1> QED BY <1>7, <1>8, <1>9, <1>10

LEMMA ClaudeKeepsInv ==
    ASSUME Inv, Polished \/ PolishFails
    PROVE  Inv'
<1> USE DEF Inv, Active, Live
<1>1. /\ request # "none" /\ request' = "none" /\ EndRun /\ reprocess' = reprocess
      /\ settings' = settings /\ privacy' = privacy /\ networked' = networked
      /\ heard' = heard /\ cancelled' = cancelled
  BY DEF Polished, PolishFails, world
<1>2. /\ state = "polishing" /\ ~privacy /\ ~cancelled /\ text = heard
      /\ request = mode.purpose /\ mode.accumulate /\ out.typed = 0
  BY <1>1 DEF StatesMatch, PrivacyIsSilent, Accounted, HeldBack
<1>3. text \in Nat /\ heard \in Nat /\ out \in Outcomes /\ mode \in Modes
  BY ConstantsAssumption DEF TypeOK
<1>4. Possible(out') /\ Complete(out')
  <2>1. CASE request = "write"
    <3>1. PICK draft \in BOOLEAN, kept \in BOOLEAN :
              out' = [out EXCEPT !.draft = draft, !.kept = kept] /\ (draft \/ kept)
      BY <2>1 DEF Polished, PolishFails, StoreKeeps
    <3>2. /\ out' \in Outcomes /\ out'.typed = 0 /\ (out'.draft \/ out'.kept)
      BY <1>2, <1>3, <3>1 DEF Outcomes
    <3> QED BY <1>2, <1>3, <2>1, <3>2 DEF Possible, Complete
  <2>2. CASE request = "dictate"
    <3>1. PICK kept \in BOOLEAN :
              out' = [out EXCEPT !.typed = @ + Deliverable, !.shown = TRUE, !.kept = kept]
      BY <2>2 DEF Polished, PolishFails, Announce, StoreKeeps
    <3>2. Deliverable \in Nat
      BY <1>3 DEF Deliverable
    <3>3. out.typed + Deliverable = Deliverable
      BY <1>2, <3>2
    <3> HIDE DEF Deliverable
    <3>4. out' = [out EXCEPT !.typed = Deliverable, !.shown = TRUE, !.kept = kept]
      BY <3>1, <3>3
    <3>5. /\ out' \in Outcomes /\ out'.typed = Deliverable /\ out'.shown = TRUE
      BY <1>3, <3>2, <3>4 DEF Outcomes
    <3> QED BY <1>2, <1>3, <2>2, <3>5 DEF Possible, Complete, Deliverable
  <2> QED BY <1>1, <2>1, <2>2 DEF TypeOK, Purposes
<1>5. reprocess' \in BOOLEAN /\ privacy' \in BOOLEAN /\ cancelled' \in BOOLEAN /\ ~privacy'
  BY <1>1, <1>2 DEF TypeOK
<1> QED BY <1>1, <1>4, <1>5, EndKeepsInv

\* The actions that only move the stream on: it opens, brings an interim, or
\* acknowledges the flush.
LEMMA StreamKeepsInv ==
    ASSUME Inv, Opened \/ Interim \/ Acknowledged
    PROVE  Inv'
<1> USE DEF Inv, Active, Live
<1>1. /\ mic' = mic /\ ceiling' = ceiling /\ mode' = mode /\ text' = text
      /\ audio' = audio /\ request' = request /\ reprocess' = reprocess
      /\ settings' = settings /\ privacy' = privacy /\ networked' = networked
      /\ heard' = heard /\ out' = out /\ cancelled' = cancelled
  BY DEF Opened, Interim, Acknowledged, timers, run, world
<1>2. stream.open /\ stream \in Streams /\ state # "polishing" /\ Active
  BY DEF Opened, Interim, Acknowledged, StreamWhole, StatesMatch, TypeOK
<1>3. stream' \in Streams /\ stream'.open /\ stream'.finishing = stream.finishing
  <2>1. \/ stream' = stream
        \/ stream' = [stream EXCEPT !.up = TRUE]
        \/ stream' = [stream EXCEPT !.acked = TRUE]
    BY DEF Opened, Interim, Acknowledged
  <2> QED BY <1>2, <2>1 DEF Streams
<1>4. /\ state' \in {"connecting", "listening", "finishing"}
      /\ Live' <=> Live
      /\ state' = "finishing" <=> state = "finishing"
  BY <1>2 DEF Opened, Interim, Acknowledged, StatesMatch, TypeOK
<1>5. silence' \in BOOLEAN
  BY DEF Opened, Interim, Acknowledged, timers, SilencePutOff, TypeOK
<1>6. got' \in BOOLEAN /\ (got => got')
  BY DEF Opened, Interim, Acknowledged, run, TypeOK
<1>7. TypeOK'
  BY <1>1, <1>3, <1>4, <1>5, <1>6 DEF TypeOK
<1>8. StatesMatch' /\ MicIsBounded' /\ PrivacyIsSilent'
  BY <1>1, <1>2, <1>3, <1>4 DEF StatesMatch, MicIsBounded, PrivacyIsSilent
<1>9. WordsOnce' /\ NothingLost'
  BY <1>1, <1>4 DEF WordsOnce, NothingLost
<1>10. HeldBack' /\ Accounted' /\ StreamWhole'
  BY <1>1, <1>2, <1>3, <1>4, <1>6 DEF HeldBack, Accounted, StreamWhole
<1> QED BY <1>7, <1>8, <1>9, <1>10

\* The stream fails, or closes.
LEMMA StreamEndKeepsInv ==
    ASSUME Inv, StreamFails \/ StreamCloses
    PROVE  Inv'
<1> USE DEF Inv, Active, Live
<1>1. /\ settings' = settings /\ privacy' = privacy /\ networked' = networked
      /\ heard' = heard /\ cancelled' = cancelled
  BY DEF StreamFails, StreamCloses, world
<1>2. stream.open /\ Active /\ request = "none" /\ ~privacy /\ text = heard
      /\ privacy' \in BOOLEAN /\ cancelled' \in BOOLEAN
  BY <1>1 DEF StreamFails, StreamCloses, StatesMatch, PrivacyIsSilent, Accounted, TypeOK
<1>3. CASE FinishRun /\ reprocess' = reprocess
  BY <1>1, <1>2, <1>3, FinishKeepsInv DEF world
<1>4. CASE text = 0 /\ KeepFailedAudio /\ EndRun /\ request' = "none"
           /\ reprocess' \in BOOLEAN
  <2>1. PICK kept \in BOOLEAN : out' = [out EXCEPT !.kept = kept]
    BY <1>4 DEF KeepFailedAudio, StoreKeeps
  <2>2. out' \in Outcomes /\ out'.typed = out.typed
    BY <2>1 DEF TypeOK, Outcomes
  <2>3. Possible(out') /\ Complete(out')
    BY <1>2, <1>4, <2>2 DEF WordsOnce, Possible, Complete
  <2> QED BY <1>1, <1>2, <1>4, <2>3, EndKeepsInv
<1>5. \/ FinishRun /\ reprocess' = reprocess
      \/ text = 0 /\ KeepFailedAudio /\ Cancel
      \/ ~got /\ KeepFailedAudio /\ EndRun /\ request' = request /\ reprocess' = reprocess
  BY DEF StreamFails, StreamCloses
<1>6. Cancel => EndRun /\ request' = "none" /\ reprocess' \in BOOLEAN
  BY <1>2 DEF Cancel
<1>7. ~got => text = 0
  BY ConstantsAssumption DEF Accounted, TypeOK
<1>8. reprocess \in BOOLEAN
  BY DEF TypeOK
<1> QED BY <1>2, <1>3, <1>4, <1>5, <1>6, <1>7, <1>8

\* The microphone fails, or a timer fires.
LEMMA AlarmKeepsInv ==
    ASSUME Inv, CaptureFails \/ SilenceTimeout \/ MaxDuration
    PROVE  Inv'
<1> USE DEF Inv, Active, Live
<1>1. /\ settings' = settings /\ privacy' = privacy /\ networked' = networked
      /\ heard' = heard /\ cancelled' = cancelled
  BY DEF CaptureFails, SilenceTimeout, MaxDuration, world
<1>2. privacy \in BOOLEAN /\ cancelled \in BOOLEAN /\ text \in Nat /\ heard \in Nat
  BY ConstantsAssumption DEF TypeOK
<1>3. CASE Stop /\ Active /\ (mic \/ (silence /\ Live) \/ ceiling)
  <2>1. stream.open
    BY <1>3 DEF MicIsBounded, StreamWhole, StatesMatch, TypeOK
  <2> QED BY <1>1, <1>3, <2>1, StopKeepsInv DEF world
<1>4. CASE text = 0 /\ Active /\ Cancel /\ out' = out
  <2>1. heard = 0 /\ ~privacy
    BY <1>4 DEF Accounted, PrivacyIsSilent
  <2>2. Possible(out') /\ Complete(out')
    BY <1>4, <2>1 DEF WordsOnce, Possible, Complete, TypeOK
  <2>3. EndRun /\ request' = "none" /\ reprocess' \in BOOLEAN
    BY <1>4 DEF Cancel
  <2> QED BY <1>1, <1>2, <2>1, <2>2, <2>3, EndKeepsInv
<1>5. CASE /\ state = "idle" /\ state' = state /\ stream' = stream /\ mode' = mode
           /\ text' = text /\ got' = got /\ audio' = audio /\ out' = out
           /\ silence' = silence /\ mic' \in {mic, FALSE} /\ ceiling' \in {ceiling, FALSE}
           /\ request' = request /\ reprocess' \in {reprocess, FALSE}
  <2>1. mic' \in BOOLEAN /\ ceiling' \in BOOLEAN /\ reprocess' \in BOOLEAN
        /\ request = "none"
    BY <1>5 DEF TypeOK, StatesMatch
  <2>2. TypeOK'
    BY <1>1, <1>5, <2>1 DEF TypeOK
  <2>3. StatesMatch' /\ MicIsBounded' /\ PrivacyIsSilent'
    BY <1>1, <1>5, <2>1 DEF StatesMatch, MicIsBounded, PrivacyIsSilent
  <2>4. WordsOnce' /\ NothingLost'
    BY <1>1, <1>5 DEF WordsOnce, NothingLost
  <2>5. HeldBack' /\ Accounted' /\ StreamWhole'
    BY <1>1, <1>5, <2>1 DEF HeldBack, Accounted, StreamWhole
  <2> QED BY <2>2, <2>3, <2>4, <2>5
<1>6. ~Active => text = 0 /\ request = "none"
  BY DEF StatesMatch
<1>7. CASE CaptureFails
  <2>1. CASE text > 0 /\ Stop
    <3>1. mic
      BY <1>7 DEF CaptureFails
    <3>2. Active
      BY <1>2, <1>6, <2>1
    <3>3. Stop
      BY <2>1
    <3> QED BY <1>3, <3>1, <3>2, <3>3
  <2>2. CASE text = 0 /\ Active /\ Cancel /\ UNCHANGED out
    BY <1>4, <2>2
  <2>3. CASE /\ text = 0 /\ ~Active /\ mic' = FALSE /\ request' = "none"
             /\ reprocess' = FALSE
             /\ UNCHANGED <<state, stream, timers, run, out>>
    BY <1>5, <1>6, <2>3 DEF timers, run
  <2> QED BY <1>7, <2>1, <2>2, <2>3 DEF CaptureFails
<1>8. CASE SilenceTimeout
  BY <1>3, <1>8 DEF SilenceTimeout
<1>9. CASE MaxDuration
  <2>1. CASE Active /\ Stop
    BY <1>3, <1>9, <2>1 DEF MaxDuration
  <2>2. CASE /\ ~Active /\ ceiling' = FALSE
             /\ UNCHANGED <<state, mic, stream, silence, run, request, reprocess, out>>
    BY <1>5, <2>2 DEF run
  <2> QED BY <1>9, <2>1, <2>2 DEF MaxDuration
<1> QED BY <1>7, <1>8, <1>9

-----------------------------------------------------------------------------
(* The invariant.                                                          *)

LEMMA InvInit == Init => Inv
<1> SUFFICES ASSUME Init PROVE Inv
  OBVIOUS
<1> USE DEF Init, Active, Live
<1>1. 0 \in 0..MaxPhrases
  BY ConstantsAssumption
<1>2. mode \in Modes /\ HeldBack
  BY DEF ModeOf, Modes, Settings, Purposes, HeldBack
<1>3. /\ out \in Outcomes /\ out.typed = 0
      /\ stream \in Streams /\ ~stream.open /\ ~stream.up /\ ~stream.finishing
  BY DEF NothingYet, Outcomes, NoStream, Streams
<1>4. networked \in BOOLEAN
  BY ConstantsAssumption
<1>5. TypeOK
  <2>1. state = "idle" /\ request \in Purposes \cup {"none"} /\ settings \in Settings
    OBVIOUS
  <2>2. text \in 0..MaxPhrases /\ heard \in 0..MaxPhrases /\ audio \in 0..2
    BY <1>1
  <2>3. /\ mic \in BOOLEAN /\ silence \in BOOLEAN /\ ceiling \in BOOLEAN
        /\ got \in BOOLEAN /\ reprocess \in BOOLEAN /\ privacy \in BOOLEAN
        /\ cancelled \in BOOLEAN
    OBVIOUS
  <2> HIDE DEF Init
  <2> QED BY <1>2, <1>3, <1>4, <2>1, <2>2, <2>3 DEF TypeOK
<1>6. StatesMatch /\ MicIsBounded /\ PrivacyIsSilent /\ WordsOnce /\ NothingLost
  BY <1>3 DEF StatesMatch, MicIsBounded, PrivacyIsSilent, WordsOnce, NothingLost
<1>7. Accounted /\ StreamWhole
  BY <1>3 DEF Accounted, StreamWhole
<1> QED BY <1>2, <1>5, <1>6, <1>7 DEF Inv

LEMMA InvNext == Inv /\ [Next]_vars => Inv'
<1> SUFFICES ASSUME Inv, [Next]_vars PROVE Inv'
  OBVIOUS
<1>1. CASE \E p \in Purposes : Start(p)
  BY <1>1, StartKeepsInv
<1>2. CASE ClickAgain
  <2>1. Stop /\ UNCHANGED <<world, heard, cancelled>>
    BY <1>2 DEF ClickAgain
  <2>2. stream.open
    BY <1>2 DEF ClickAgain, Inv, StatesMatch
  <2> QED BY <2>1, <2>2, StopKeepsInv
<1>3. CASE EnterPrivacy
  BY <1>3, CancelKeepsInv DEF EnterPrivacy
<1>4. CASE SwitchOff
  <2>1. Cancel /\ cancelled' = TRUE /\ out' = out /\ heard' = heard
        /\ settings' = settings /\ networked' = networked /\ privacy' = privacy
    BY <1>4 DEF SwitchOff, world
  <2>2. privacy' \in BOOLEAN
    BY <2>1 DEF Inv, TypeOK
  <2> QED BY <2>1, <2>2, CancelKeepsInv
<1>5. CASE LeavePrivacy \/ ChangeSettings \/ Reprocess \/ Chunk \/ ReprocessEnds
           \/ UNCHANGED vars
  <2>1. UNCHANGED <<state, mic, stream, timers, mode, text, got, request, networked, heard,
                    out, cancelled>>
    BY <1>5 DEF LeavePrivacy, ChangeSettings, Reprocess, Chunk, ReprocessEnds, vars, run,
                world
  <2>2. silence' = silence /\ ceiling' = ceiling
    BY <2>1 DEF timers
  <2>3. audio' \in 0..2
    <3>1. audio' = audio \/ (audio < 2 /\ audio' = audio + 1)
      BY <1>5 DEF LeavePrivacy, ChangeSettings, Reprocess, Chunk, ReprocessEnds, vars, run
    <3> QED BY <3>1 DEF Inv, TypeOK
  <2>4. reprocess' \in BOOLEAN
    <3>1. reprocess' \in {reprocess, TRUE, FALSE}
      BY <1>5 DEF LeavePrivacy, ChangeSettings, Reprocess, Chunk, ReprocessEnds, vars
    <3> QED BY <3>1 DEF Inv, TypeOK
  <2>5. settings' \in Settings
    <3>1. settings' = settings \/ settings' \in Settings
      BY <1>5 DEF LeavePrivacy, ChangeSettings, Reprocess, Chunk, ReprocessEnds, vars,
                  world
    <3> QED BY <3>1 DEF Inv, TypeOK
  <2>6. privacy' \in BOOLEAN
    <3>1. privacy' \in {privacy, FALSE}
      BY <1>5 DEF LeavePrivacy, ChangeSettings, Reprocess, Chunk, ReprocessEnds, vars,
                  world
    <3> QED BY <3>1 DEF Inv, TypeOK
  <2>7. TypeOK'
    BY <2>1, <2>2, <2>3, <2>4, <2>5, <2>6 DEF Inv, TypeOK
  <2>8. privacy' => privacy /\ ~reprocess'
    BY <1>5 DEF LeavePrivacy, ChangeSettings, Reprocess, Chunk, ReprocessEnds, vars, world,
                Inv, PrivacyIsSilent
  <2> QED BY <2>1, <2>7, <2>8, AsideKeepsInv
<1>6. CASE CaptureFails \/ SilenceTimeout \/ MaxDuration
  BY <1>6, AlarmKeepsInv
<1>7. CASE Opened \/ Interim \/ Acknowledged
  BY <1>7, StreamKeepsInv
<1>8. CASE Final
  BY <1>8, FinalKeepsInv
<1>9. CASE StreamFails \/ StreamCloses
  BY <1>9, StreamEndKeepsInv
<1>10. CASE Polished \/ PolishFails
  BY <1>10, ClaudeKeepsInv
<1> QED
  BY <1>1, <1>2, <1>3, <1>4, <1>5, <1>6, <1>7, <1>8, <1>9, <1>10 DEF Next

LEMMA InvHolds == Spec => []Inv
  BY InvInit, InvNext, PTL DEF Spec

-----------------------------------------------------------------------------
(* What follows from it.                                                   *)

\* The microphone is never open without a ceiling, for runs of any length.
THEOREM MicBounded == Spec => []MicIsBounded
  BY InvHolds, PTL DEF Inv

\* In a password field nothing is listened to, sent or waited for.
THEOREM PrivacySilences == Spec => []PrivacyIsSilent
  BY InvHolds, PTL DEF Inv

\* No phrase is typed twice, and none that was not to be typed.
THEOREM TypedOnce == Spec => []WordsOnce
  BY InvHolds, PTL DEF Inv

\* A run that was not cancelled has accounted for every phrase it heard,
\* however socket, microphone and Claude failed it.
THEOREM NoSpeechLost == Spec => []NothingLost
  BY InvHolds, PTL DEF Inv

=============================================================================
