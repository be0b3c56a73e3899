--------------------------- MODULE SuggestionBar ---------------------------
(***************************************************************************)
(* The bar over the mirror of TypingContext: every keystroke either asks   *)
(* the word engine for the text before the caret, or offers the numbers    *)
(* and addresses the user has typed before that continue the run in        *)
(* progress, or blanks the bar.  A token pill is typed over what the run   *)
(* was when the pill was offered, so what it may be tapped on, what is     *)
(* remembered about it and what stands on screen have to agree.            *)
(*                                                                         *)
(* What the engine answers is in NextWords and Ranking: here a word bar is *)
(* the text it answers.                                                    *)
(***************************************************************************)
EXTENDS TypingContext, FiniteSets

CONSTANTS
    Tokens,       \* runs the store may hold
    FieldValues,  \* those that are an address or a telephone number
    Domains,      \* domains offered before any address was learned
    MaxSightings  \* bound: sightings of one token

ASSUME BarConstants ==
    /\ FieldValues \subseteq Tokens /\ Tokens \cup Domains \subseteq Text
    /\ MaxSightings \in Nat \ {0}

VARIABLES
    bar,        \* the pills on screen: [kind, text, pills]
    tokenPills, \* _token_pill_words
    typedRun,   \* _token_pill_typed
    sightings,  \* TokenPredictor.tokens
    noted       \* _learned_raw_token

barVars == <<bar, tokenPills, typedRun, sightings, noted>>

NoBar == [kind |-> "none", text |-> <<>>, pills |-> {}]

BarTypeOK ==
    /\ bar.kind \in {"none", "words", "tokens"} /\ bar.pills \subseteq Text
    /\ tokenPills \subseteq Text
    /\ typedRun \in Text /\ noted \in Text
    /\ sightings \in [Tokens -> 0..MaxSightings]

-----------------------------------------------------------------------------
(* Runs and what continues them.                                           *)

HasDigit(r) == \E i \in DOMAIN r : r[i] = "1"
At(r) == SelectLastInSeq(r, LAMBDA c : c = "@")

\* is_address_in_progress: something an address can begin with, then "@".
InAddress(r) ==
    LET first == SelectInSeq(r, LAMBDA c : c = "@")
    IN first > 1 /\ \A i \in 1..(first - 1) : r[i] # ","

InTokenContext(r) == Len(r) >= 2 /\ (HasDigit(r) \/ InAddress(r))

\* strip_trailing_punctuation
Stripped(r) == SubSeq(r, 1, SelectLastInSeq(r, LAMBDA c : c \notin {".", ","}))

DomainOf(t) == SubSeq(t, At(t) + 1, Len(t))
Continues(t, r) == Len(t) > Len(r) /\ IsPrefix(r, t)
KnownDomains(seen) ==
    Domains \cup {DomainOf(t) : t \in {u \in Tokens : seen[u] > 0 /\ At(u) > 0}}

\* The run the pills continue: behind an "@" only what follows it.
TypedOf(r) == IF At(r) > 1 THEN DomainOf(r) ELSE r

\* _token_suggestions
PillsFor(r, seen) ==
    IF At(r) > 1 THEN {d \in KnownDomains(seen) : Continues(d, DomainOf(r))}
    ELSE {t \in Tokens : seen[t] > 0 /\ Continues(t, r)}

\* q[: len(q) - n], which counts from the end when n is larger than q.
Chopped(q, n) == IF n <= Len(q) THEN DropLast(q, n) ELSE SubSeq(q, 1, 2 * Len(q) - n)

-----------------------------------------------------------------------------
(* Filling the bar, once the keystroke has moved the mirror.               *)

NoTokenPills == tokenPills' = {} /\ typedRun' = <<>>

\* predictionsReady
ShowWords ==
    /\ bar' = [kind |-> "words", text |-> ctx' \o word', pills |-> {}]
    /\ NoTokenPills

\* _emit_token_predictions
ShowTokens ==
    /\ tokenPills' = PillsFor(raw', sightings')
    /\ typedRun' = TypedOf(raw')
    /\ bar' = IF tokenPills' = {} THEN NoBar
              ELSE [kind |-> "tokens", text |-> <<>>, pills |-> tokenPills']

\* _refresh_prediction_bar
RefreshBar == IF InTokenContext(raw') THEN ShowTokens ELSE ShowWords

BlankBar == bar' = NoBar /\ NoTokenPills
HideBar == bar' = NoBar /\ UNCHANGED <<tokenPills, typedRun>>

\* What a character that is not part of a word leaves.
AfterMark == IF InTokenContext(raw') THEN RefreshBar ELSE BlankBar

Counted(t) == [sightings EXCEPT ![t] = IF @ < MaxSightings THEN @ + 1 ELSE @]

\* _learn_raw_token, with what was noted when it is called.
Sighted(r, before) ==
    IF r \notin {<<>>, before} /\ Stripped(r) \in Tokens THEN Counted(Stripped(r))
    ELSE sightings

LearnRun(r, before) ==
    /\ noted' = IF r = <<>> THEN before ELSE r
    /\ sightings' = Sighted(r, before)

\* The run that a withheld space turns out to have ended.
FinishedRun ==
    IF deferred # "none" /\ raw # <<>> /\ Last(raw) = deferred THEN DropLast(raw, 1)
    ELSE <<>>

\* A boundary key retires the run before it.
NoteNothing == noted' = <<>> /\ UNCHANGED sightings

-----------------------------------------------------------------------------
(* Keys.                                                                   *)

\* A letter delivers the space withheld behind a run, which counts it.
BarLetter(c) ==
    /\ Letter(c)
    /\ sightings' = Sighted(FinishedRun, noted) /\ noted' = <<>>
    /\ RefreshBar

BarDigit == Digit /\ NoteNothing /\ AfterMark
BarGlyph(g) == Glyph(g) /\ NoteNothing /\ AfterMark

\* A mark that ends the run teaches it; the note is gone by then.
BarMark ==
    \/ /\ EndSentence
       /\ IF Suppressed(".") THEN NoteNothing ELSE LearnRun(raw, <<>>)
       /\ AfterMark
    \/ /\ Comma
       /\ IF Suppressed(",") THEN NoteNothing ELSE LearnRun(raw, <<>>)
       /\ AfterMark

BarChord == ChordDot /\ UNCHANGED barVars

BarSpace == (Space \/ Return) /\ LearnRun(raw, noted) /\ RefreshBar

BarBackspace ==
    /\ Backspace /\ NoteNothing
    /\ IF word = <<>> /\ ctx = <<>> THEN UNCHANGED <<bar, tokenPills, typedRun>>
       ELSE RefreshBar

\* (Slip) Delete drops the run and leaves its pills.
DeleteKeepsPills ==
    /\ Uses("delete") /\ raw' = <<>> /\ auto' = FALSE /\ deferred' = "none"
    /\ UNCHANGED <<profile, screen, word, ctx, lost, taught, barVars>>

\* Delete and Escape: the run is dropped, and its pills with it.
Delete ==
    /\ Uses("delete")
    /\ raw' = <<>> /\ auto' = FALSE /\ deferred' = "none"
    /\ UNCHANGED <<profile, screen, word, ctx, lost, taught, sightings, noted>>
    /\ IF tokenPills # {} THEN RefreshBar ELSE UNCHANGED <<bar, tokenPills, typedRun>>

\* Shift or Caps Lock: words are asked for again in the new case.
Recase ==
    /\ bar # NoBar /\ ~InTokenContext(raw)
    /\ UNCHANGED <<typingVars, sightings, noted>> /\ ShowWords

BarReset == (OutsideClick \/ CaretLeaves) /\ NoteNothing /\ BlankBar

\* clearPredictions: the keyboard lost the focus.
FocusFlickers ==
    /\ Uses("leave") /\ bar # NoBar
    /\ HideBar /\ UNCHANGED <<typingVars, sightings, noted>>

-----------------------------------------------------------------------------
(* Pills and inserts.                                                      *)

\* pressPrediction and editPrediction answer for the text they leave, and
\* never had token pills to clear.  A tapped pill delivers a withheld space.
BarPill ==
    /\ bar.kind = "words"
    /\ \E p \in PillWords :
         \/ Pill(p) /\ LearnRun(FinishedRun, noted)
         \/ EditPrediction(p) /\ UNCHANGED <<sightings, noted>>
    /\ bar' = [kind |-> "words", text |-> ctx' \o word', pills |-> {}]
    /\ UNCHANGED <<tokenPills, typedRun>>

BarInsert == (InsertSnippet \/ InsertSpoken) /\ HideBar /\ LearnRun(FinishedRun, noted)

\* The mirror once p stands where the run it continues stood.
Completed(p, trailing) ==
    Capped(Chopped(ctx \o word, Len(typedRun)) \o p \o trailing, profile.cap)

\* _insert_token_pill.
TokenPill(p) ==
    LET whole == DropLast(raw, Len(typedRun)) \o p
        trailing == IF whole \in FieldValues THEN <<>> ELSE <<"sp">>
        onScreen == IF trailing = <<>> THEN <<>> ELSE <<"own">>
    IN /\ Uses("tokenPill") /\ p \in bar.pills \cap tokenPills
       /\ Room(Len(p) - Len(typedRun) + 1)
       /\ screen' = DropLast(screen, Len(typedRun)) \o p \o onScreen
       /\ ctx' = Completed(p, trailing)
       /\ raw' = IF trailing = <<>> THEN whole ELSE <<>>
       /\ word' = <<>> /\ lost' = FALSE
       /\ auto' = (trailing # <<>>) /\ deferred' = "none"
       /\ LearnRun(whole, noted)
       /\ RefreshBar
       /\ UNCHANGED <<profile, taught>>

\* forgetToken, from the dashboard.
ForgetToken(t) ==
    /\ Uses("tokenPill") /\ sightings[t] > 0
    /\ sightings' = [sightings EXCEPT ![t] = 0]
    /\ UNCHANGED <<typingVars, bar, tokenPills, typedRun, noted>>

BarInit ==
    /\ TypingInit
    /\ bar = NoBar /\ tokenPills = {} /\ typedRun = <<>> /\ noted = <<>>
    /\ sightings = [t \in Tokens |-> 0]

BarNext ==
    \/ \E c \in Letters : BarLetter(c)
    \/ BarDigit \/ BarMark \/ \E g \in Glyphs : BarGlyph(g)
    \/ BarChord \/ BarSpace \/ BarBackspace \/ Delete \/ Recase
    \/ BarReset \/ FocusFlickers
    \/ BarPill \/ BarInsert
    \/ \E p \in bar.pills : TokenPill(p)
    \/ \E t \in Tokens : ForgetToken(t)

BarSpec == BarInit /\ [][BarNext]_<<typingVars, barVars>>

-----------------------------------------------------------------------------
(* Properties.                                                             *)

\* What is on the bar is about what is before the caret: words answer for
\* the mirrored text, and tokens continue the run that stands on screen.  A
\* chord that takes back the keyboard's own space leaves the words behind;
\* Backspace leaves the tokens where it goes on through a run that the
\* buffer has lost, cut away or dropped at the dot of a number.
BarIsForTheText ==
    /\ bar.kind = "words" =>
         (Uses("chordBehindSpace") \/ bar.text = ctx \o word) /\ ~InTokenContext(raw)
    /\ bar.kind = "tokens" /\ (Uses("backspace") => ~Uses("dot") /\ Roomy) =>
         /\ bar.pills = tokenPills /\ IsSuffix(typedRun, raw) /\ IsSuffix(raw, Shown)
         /\ \A p \in tokenPills : Continues(p, typedRun)

\* A run that was counted when its pill was tapped is not counted again by
\* the key that ends it.
CountedOnce ==
    [][\A t \in Tokens : sightings'[t] > sightings[t] /\ Stripped(raw) = t => noted # raw]_<<typingVars, barVars>>
=============================================================================
