--------------------------- MODULE TypingContext ---------------------------
(***************************************************************************)
(* KeyboardBridge's mirror of the text before the caret.  The keyboard     *)
(* never reads the other application's text: it keeps _current_word and    *)
(* _context_buffer, updates them beside every keystroke it sends, and      *)
(* decides from them what a pill types over, which space to take back and  *)
(* what to teach the predictor.  "screen" is the text those keystrokes     *)
(* have really produced since the caret last moved out of sight.           *)
(*                                                                         *)
(* Text is a sequence of character classes: two letters, a digit, ".",     *)
(* ",", "@", "-" (any other glyph that ends a word with no space after     *)
(* it), "sp" for a space, "own" for one the keyboard itself inserted and   *)
(* "nl" for a new line.                                                    *)
(*                                                                         *)
(* Learning is on and auto-space and intelligent spacing are at their      *)
(* defaults.                                                               *)
(***************************************************************************)
EXTENDS Integers, Sequences, SequencesExt

CONSTANTS
    Profiles,     \* who is at the keyboard: [keys |-> the kinds of key used,
                  \* cap |-> what _context_buffer is cut to (200 in the code),
                  \* pillCap |-> ... and by a pill (100 in the code),
                  \* room |-> bound: characters on screen]
    PillWords,    \* words a prediction pill may offer
    Corrections,  \* words autocorrect may put in place of the typed one
    SnippetText,  \* what insertSnippet types
    SpokenText    \* a dictated phrase

\* An "extra" Space or Return follows no word, a "secondClick" a click that
\* cut a word, a "chordBehindSpace" a space of the keyboard's own.  "edit" is
\* a pill rewritten in its editor, with no space owed or "behindMark" with one.
KeyKinds == {"letter", "digit", "dot", "comma", "dash", "at", "space", "extraSpace",
             "return", "extraReturn", "backspace", "delete", "click", "secondClick",
             "leave", "pill", "tokenPill", "edit", "editBehindMark", "snippet",
             "spoken", "spokenMidWord", "chord", "chordBehindSpace"}

Letters == {"a", "b"}
Glyphs == {"-", "@"}
WordChars == Letters \cup {"1"}
Chars == WordChars \cup Glyphs \cup {".", ",", "sp"}
Text == Seq(Chars)

\* What stands on screen.
Signs == Chars \cup {"own", "nl"}

ASSUME TypingConstants ==
    /\ PillWords \subseteq Seq(Letters) /\ Corrections \subseteq Seq(Letters) \ {<<>>}
    /\ SnippetText \in Text /\ SpokenText \in Seq(Letters)
    /\ Profiles \subseteq [keys : SUBSET KeyKinds, cap : Nat \ {0}, pillCap : Nat \ {0},
                          room : Nat]
    /\ \A who \in Profiles : who.pillCap <= who.cap

VARIABLES
    profile,   \* the member of Profiles at the keyboard
    screen,    \* the text before the caret
    word,      \* _current_word
    ctx,       \* _context_buffer
    raw,       \* _raw_token: the unbroken run being typed
    auto,      \* _auto_space_pending
    deferred,  \* _deferred_auto_space: punctuation whose space was withheld
    lost,      \* _word_prefix_lost
    taught     \* what the last word handed to the learner was of its word on
               \* screen: "nothing" yet, the "whole" of it or a "tail"

typingVars == <<profile, screen, word, ctx, raw, auto, deferred, lost, taught>>

TypingTypeOK ==
    /\ profile \in Profiles
    /\ screen \in Seq(Signs)
    /\ word \in Text /\ ctx \in Text /\ raw \in Text
    /\ auto \in BOOLEAN /\ lost \in BOOLEAN
    /\ deferred \in {"none", ".", ","}
    /\ taught \in {"nothing", "whole", "tail"}
    /\ Len(ctx) <= profile.cap + 1   \* a deferred space joins it uncut
    /\ ~(auto /\ deferred # "none")

TypingInit ==
    /\ profile \in Profiles
    /\ screen = <<>> /\ word = <<>> /\ ctx = <<>> /\ raw = <<>>
    /\ auto = FALSE /\ deferred = "none" /\ lost = FALSE /\ taught = "nothing"

-----------------------------------------------------------------------------
(* Text.                                                                   *)

DropLast(q, n) == SubSeq(q, 1, Len(q) - n)

\* The last n characters of q.
Capped(q, n) == IF Len(q) > n THEN SubSeq(q, Len(q) - n + 1, Len(q)) ELSE q

EndsInSpace(q) == q # <<>> /\ Last(q) = "sp"

\* What the user sees.
Shown == [i \in DOMAIN screen |-> IF screen[i] \in {"own", "nl"} THEN "sp" ELSE screen[i]]

\* The word characters q ends in.
RunOf(q) == SubSeq(q, SelectLastInSeq(q, LAMBDA c : c \notin WordChars) + 1, Len(q))

\* text_patterns.is_numeric_run: digits with single separators between them.
Numeric(q) ==
    /\ q # <<>> /\ Head(q) = "1" /\ Last(q) = "1"
    /\ \A i \in DOMAIN q : q[i] \in {"1", ".", ",", "-"}
    /\ \A i \in 2..Len(q) : q[i - 1] = "1" \/ q[i] = "1"

\* suppresses_auto_space: numbers, and a dot inside a dotted run or an address.
Suppressed(mark) == Numeric(raw) \/ (mark = "." /\ \E i \in DOMAIN raw : raw[i] \in {".", "@"})

Uses(k) == k \in profile.keys

Room(n) == Len(screen) + n <= profile.room

-----------------------------------------------------------------------------
(* _press_char.                                                            *)

\* _take_deferred_space: a letter (or a pill, or a snippet) proves the
\* withheld space was owed.  Everything else just drops it.
OwedSpace == IF deferred = "none" THEN <<>> ELSE <<"own">>
OwedInContext == IF deferred = "none" THEN ctx ELSE Append(ctx, "sp")

Letter(c) ==
    /\ Uses("letter") /\ Room(2)
    /\ screen' = screen \o OwedSpace \o <<c>>
    /\ ctx' = OwedInContext
    /\ word' = Append(word, c)
    /\ raw' = IF deferred = "none" THEN Append(raw, c) ELSE <<c>>
    /\ auto' = FALSE /\ deferred' = "none"
    /\ UNCHANGED <<profile, lost, taught>>

Digit ==
    /\ Uses("digit") /\ Room(1)
    /\ screen' = Append(screen, "1")
    /\ word' = Append(word, "1")
    /\ raw' = Append(raw, "1")
    /\ auto' = FALSE /\ deferred' = "none"
    /\ UNCHANGED <<profile, ctx, lost, taught>>

\* Is the space before this mark one of ours, to be taken back?
Elides == auto /\ EndsInSpace(ctx) /\ word = <<>>
Kept(q) == IF Elides THEN DropLast(q, 1) ELSE q

\* What the learner is told about the word in progress.
LearnAnyway ==
    taught' = IF word = <<>> THEN taught
              ELSE IF Len(RunOf(word)) < Len(RunOf(Shown)) THEN "tail" ELSE "whole"

\* _take_lost_prefix: the tail of a word whose opening a reset cut away is
\* not learned, once.
LearnUnlessLost ==
    /\ IF lost THEN UNCHANGED taught ELSE LearnAnyway
    /\ lost' = FALSE

\* A full stop: the sentence is learned, the word leaves the mirror.
EndSentence ==
    /\ Uses("dot") /\ Room(2)
    /\ LearnUnlessLost
    /\ word' = <<>>
    /\ IF Suppressed(".")
       THEN /\ screen' = Append(Kept(screen), ".")
            /\ ctx' = Capped(Append(Kept(ctx), "."), profile.cap)
            /\ raw' = Append(raw, ".")
            /\ auto' = FALSE
            /\ deferred' = IF Numeric(raw) THEN "." ELSE "none"
       ELSE /\ screen' = Kept(screen) \o <<".", "own">>
            /\ ctx' = Capped(Kept(ctx) \o <<".", "sp">>, profile.cap)
            /\ raw' = <<>> /\ auto' = TRUE /\ deferred' = "none"
    /\ UNCHANGED profile

Comma ==
    /\ Uses("comma") /\ Room(2)
    /\ LearnUnlessLost
    /\ word' = <<>>
    /\ IF Suppressed(",")
       THEN /\ screen' = Append(Kept(screen), ",")
            /\ ctx' = Capped(Kept(ctx) \o word \o <<",">>, profile.cap)
            /\ raw' = Append(raw, ",")
            /\ auto' = FALSE
            /\ deferred' = IF Numeric(raw) THEN "," ELSE "none"
       ELSE /\ screen' = Kept(screen) \o <<",", "own">>
            /\ ctx' = Capped(Kept(ctx) \o word \o <<",", "sp">>, profile.cap)
            /\ raw' = <<>> /\ auto' = TRUE /\ deferred' = "none"
    /\ UNCHANGED profile

\* A hyphen, slash, bracket or symbol: a boundary with no space.
Glyph(g) ==
    /\ Uses(IF g = "@" THEN "at" ELSE "dash") /\ Room(1)
    /\ LearnUnlessLost
    /\ screen' = Append(screen, g)
    /\ ctx' = Capped(ctx \o word \o <<g>>, profile.cap)
    /\ word' = <<>>
    /\ raw' = Append(raw, g)
    /\ auto' = FALSE /\ deferred' = "none"
    /\ UNCHANGED profile

\* What another application makes of Ctrl+BackSpace: the spaces before the
\* caret and the word before them go.
InkAt(q) == SelectLastInSeq(q, LAMBDA c : c \notin {"sp", "own", "nl"})
WordKilled(q) ==
    LET bare == SubSeq(q, 1, InkAt(q))
    IN DropLast(bare, Len(RunOf(bare)))

\* Ctrl and a full stop.  The space is taken back with the chord's own
\* modifiers attached (_send_key gathers them), then the chord is sent.
ChordDot ==
    /\ Uses(IF Elides THEN "chordBehindSpace" ELSE "chord")
    /\ screen' = IF Elides THEN WordKilled(screen) ELSE screen
    /\ ctx' = Kept(ctx)
    /\ auto' = FALSE /\ deferred' = "none"
    /\ UNCHANGED <<profile, word, raw, lost, taught>>

-----------------------------------------------------------------------------
(* pressSpecialKey.                                                        *)

\* Space, perhaps with an autocorrection in front of it.
Space ==
    /\ Uses(IF word = <<>> THEN "extraSpace" ELSE "space")
    /\ \E w \in {word} \cup (IF word = <<>> THEN {} ELSE Corrections) :
         /\ Room(1 + Len(w) - Len(word))
         /\ screen' = IF w = word THEN Append(screen, "sp")
                      ELSE DropLast(screen, Len(word)) \o w \o <<"sp">>
         /\ ctx' = IF w = <<>> THEN ctx ELSE Capped(ctx \o w \o <<"sp">>, profile.cap)
    /\ LearnUnlessLost
    /\ word' = <<>> /\ raw' = <<>> /\ auto' = FALSE /\ deferred' = "none"
    /\ UNCHANGED profile

Return ==
    /\ Uses(IF word = <<>> THEN "extraReturn" ELSE "return") /\ Room(1)
    /\ screen' = Append(screen, "nl")
    /\ ctx' = IF word = <<>> THEN ctx ELSE Capped(ctx \o word \o <<"sp">>, profile.cap)
    /\ LearnUnlessLost
    /\ word' = <<>> /\ raw' = <<>> /\ auto' = FALSE /\ deferred' = "none"
    /\ UNCHANGED profile

RehydrateNothing(c) ==
    /\ ctx' = c
    /\ word' = <<>>

\* _rehydrate_current_word_from_context: the part of c after its last space
\* is the word at the caret again.
SpaceAt(c) == SelectLastInSeq(c, LAMBDA x : x = "sp")
Rehydrate(c) ==
    /\ ctx' = SubSeq(c, 1, SpaceAt(c))
    /\ word' = SubSeq(c, SpaceAt(c) + 1, Len(c))

Backspace ==
    /\ Uses("backspace") /\ screen # <<>>
    /\ screen' = DropLast(screen, 1)
    /\ raw' = DropLast(raw, 1)
    /\ auto' = FALSE /\ deferred' = "none"
    /\ IF word # <<>>
       THEN word' = DropLast(word, 1) /\ UNCHANGED ctx
       ELSE Rehydrate(DropLast(ctx, 1))
    /\ UNCHANGED <<profile, lost, taught>>

-----------------------------------------------------------------------------
(* Resets and inserts.                                                     *)

MarkLostNever == lost' = FALSE

MarkLost == lost' = (word # <<>>)

\* _reset_typing_context.
ResetContext ==
    /\ MarkLost
    /\ word' = <<>> /\ ctx' = <<>> /\ raw' = <<>> /\ deferred' = "none"
    /\ UNCHANGED <<profile, taught>>

\* A click outside that did not move the caret, say on a scroll bar.
OutsideClick ==
    /\ Uses(IF lost /\ word = <<>> THEN "secondClick" ELSE "click")
    /\ ResetContext
    /\ UNCHANGED <<screen, auto>>

\* Tab, an arrow, another window: the caret is somewhere else.  (An arrow
\* skips the reset once there is nothing left to clear.)
CaretLeaves ==
    /\ Uses("leave")
    /\ ResetContext
    /\ screen' = <<>> /\ auto' = FALSE

WholePill(p) == {screen \o OwedSpace \o p}

\* The word of a tapped pill, typed over the one in progress: the part not
\* yet typed if it continues it, else (or in compatibility mode) all of it.
\* A space owed from before comes first.
PillText(p) ==
    LET replaced == DropLast(screen, Len(word)) \o OwedSpace \o p
    IN {replaced, IF IsPrefix(word, p)
                  THEN screen \o OwedSpace \o SubSeq(p, Len(word) + 1, Len(p))
                  ELSE replaced}

Pill(p) ==
    /\ Uses("pill") /\ Room(2 + Len(p))
    /\ \E text \in PillText(p) : screen' = Append(text, "own")
    /\ ctx' = Capped(OwedInContext \o p \o <<"sp">>, profile.pillCap)
    /\ word' = <<>> /\ raw' = <<>> /\ lost' = FALSE
    /\ auto' = TRUE /\ deferred' = "none"
    /\ UNCHANGED <<profile, taught>>

\* insertSnippet and insertGlyph, through _commit_verbatim_insert.
InsertSnippet ==
    /\ Uses("snippet") /\ Room(1 + Len(SnippetText))
    /\ screen' = screen \o OwedSpace \o SnippetText
    /\ ctx' = OwedInContext
    /\ word' = <<>> /\ raw' = <<>> /\ lost' = FALSE
    /\ auto' = FALSE /\ deferred' = "none"
    /\ UNCHANGED <<profile, taught>>

\* editPrediction: p, rewritten in the pill's editor, over the word in
\* progress.  A space owed from before stays owed.
EditPrediction(p) ==
    /\ Uses(IF deferred = "none" THEN "edit" ELSE "editBehindMark") /\ Room(1 + Len(p))
    /\ screen' = DropLast(screen, Len(word)) \o p \o <<"own">>
    /\ ctx' = Capped(ctx \o p \o <<"sp">>, profile.pillCap)
    /\ word' = <<>> /\ raw' = <<>> /\ lost' = FALSE
    /\ UNCHANGED <<profile, auto, deferred, taught>>

\* _insert_spoken_text: a space in front unless one is there, and the word in
\* progress, left on screen, leaves the mirror.
InsertSpoken ==
    LET mirror == OwedInContext \o word
        lead == IF mirror = <<>> \/ EndsInSpace(mirror) THEN <<>> ELSE <<"sp">>
        phrase == lead \o SpokenText
    IN /\ Uses(IF word = <<>> THEN "spoken" ELSE "spokenMidWord") /\ Room(2 + Len(SpokenText))
       /\ screen' = screen \o OwedSpace \o phrase
       /\ ctx' = Capped(OwedInContext \o phrase, profile.cap)
       /\ word' = <<>> /\ raw' = <<>> /\ lost' = FALSE
       /\ auto' = FALSE /\ deferred' = "none"
       /\ UNCHANGED <<profile, taught>>

-----------------------------------------------------------------------------

Mark == EndSentence \/ Comma \/ ChordDot

TypingNext ==
    \/ \E c \in Letters : Letter(c)
    \/ Digit \/ Mark \/ \E g \in Glyphs : Glyph(g)
    \/ Space \/ Return \/ Backspace
    \/ OutsideClick \/ CaretLeaves
    \/ \E p \in PillWords : Pill(p) \/ EditPrediction(p)
    \/ InsertSnippet \/ InsertSpoken

TypingSpec == TypingInit /\ [][TypingNext]_typingVars

-----------------------------------------------------------------------------
(* Properties.                                                             *)

\* Keys that are sent but not noted in _context_buffer, marks that take the
\* word before them out of reach, and what takes text from only one of the
\* two: Backspace must not go back over them.
Unmirrored == {"extraSpace", "extraReturn", "snippet", "click", "chordBehindSpace"}
Marks == {"dot", "comma", "dash", "at"}

\* Inserts that leave letters at the caret and no current word, and a click
\* that makes the bridge forget it cut one.
Wordless == {"spoken", "spokenMidWord", "tokenPill", "secondClick"}

\* _context_buffer is never cut inside the text on screen.
Roomy == profile.cap >= profile.room /\ profile.pillCap >= profile.room

\* Who the mirror keeps up with.
Tracked ==
    /\ profile.keys \cap Wordless = {}
    /\ Uses("snippet") => SnippetText # <<>> /\ Last(SnippetText) \notin WordChars
    /\ Uses("backspace") => profile.keys \cap (Unmirrored \cup Marks) = {} /\ Roomy

\* What invariants below say where it holds, here without their conditions.
WordIsAtCaret == word = RunOf(Shown) \/ lost

NoFragmentTaught == taught # "tail"

\* _current_word is the whole word the caret stands behind, unless a reset
\* cut its opening away and the bridge knows it.  It fails when Backspace
\* goes back over a mark or an unmirrored key, on a second click into one
\* word, and behind a snippet that ends in letters, a dictated phrase or a
\* completed number.
WordAtCaret == Tracked => WordIsAtCaret

\* No tail of a word is ever taught as a word.  It fails where the word at
\* the caret does: on a second click into the same word, when Backspace
\* returns to a cut word or one before a full stop, and on letters typed
\* behind a snippet's or a dictated phrase's.
FragmentsNeverTaught == Tracked => NoFragmentTaught

\* After a tapped pill the word on screen is the pill's word: no letters
\* of the typed one survive beside it.
PillIsTheWord ==
    [][\A p \in PillWords : Pill(p) /\ ~lost /\ Tracked
         => RunOf(Front(screen')) = p]_typingVars

=============================================================================
