----------------------------- MODULE CaretPolls -----------------------------
(***************************************************************************)
(* The typing context describes the text at one place, and the caret can   *)
(* leave it in ways the keyboard does not see: a click, another app, a     *)
(* command that moves focus.  Two timers look for that: _check_external_   *)
(* click every tick of 50 ms, _check_foreground_window every PollTicks.    *)
(* They compare tokens of the caret's position on screen and of the        *)
(* focused element, both of which also change under the keyboard's own     *)
(* typing, and drop the context when a change was not their own.           *)
(*                                                                         *)
(* Assumed of the desktop: an app handles a key before the next tick and a *)
(* click within LagTicks, an element is renamed only within ChurnTicks of  *)
(* a character, and the foreground reads 0 for one poll at most.  Of the   *)
(* user: the pointer takes more than a tick from a key to a place outside  *)
(* the keyboard and back, longer than the app takes for the click; and an  *)
(* app is not left again before the switch to it was seen.                 *)
(***************************************************************************)
EXTENDS Integers

CONSTANTS
    Places,         \* where a caret can be: records [win, field, spot]
    Home,           \* where it is at first
    Publishing,     \* windows that publish a caret rectangle
    Readable,       \* windows whose focused element has an identity to read
    CompatClasses,  \* windows of a listed class, of a listed process:
    CompatExes,
    GameExes,
    Borderless,     \* windows without a caption that cover their monitor
    PollTicks,      \* 250 ms in ticks of _CLICK_POLL_MS
    ProbeTicks,     \* between two readings of the focus probe
    SettleTicks,    \* _CLICK_SETTLE_MS
    GraceTicks,     \* _FOCUS_CHURN_GRACE_S
    ChurnTicks, LagTicks,
    MaxDeeds        \* bound: what the user does besides typing text

ASSUME PollsAssumption ==
    /\ Home \in Places /\ \A p \in Places : p.win # 0
    /\ {PollTicks, ProbeTicks, SettleTicks, GraceTicks} \subseteq Nat \ {0}
    /\ ChurnTicks \in Nat /\ LagTicks \in Nat /\ MaxDeeds \in Nat
    /\ LagTicks < SettleTicks /\ ProbeTicks <= PollTicks
    /\ ChurnTicks + ProbeTicks + PollTicks < GraceTicks

VARIABLES
    caret,       \* where the caret is
    column,      \* and at which of two columns on screen
    skin,        \* which of two identities the focused element shows
    away,       \* does GetForegroundWindow read 0?
    click,       \* a click its app has not handled: where to, and its age
    pressed,     \* did the button go down since the last click poll?
    context,     \* the mirror of the text, with the baselines of the polls
    inserting,   \* _synth.busy: a long insert is being typed
    front,       \* _last_foreground_hwnd
    typed,       \* _keystroke_since_poll, _keystroke_since_click_poll
    sinceKey,    \* ticks since the last text key, up to GraceTicks
    untilPoll, sinceRead,
    compat,      \* _compat_auto_enabled, _compat_auto_active
    game,        \* _game_auto_active
    calm,        \* begun with the desktop at rest, and nothing but typing since?
    left,        \* ticks since an observable deed left the context behind
    deeds

screen == <<caret, column, skin, away, click>>
clocks == <<sinceKey, untilPoll, sinceRead>>
modes == <<compat, game>>
pollVars == <<screen, clocks, modes, pressed, context, inserting, front, typed,
              calm, left, deeds>>

Nowhere == [win |-> 0, field |-> 0, spot |-> 0]
Unread == <<>>
NoSettle == [left |-> 0, base |-> Unread]
NoClick == [to |-> Nowhere, age |-> 0]

\* caret_position_token: a place on the screen, not in the text.
CaretToken == IF away \/ caret.win \notin Publishing THEN Unread ELSE <<caret, column>>

\* focused_element_token.
FocusToken == IF caret.win \in Readable THEN <<caret.win, caret.field, skin>> ELSE Unread

\* _window_needs_compat_mode: by class, then by process.
NeedsCompat(h) == h \in CompatClasses \/ h \in CompatExes

\* _window_is_game: a fullscreen editor is not one.
IsGame(h) == h \in GameExes \/ (h \notin CompatExes /\ h \in Borderless)

\* Text moves the caret on, where that is to be seen; at another place it
\* starts at the first column and its element under its first name.
NextColumn == IF caret.win \in Publishing THEN 1 - column ELSE 0
GoTo(p) ==
    /\ caret' = p
    /\ IF p = caret THEN UNCHANGED <<column, skin>> ELSE column' = 0 /\ skin' = 0

\* The bridge a poll after its start, in an empty field.
PollsInit ==
    /\ caret = Home /\ column = 0 /\ skin = 0 /\ away = FALSE
    /\ click = NoClick /\ pressed = FALSE
    /\ context = [about |-> Nowhere, mixed |-> FALSE, inWord |-> FALSE,
                  focus |-> FocusToken, caret |-> CaretToken, before |-> Unread,
                  settle |-> NoSettle,
                  reading |-> [token |-> FocusToken, usable |-> TRUE, graced |-> FALSE]]
    /\ inserting = FALSE /\ front = Home.win
    /\ typed = [poll |-> FALSE, click |-> FALSE]
    /\ sinceKey = GraceTicks /\ untilPoll = PollTicks /\ sinceRead = 0
    /\ compat = [on |-> TRUE, active |-> NeedsCompat(Home.win)] /\ game = IsGame(Home.win)
    /\ calm = FALSE /\ left = 0 /\ deeds = 0

\* Does the context describe a place the caret has left, and nothing else?
Stale == context.about \notin {Nowhere, caret} /\ ~context.mixed

\* _reset_typing_context.  The readings taken so far name the field that was
\* left; the caret's own baseline and the flags of the polls stay.
Reset(c) ==
    [c EXCEPT !.about = Nowhere, !.mixed = FALSE, !.inWord = FALSE,
              !.settle = NoSettle, !.before = Unread,
              !.focus = Unread, !.reading.usable = FALSE]

-----------------------------------------------------------------------------
(* The user types.                                                         *)

AtRest == front = caret.win /\ context.settle = NoSettle

\* No insert is under way and no press is on its way.
HandsFree == ~away /\ ~inserting /\ ~pressed /\ click = NoClick

\* (Slip) Every key arms it.
ArmsAlways(text) ==
    /\ typed' = [poll |-> TRUE, click |-> TRUE]
    /\ sinceKey' = 0

\* _note_own_keystroke: text arms the grace, a command takes it away.
NoteOwnKeystroke(text) ==
    /\ typed' = [poll |-> TRUE, click |-> TRUE]
    /\ sinceKey' = IF text THEN 0 ELSE GraceTicks

\* A key or an insert of the keyboard puts text at the caret.
TextArrives(endsWord, long) ==
    /\ HandsFree
    /\ NoteOwnKeystroke(TRUE)
    /\ context' = [context EXCEPT
           !.about = IF @ = Nowhere THEN caret ELSE @,
           !.mixed = @ \/ context.about \notin {Nowhere, caret},
           !.inWord = ~endsWord, !.reading.graced = TRUE]
    /\ calm' = IF context.about = Nowhere THEN AtRest ELSE calm
    /\ column' = NextColumn /\ inserting' = long
    /\ UNCHANGED <<caret, skin, away, click, pressed, front, untilPoll, sinceRead,
                   modes, left, deeds>>

PressChar(endsWord) == TextArrives(endsWord, FALSE)
BeginLongInsert == TextArrives(TRUE, TRUE)

InsertGoesOn ==
    /\ inserting
    /\ column' = NextColumn
    /\ UNCHANGED <<caret, skin, away, click, clocks, modes, pressed, context, inserting,
                   front, typed, calm, left, deeds>>

\* Its last characters are claimed by no flag when a poll came in between.
InsertEnds ==
    /\ inserting
    /\ inserting' = FALSE /\ column' = NextColumn
    /\ calm' = (calm /\ typed.poll)
    /\ UNCHANGED <<caret, skin, away, click, clocks, modes, pressed, context, front,
                   typed, left, deeds>>

\* A web composer renames its element when it stops being empty.
ElementIsRenamed ==
    /\ sinceKey <= ChurnTicks /\ caret.win \in Readable
    /\ skin' = 1 - skin
    /\ UNCHANGED <<caret, column, away, click, clocks, modes, pressed, context, inserting,
                   front, typed, calm, left, deeds>>

-----------------------------------------------------------------------------
(* The user, or an app, does something else.                               *)

Deed == deeds < MaxDeeds /\ deeds' = deeds + 1

\* The left button goes down outside the keyboard, perhaps on a place for
\* the caret, perhaps on a toolbar.
OutsideClick(p) ==
    /\ Deed /\ ~away /\ ~typed.click /\ ~pressed /\ click = NoClick
    /\ p.win # caret.win => front = caret.win
    /\ click' = [to |-> p, age |-> 0] /\ pressed' = TRUE
    /\ calm' = FALSE
    /\ UNCHANGED <<caret, column, skin, away, clocks, modes, context, inserting, front,
                   typed, left>>

\* Has the caret left p unseen since the last tick, for a click that no poll
\* has looked at to bring it back?
BroughtBack(p) == pressed /\ context.before # Unread /\ context.before[1] = p

AppHandlesClick ==
    /\ click # NoClick
    /\ click' = NoClick /\ GoTo(click.to)
    /\ left' = IF click.to = caret THEN left ELSE IF BroughtBack(click.to) THEN 0 ELSE 1
    /\ UNCHANGED <<away, clocks, modes, pressed, context, inserting, front, typed, calm,
                   deeds>>

\* Alt+Tab, or an app that raises itself, also under a long insert.
SwitchApp(p) ==
    /\ Deed /\ click = NoClick /\ ~away
    /\ p.win # caret.win /\ front = caret.win
    /\ GoTo(p) /\ away' \in BOOLEAN
    /\ calm' = FALSE /\ left' = 1
    /\ UNCHANGED <<click, clocks, modes, pressed, context, inserting, front, typed>>

SwitchCompletes ==
    /\ away
    /\ away' = FALSE
    /\ UNCHANGED <<caret, column, skin, click, clocks, modes, pressed, context, inserting,
                   front, typed, calm, left, deeds>>

\* _send_key for a chord or a function key: it moves focus, or does not.
CommandKey(p) ==
    /\ Deed /\ HandsFree /\ p.win = caret.win
    /\ NoteOwnKeystroke(FALSE)
    /\ context' = [context EXCEPT !.reading.graced = FALSE]
    /\ GoTo(p) /\ calm' = FALSE
    \* That it left is seen where the element that had focus was known; in
    \* the tick of a click's late move it passes for what moved the caret.
    /\ left' = IF context.focus # Unread /\ context.focus[2] # p.field THEN 1
               ELSE IF p = caret /\ context.settle = NoSettle THEN left ELSE 0
    /\ UNCHANGED <<away, click, pressed, inserting, front, untilPoll,
                   sinceRead, modes>>

\* The keyboard's Tab and its arrows drop the context themselves, an arrow
\* only if there is one.
MovingKey(p, drops) ==
    /\ Deed /\ HandsFree /\ p.win = caret.win
    /\ NoteOwnKeystroke(FALSE)
    /\ context' = [IF drops THEN Reset(context) ELSE context
                      EXCEPT !.reading.graced = FALSE]
    /\ GoTo(p) /\ calm' = FALSE
    /\ UNCHANGED <<away, click, pressed, inserting, front, untilPoll,
                   sinceRead, modes, left>>

TabKey(p) == MovingKey(p, TRUE)
ArrowKey(p) == MovingKey(p, context.about # Nowhere)

\* A key of the physical keyboard moves the caret, or the view scrolls.
MoveUnseen(p) ==
    /\ Deed /\ HandsFree /\ p.win = caret.win
    /\ IF p = caret THEN column' = NextColumn /\ UNCHANGED <<caret, skin>> ELSE GoTo(p)
    /\ calm' = FALSE /\ left' = 0
    /\ UNCHANGED <<away, click, clocks, modes, pressed, context, inserting, front, typed>>

\* setCompatAutoDetect: off leaves nothing on, on looks at once.
SetCompatAutoDetect(on) ==
    /\ Deed
    /\ compat' = [on |-> on, active |-> on /\ NeedsCompat(front)]
    /\ UNCHANGED <<screen, clocks, game, pressed, context, inserting, front, typed, calm,
                   left>>

-----------------------------------------------------------------------------
(* The focus probe and the two timers.                                     *)

ProbeReads ==
    /\ context' = [context EXCEPT
           !.reading = [token |-> IF away THEN Unread ELSE FocusToken, usable |-> TRUE,
                        graced |-> sinceKey < GraceTicks]]
    /\ sinceRead' = 0
    /\ UNCHANGED <<screen, sinceKey, untilPoll, modes, pressed, inserting, front, typed,
                   calm, left, deeds>>

\* _begin_click_settle: without two readings, or under an insert, the click
\* is taken to have moved the caret.
BeginSettle(c, before, now) ==
    IF inserting \/ before = Unread \/ now = Unread \/ now # before
    THEN Reset(c)
    ELSE [c EXCEPT !.settle = [left |-> SettleTicks, base |-> now]]

\* _continue_click_settle: a move of the keyboard's own is the new baseline.
ContinueSettle(c, now) ==
    LET base == IF typed.click /\ now # Unread THEN now ELSE c.settle.base IN
    IF now # base THEN Reset(c)
    ELSE [c EXCEPT !.settle = IF @.left = 1 THEN NoSettle
                              ELSE [left |-> @.left - 1, base |-> base]]

SettleAfter(c, before, now) ==
    IF pressed THEN BeginSettle(c, before, now)
    ELSE IF c.settle # NoSettle THEN ContinueSettle(c, now)
    ELSE c

\* (Slip) One flag for the two polls.
ClaimsForBoth == [poll |-> FALSE, click |-> FALSE]

\* Each poll consumes its own flag, or one would eat the other's evidence.
ClaimsAfterClickPoll == [typed EXCEPT !.click = FALSE]

\* _check_external_click, every tick; external_click_detected takes the press.
ClickPoll ==
    /\ untilPoll > 0 /\ sinceRead < ProbeTicks
    /\ click = NoClick \/ click.age < LagTicks
    /\ LET now == CaretToken IN
         context' = SettleAfter([context EXCEPT !.before = now], context.before, now)
    \* The reset that a click brings forgets this baseline, and stops the insert.
    /\ inserting' = (inserting /\ ~((pressed \/ context.settle # NoSettle)
                                      /\ context'.before = Unread))
    /\ pressed' = FALSE /\ typed' = ClaimsAfterClickPoll
    /\ click' = IF click = NoClick THEN click ELSE [click EXCEPT !.age = @ + 1]
    /\ untilPoll' = untilPoll - 1 /\ sinceRead' = sinceRead + 1
    /\ sinceKey' = IF sinceKey < GraceTicks THEN sinceKey + 1 ELSE sinceKey
    /\ UNCHANGED <<caret, column, skin, away, modes, front, calm, deeds>>
    /\ left' = IF left > 0 /\ Stale' THEN left + 1 ELSE 0

Switched == front # caret.win

\* The focused element: a new one under the keyboard's own typing is the old
\* one renamed.
ElementSeen(c) ==
    LET r == c.reading IN
    IF ~r.usable \/ r.token = Unread \/ r.token[1] # caret.win THEN c
    ELSE [IF ~Switched /\ c.focus \notin {Unread, r.token} /\ ~r.graced /\ ~inserting
          THEN Reset(c) ELSE c
            EXCEPT !.focus = r.token]

\* _check_caret_moved: only between words, and not under its own typing.
CaretSeen(c) ==
    LET now == CaretToken IN
    [IF now = Unread \/ Switched \/ c.caret \in {Unread, now}
          \/ typed.poll \/ inserting \/ c.inWord
     THEN c ELSE Reset(c)
        EXCEPT !.caret = now]

\* _check_foreground_window.
ForegroundPoll ==
    /\ untilPoll = 0 /\ untilPoll' = PollTicks
    /\ IF away
       THEN /\ away' = FALSE
            /\ UNCHANGED <<context, inserting, front, typed, modes>>
       ELSE /\ context' = CaretSeen(ElementSeen(IF Switched THEN Reset(context)
                                                ELSE context))
            /\ inserting' = (inserting /\ ~Switched)
            /\ typed' = [typed EXCEPT !.poll = FALSE]
            /\ compat' = [compat EXCEPT !.active = IF compat.on THEN NeedsCompat(caret.win)
                                                   ELSE @]
            /\ game' = IsGame(caret.win)
            /\ front' = caret.win
            /\ UNCHANGED away
    /\ UNCHANGED <<caret, column, skin, click, pressed, sinceKey, sinceRead, calm, left,
                   deeds>>

-----------------------------------------------------------------------------

PollsNext ==
    \/ \E ends \in BOOLEAN : PressChar(ends)
    \/ BeginLongInsert \/ InsertGoesOn \/ InsertEnds
    \/ ElementIsRenamed
    \/ \E p \in Places : OutsideClick(p) \/ SwitchApp(p) \/ CommandKey(p)
                            \/ TabKey(p) \/ ArrowKey(p) \/ MoveUnseen(p)
    \/ AppHandlesClick \/ SwitchCompletes
    \/ \E on \in BOOLEAN : SetCompatAutoDetect(on)
    \/ ProbeReads \/ ClickPoll \/ ForegroundPoll

PollsSpec == PollsInit /\ [][PollsNext]_pollVars

-----------------------------------------------------------------------------
(* Properties.                                                             *)

\* No poll drops the context of someone who only types: neither the caret's
\* moves nor an element's new name under their keys count as a move of theirs.
TypingIsNoMove == [][calm /\ calm' /\ context.about # Nowhere => context'.about # Nowhere]_pollVars

\* A context left by a click, by a switch or by a command that changed the
\* field is not kept beyond two polls, unless its text was typed on.
LeftBehindIsDropped == left <= 1 + 2 * PollTicks

=============================================================================
