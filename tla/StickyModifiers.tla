-------------------------- MODULE StickyModifiers --------------------------
(***************************************************************************)
(* The four sticky modifiers of the on-screen keyboard: the flags behind   *)
(* the lit keycaps (keyboard_bridge.py) against what the operating system  *)
(* really holds down (platform/*.py).  A handler that touches several      *)
(* modifiers does so in the order of _MODIFIERS and stops at the first     *)
(* call that raises, which any OS call may do when OSFails is TRUE.        *)
(***************************************************************************)
EXTENDS Naturals, FiniteSets

CONSTANTS
    NeverHeld,      \* modifiers the backend never leaves down (_NEVER_HELD)
    ResetReleases,  \* does the backend override reset_modifier_state?
    OSFails,        \* may a key-down, key-up or send raise?
    Locking,        \* does the user right-click modifiers?
    Studying,       \* are research trials run?
    Crashing        \* may the process be killed without shutdown()?

Mods == {"shift", "ctrl", "alt", "win"}

ASSUME ConstantsAssumption ==
    /\ NeverHeld \subseteq Mods
    /\ {ResetReleases, OSFails, Locking, Studying, Crashing} \subseteq BOOLEAN

\* The order of _MODIFIERS, which every loop over the modifiers follows.
Rank == [m \in Mods |-> IF m = "shift" THEN 1 ELSE IF m = "ctrl" THEN 2
                        ELSE IF m = "alt" THEN 3 ELSE 4]

Commands == {"ctrl", "alt", "win"}

VARIABLES
    phase,       \* "running", "quit" (shutdown() completed) or "dead"
    active,      \* {m : _m_active}, the lit keycaps
    locked,      \* {m : _m_locked}
    caps,        \* _caps_lock_active
    winChorded,  \* _win_chorded
    editing,     \* _edit_mode_active
    recording,   \* _synth is the study recorder, not the desktop
    held,        \* what the desktop OS has down on our account
    stray,       \* held modifiers the last output carried unasked
    astride      \* modifiers that were lit when a trial began

vars == <<phase, active, locked, caps, winChorded, editing, recording, held,
          stray, astride>>

TypeOK ==
    /\ phase \in {"running", "quit", "dead"}
    /\ active \in SUBSET Mods
    /\ locked \in SUBSET Mods
    /\ caps \in BOOLEAN
    /\ winChorded \in BOOLEAN
    /\ editing \in BOOLEAN
    /\ recording \in BOOLEAN
    /\ held \in SUBSET (Mods \ NeverHeld)
    /\ stray \in SUBSET Mods
    /\ astride \in SUBSET Mods

Init ==
    /\ phase = "dead"
    /\ active = {} /\ locked = {} /\ held = {}
    /\ caps = FALSE /\ winChorded = FALSE /\ editing = FALSE
    /\ recording = FALSE
    /\ stray = {} /\ astride = {}

-----------------------------------------------------------------------------
(* The synthesiser under a run of key-downs or key-ups.                    *)

\* The parts of S a loop over S may get through: all of it, or what precedes
\* the modifier whose call raises.  The recorder never raises.
Done(S) ==
    {S} \cup IF OSFails /\ ~recording
             THEN {{m \in S : Rank[m] < Rank[f]} : f \in S} ELSE {}

DownPastRecorder(h, S) == h \cup (S \ NeverHeld)

\* The desktop's held set after key-downs (key-ups) for S.
Down(h, S) == IF recording THEN h ELSE h \cup (S \ NeverHeld)
Up(h, S) == IF recording THEN h ELSE h \ S

\* What the text now sent arrives under; a recorder sees no modifiers.
Riding(h) == IF recording THEN {} ELSE h

-----------------------------------------------------------------------------
(* Shared helpers of the handlers.                                         *)

StickyDropsLocked(names, keep) ==
    {m \in (names \ keep) \cap active : ~(m = "shift" /\ caps)}

\* What _release_sticky_modifiers(names, keep) sets out to drop: Caps Lock
\* pins a sticky Shift.
Sticky(names, keep) ==
    {m \in ((names \ keep) \cap active) \ locked : ~(m = "shift" /\ caps)}

\* _release_held for each of S, the OS holding h: key-up, then the flag.
ReleaseHeld(h, S) ==
    \E d \in Done(S) : active' = active \ d /\ held' = Up(h, d)

GuardedSkipsLocked(a, h) ==
    LET u == a \ locked IN
    {[held |-> Down(Up(h, u), e), stray |-> Riding(Up(h, u)), ok |-> TRUE] :
        e \in Done(u)}

GuardedForgetsRestore(a, h) ==
    {[held |-> Up(h, a), stray |-> Riding(Up(h, a)), ok |-> TRUE]}

\* The ways _without_held_modifiers can run an insert, a lit and h held.  A
\* key-up that raises stops it before its try; the key-downs are its finally,
\* so they follow a send that raises too.
Guarded(a, h) ==
    {[held |-> Up(h, d), stray |-> stray, ok |-> FALSE] : d \in Done(a) \ {a}}
      \cup
    {[held |-> Down(Up(h, a), e), stray |-> Riding(Up(h, a)), ok |-> (e = a)] :
        e \in Done(a)}
      \cup
    {[held |-> Down(Up(h, a), e), stray |-> Riding(Up(h, a)), ok |-> FALSE] :
        e \in IF OSFails THEN Done(a) ELSE {}}

\* A guarded insert, then the auto-release at the end of the handler.
InsertThenRelease ==
    \E r \in Guarded(active, held) :
        /\ stray' = r.stray
        /\ IF r.ok THEN ReleaseHeld(r.held, Sticky(Mods, {}))
                   ELSE held' = r.held /\ UNCHANGED active

\* _send_key or an unguarded _send_text, then the auto-release of S; a send
\* that raises leaves the modifiers for the user to tap off.
SendThenRelease(S) ==
    /\ stray' = Riding(held) \ active
    /\ \/ ReleaseHeld(held, S)
       \/ OSFails /\ UNCHANGED <<active, held>>

-----------------------------------------------------------------------------
(* Process lifetime.                                                       *)

AfterNoReset == held

\* reset_modifier_state where it is overridden; the base class does nothing.
AfterReset == IF ResetReleases THEN {} ELSE held

\* KeyboardBridge() and the resetModifiers() of Main.qml's onCompleted.
Start ==
    /\ phase # "running"
    /\ phase' = "running"
    /\ held' = AfterReset
    /\ active' = {} /\ locked' = {}
    /\ caps' = FALSE /\ winChorded' = FALSE /\ editing' = FALSE
    /\ recording' = FALSE
    /\ stray' = {} /\ astride' = astride \cap AfterReset

\* What shutdown() releases.
ShutdownReleases == active

\* shutdown(): one release after another; the first that raises ends it.
Shutdown ==
    /\ phase = "running"
    /\ \E d \in Done(ShutdownReleases) :
         /\ held' = Up(held, d)
         /\ active' = active \ d
         /\ IF d = ShutdownReleases THEN phase' = "quit" /\ locked' = {}
                                    ELSE phase' = "dead" /\ UNCHANGED locked
    /\ UNCHANGED <<caps, winChorded, editing, recording, stray, astride>>

\* The process is killed: the OS keeps what it holds.
Crash ==
    /\ Crashing /\ phase = "running"
    /\ phase' = "dead"
    /\ UNCHANGED <<active, locked, caps, winChorded, editing, recording,
                   held, stray, astride>>

-----------------------------------------------------------------------------
(* The modifier keys.                                                      *)

\* toggleShift, toggleCtrl, toggleAlt, toggleWin on a lit key: release, then
\* drop the lock, then (Win alone, nothing chorded) send the key itself.
TapOff(m) ==
    /\ phase = "running" /\ m \in active
    /\ ReleaseHeld(held, {m})
    /\ locked' = IF m \in active' THEN locked ELSE locked \ {m}
    /\ stray' = IF m = "win" /\ ~winChorded /\ m \notin active'
                THEN Riding(held') \ active' ELSE stray
    /\ UNCHANGED <<phase, caps, winChorded, editing, recording, astride>>

\* The same keys unlit: the flag first, then the key-down.
TapOn(m) ==
    /\ phase = "running" /\ m \notin active
    /\ active' = active \cup {m}
    /\ \E d \in Done({m}) : held' = Down(held, d)
    /\ winChorded' = (winChorded /\ m # "win")
    /\ UNCHANGED <<phase, locked, caps, editing, recording, stray, astride>>

\* lockModifier on an unlocked key; a sticky one is not pressed again.
Lock(m) ==
    /\ Locking /\ phase = "running" /\ m \notin locked
    /\ locked' = locked \cup {m}
    /\ active' = active \cup {m}
    /\ \E d \in Done({m} \ active) : held' = Down(held, d)
    /\ winChorded' = (winChorded /\ (m # "win" \/ m \in active))
    /\ UNCHANGED <<phase, caps, editing, recording, stray, astride>>

\* lockModifier on a locked key: both flags, then the key-up.
Unlock(m) ==
    /\ Locking /\ phase = "running" /\ m \in locked
    /\ locked' = locked \ {m}
    /\ active' = active \ {m}
    /\ \E d \in Done({m} \cap active) : held' = Up(held, d)
    /\ UNCHANGED <<phase, caps, winChorded, editing, recording, stray, astride>>

ToggleCapsLock ==
    /\ phase = "running"
    /\ caps' = ~caps
    /\ UNCHANGED <<phase, active, locked, winChorded, editing, recording,
                   held, stray, astride>>

-----------------------------------------------------------------------------
(* The keys that type.                                                     *)

\* _press_char while an edit surface is open: nothing reaches the OS.  A chord
\* drops Ctrl, Alt and Win, any other character drops Shift.
PressInEdit ==
    /\ phase = "running" /\ editing
    /\ ReleaseHeld(held, IF active \cap Commands # {} THEN Sticky(Commands, {})
                                                     ELSE Sticky({"shift"}, {}))
    /\ UNCHANGED <<phase, locked, caps, winChorded, editing, recording,
                   stray, astride>>

\* The chord branch of _press_char.
PressChord ==
    /\ phase = "running" /\ ~editing /\ active \cap Commands # {}
    /\ winChorded' = (winChorded \/ "win" \in active)
    /\ SendThenRelease(Sticky(Mods, {}))
    /\ UNCHANGED <<phase, locked, caps, editing, recording, astride>>

\* A character typed as text, Shift held or not.  (The space it may owe or
\* defer is TypingContext's.)
PressText ==
    /\ phase = "running" /\ ~editing /\ active \cap Commands = {}
    /\ SendThenRelease(Sticky(Mods, {}))
    /\ UNCHANGED <<phase, locked, caps, winChorded, editing, recording, astride>>

\* pressKeyLiteral: the glyph on the cap, whatever Shift is doing.
PressLiteral ==
    /\ phase = "running" /\ ~editing /\ active \cap Commands = {}
    /\ InsertThenRelease
    /\ UNCHANGED <<phase, locked, caps, winChorded, editing, recording, astride>>

\* pressSpecialKey: a navigation key keeps Shift and Ctrl for a selection.
PressSpecial(nav) ==
    /\ phase = "running" /\ ~editing
    /\ winChorded' = (winChorded \/ "win" \in active)
    /\ SendThenRelease(Sticky(Mods, IF nav THEN {"shift", "ctrl"} ELSE {}))
    /\ UNCHANGED <<phase, locked, caps, editing, recording, astride>>

\* pressSpecialKey("space") that autocorrects: the retype is a guarded insert.
PressSpaceAutocorrect ==
    /\ phase = "running" /\ ~editing
    /\ InsertThenRelease
    /\ UNCHANGED <<phase, locked, caps, winChorded, editing, recording, astride>>

\* A pill, snippet, glyph, phrase key or dictated text: _begin_verbatim_insert
\* drops the sticky modifiers first, then the guarded insert, which carries an
\* owed space inside it.
VerbatimInsert ==
    /\ phase = "running"
    /\ LET sticky == Sticky(Mods, {}) IN
       \E d \in Done(sticky) :
         /\ active' = active \ d
         /\ IF d # sticky
            THEN held' = Up(held, d) /\ UNCHANGED stray
            ELSE \E r \in Guarded(active \ d, Up(held, d)) :
                   held' = r.held /\ stray' = r.stray
    /\ UNCHANGED <<phase, locked, caps, winChorded, editing, recording, astride>>

-----------------------------------------------------------------------------
(* The surfaces that redirect the keys.                                    *)

\* beginEditSession / endEditSession, whoever owns the session.
ToggleEditing ==
    /\ phase = "running"
    /\ editing' = ~editing
    /\ UNCHANGED <<phase, active, locked, caps, winChorded, recording,
                   held, stray, astride>>

\* begin_study_capture and end_study_capture swap the synthesiser under the
\* handlers.
SwapSynth ==
    /\ Studying /\ phase = "running"
    /\ recording' = ~recording
    /\ astride' = IF recording THEN astride ELSE astride \cup active
    /\ UNCHANGED <<phase, active, locked, caps, winChorded, editing, held, stray>>

-----------------------------------------------------------------------------

Keystroke ==
    \/ PressInEdit \/ PressChord \/ PressText \/ PressLiteral
    \/ \E nav \in BOOLEAN : PressSpecial(nav)
    \/ PressSpaceAutocorrect \/ VerbatimInsert

Next ==
    \/ Start \/ Shutdown \/ Crash
    \/ \E m \in Mods : TapOff(m) \/ TapOn(m) \/ Lock(m) \/ Unlock(m)
    \/ ToggleCapsLock
    \/ Keystroke
    \/ ToggleEditing \/ SwapSynth

Spec == Init /\ [][Next]_vars

-----------------------------------------------------------------------------
(* Properties.                                                             *)

\* Nothing is down at the OS that no keycap shows, so no click in another
\* application arrives modified (_release_held), and after an orderly
\* shutdown nothing is down at all.
HeldIsLit ==
    /\ phase = "running" => held \subseteq active
    /\ phase = "quit" => held = {}

\* A lit keycap is a real hold, which _without_held_modifiers relies on when
\* it reads the flags instead of asking the OS.
LitIsHeld == phase = "running" => active \ NeverHeld \subseteq held

\* No key or text arrives under a modifier its sender did not mean it to: a
\* verbatim insert under none at all, a keystroke under lit ones only.
NoStrayModifier == stray = {}

\* A right-click lock survives every keystroke, insert and edit, keycap and
\* OS hold alike.
LocksSurviveKeystrokes ==
    [][Keystroke => /\ locked' = locked
                    /\ locked \subseteq active'
                    /\ locked \cap held \subseteq held']_vars

\* begin_study_capture swaps the synthesiser under modifiers that are held, so
\* their key-ups go to the recorder and they stay down at the desktop.  That is
\* all a trial can do: whatever is lit, dropped or fails within it, afterwards
\* and at exit the OS holds nothing behind a dark keycap, and no output carries
\* anything unasked, but what was lit when a trial began.
TrialsStrandOnlyTheLit ==
    /\ phase = "running" => held \subseteq active \cup astride
    /\ phase = "quit" => held \subseteq astride
    /\ stray \subseteq astride

=============================================================================
