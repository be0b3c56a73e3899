---------------------------- MODULE BridgeProofs ----------------------------
(***************************************************************************)
(* What holds of the two halves of KeyboardBridge for every value of their *)
(* constants.                                                              *)
(*                                                                         *)
(* The sticky modifiers, for every backend and mix of failures: keycaps    *)
(* and what the OS holds agree, nothing rides along with text, locks last, *)
(* and a trial strands only what was lit when it began.                    *)
(*                                                                         *)
(* The typing context and the bar over it, for texts of any length, any    *)
(* words and any cut of the buffer: the word in the mirror is the word at  *)
(* the caret, no tail of a word is learned, the bar is for the text that   *)
(* stands there and a tapped pill leaves its word and nothing else.        *)
(***************************************************************************)
EXTENDS StickyModifiers, SuggestionBar,
        SequenceTheorems, WellFoundedInduction, TLAPS

-----------------------------------------------------------------------------
(* Sticky modifiers.                                                       *)

\* A run of OS calls gets through part of what it set out to do.
LEMMA DoneIsPartial ==
    ASSUME NEW S, NEW d \in Done(S)
    PROVE  d \subseteq S
  BY DEF Done

\* With an OS that never fails, it gets through all of it.
LEMMA DoneIsAll ==
    ASSUME NEW S, NEW d \in Done(S), ~OSFails
    PROVE  d = S
  BY DEF Done

\* What the auto-release drops was lit.
LEMMA StickyIsLit ==
    ASSUME NEW names, NEW keep
    PROVE  Sticky(names, keep) \subseteq active
  BY DEF Sticky

\* The result of a guarded insert is well typed.
LEMMA GuardedTyped ==
    ASSUME TypeOK, NEW a \in SUBSET Mods, NEW h \in SUBSET (Mods \ NeverHeld),
           NEW r \in Guarded(a, h)
    PROVE  r.held \in SUBSET (Mods \ NeverHeld) /\ r.stray \in SUBSET Mods
                                               /\ r.ok \in BOOLEAN
  <1>1. CASE \E d \in Done(a) \ {a} :
               r = [held |-> Up(h, d), stray |-> stray, ok |-> FALSE]
    BY <1>1 DEF Up, TypeOK
  <1>2. CASE \E e \in Done(a), b \in BOOLEAN :
               r = [held |-> Down(Up(h, a), e), stray |-> Riding(Up(h, a)), ok |-> b]
    <2>1. PICK e \in Done(a), b \in BOOLEAN :
               r = [held |-> Down(Up(h, a), e), stray |-> Riding(Up(h, a)), ok |-> b]
      BY <1>2
    <2>2. e \subseteq a
      BY DoneIsPartial
    <2> QED
      BY <2>1, <2>2 DEF Up, Down, Riding
  <1> QED
    BY <1>1, <1>2 DEF Guarded

\* What a released set leaves is well typed.
LEMMA ReleaseTyped ==
    ASSUME TypeOK, NEW h \in SUBSET (Mods \ NeverHeld), NEW S, ReleaseHeld(h, S)
    PROVE  active' \in SUBSET Mods /\ held' \in SUBSET (Mods \ NeverHeld)
  BY DEF ReleaseHeld, Up, TypeOK

-----------------------------------------------------------------------------

\* Every variable keeps its type: in particular the OS is never asked to hold
\* a modifier the backend promises not to (NeverHeld).
THEOREM TypeCorrect == Spec => []TypeOK
  <1>1. Init => TypeOK
    BY DEF Init, TypeOK
  <1>2. TypeOK /\ [Next]_vars => TypeOK'
    <2> SUFFICES ASSUME TypeOK, [Next]_vars PROVE TypeOK'
      OBVIOUS
    <2>1. CASE Start
      BY <2>1 DEF Start, AfterReset, TypeOK
    <2>2. CASE Shutdown
      BY <2>2 DEF Shutdown, Up, TypeOK
    <2>3. CASE Crash
      BY <2>3 DEF Crash, TypeOK
    <2>4. ASSUME NEW m \in Mods, TapOff(m) PROVE TypeOK'
      <3>1. active' \in SUBSET Mods /\ held' \in SUBSET (Mods \ NeverHeld)
        BY <2>4, ReleaseTyped DEF TapOff, TypeOK
      <3> QED
        BY <2>4, <3>1 DEF TapOff, Riding, TypeOK
    <2>5. ASSUME NEW m \in Mods, TapOn(m) PROVE TypeOK'
      <3>1. PICK d \in Done({m}) : held' = Down(held, d)
        BY <2>5 DEF TapOn
      <3>2. d \subseteq Mods
        BY DoneIsPartial
      <3>3. held' \in SUBSET (Mods \ NeverHeld)
        BY <3>1, <3>2 DEF Down, TypeOK
      <3> QED
        BY <2>5, <3>3 DEF TapOn, TypeOK
    <2>6. ASSUME NEW m \in Mods, Lock(m) PROVE TypeOK'
      <3>1. PICK d \in Done({m} \ active) : held' = Down(held, d)
        BY <2>6 DEF Lock
      <3>2. d \subseteq Mods
        BY DoneIsPartial
      <3>3. held' \in SUBSET (Mods \ NeverHeld)
        BY <3>1, <3>2 DEF Down, TypeOK
      <3> QED
        BY <2>6, <3>3 DEF Lock, TypeOK
    <2>7. ASSUME NEW m \in Mods, Unlock(m) PROVE TypeOK'
      BY <2>7 DEF Unlock, Up, TypeOK
    <2>8. CASE ToggleCapsLock
      BY <2>8 DEF ToggleCapsLock, TypeOK
    <2>9. CASE PressInEdit
      <3>1. active' \in SUBSET Mods /\ held' \in SUBSET (Mods \ NeverHeld)
        BY <2>9, ReleaseTyped DEF PressInEdit, TypeOK
      <3> QED
        BY <2>9, <3>1 DEF PressInEdit, TypeOK
    <2>10. ASSUME NEW S, SendThenRelease(S)
           PROVE  /\ active' \in SUBSET Mods
                  /\ held' \in SUBSET (Mods \ NeverHeld)
                  /\ stray' \in SUBSET Mods
      BY <2>10, ReleaseTyped DEF SendThenRelease, Riding, TypeOK
    <2>11. ASSUME InsertThenRelease
           PROVE  /\ active' \in SUBSET Mods
                  /\ held' \in SUBSET (Mods \ NeverHeld)
                  /\ stray' \in SUBSET Mods
      <3>1. PICK r \in Guarded(active, held) :
              /\ stray' = r.stray
              /\ IF r.ok THEN ReleaseHeld(r.held, Sticky(Mods, {}))
                         ELSE held' = r.held /\ UNCHANGED active
        BY <2>11 DEF InsertThenRelease
      <3>2. r.held \in SUBSET (Mods \ NeverHeld) /\ r.stray \in SUBSET Mods
                                                /\ r.ok \in BOOLEAN
        BY GuardedTyped DEF TypeOK
      <3> QED
        BY <3>1, <3>2, ReleaseTyped DEF TypeOK
    <2>12. CASE PressChord
      BY <2>10, <2>12 DEF PressChord, TypeOK
    <2>13. CASE PressText
      BY <2>10, <2>13 DEF PressText, TypeOK
    <2>14. CASE PressLiteral
      BY <2>11, <2>14 DEF PressLiteral, TypeOK
    <2>15. ASSUME NEW nav \in BOOLEAN, PressSpecial(nav) PROVE TypeOK'
      BY <2>10, <2>15 DEF PressSpecial, TypeOK
    <2>16. CASE PressSpaceAutocorrect
      BY <2>11, <2>16 DEF PressSpaceAutocorrect, TypeOK
    <2>17. CASE VerbatimInsert
      <3>1. PICK d \in Done(Sticky(Mods, {})) :
              /\ active' = active \ d
              /\ IF d # Sticky(Mods, {})
                 THEN held' = Up(held, d) /\ UNCHANGED stray
                 ELSE \E r \in Guarded(active \ d, Up(held, d)) :
                        held' = r.held /\ stray' = r.stray
        BY <2>17 DEF VerbatimInsert
      <3>2. active \ d \in SUBSET Mods /\ Up(held, d) \in SUBSET (Mods \ NeverHeld)
        BY DEF Up, TypeOK
      <3>3. /\ held' \in SUBSET (Mods \ NeverHeld)
            /\ stray' \in SUBSET Mods
        BY <3>1, <3>2, GuardedTyped DEF TypeOK
      <3> QED
        BY <2>17, <3>1, <3>2, <3>3 DEF VerbatimInsert, TypeOK
    <2>18. CASE ToggleEditing
      BY <2>18 DEF ToggleEditing, TypeOK
    <2>19. CASE SwapSynth
      BY <2>19 DEF SwapSynth, TypeOK
    <2>20. CASE UNCHANGED vars
      BY <2>20 DEF vars, TypeOK
    <2> QED
      BY <2>1, <2>2, <2>3, <2>4, <2>5, <2>6, <2>7, <2>8, <2>9, <2>12, <2>13,
         <2>14, <2>15, <2>16, <2>17, <2>18, <2>19, <2>20 DEF Next, Keystroke
  <1> QED
    BY <1>1, <1>2, PTL DEF Spec

-----------------------------------------------------------------------------
(* Agreement between the keycaps and the OS.                               *)

\* The circumstances under which the keycaps can be trusted, but for trials.
\* An unlock clears its flags before a key-up that may raise; a process that
\* died leaves its holds to a reset that only some backends perform.
Trusted ==
    /\ ~(OSFails /\ Locking)
    /\ ResetReleases \/ ~(Crashing \/ OSFails)

\* The invariant that is inductive: nothing is pressed at the desktop during a
\* trial, and a dead process leaves nothing down that the next start would not
\* reset, but what a trial was begun over.
IInv ==
    /\ TypeOK
    /\ recording => held \subseteq astride
    /\ phase # "running" => ResetReleases \/ held \subseteq astride
    /\ TrialsStrandOnlyTheLit
    /\ ~Studying => ~recording /\ astride = {}

\* A release that stops half way leaves the OS holding lit modifiers, and what
\* was stranded; a recorder's release leaves it as it was.
LEMMA ReleaseKeepsLit ==
    ASSUME NEW h, h \subseteq active \cup astride, recording => h \subseteq astride,
           NEW S, ReleaseHeld(h, S)
    PROVE  /\ held' \subseteq active' \cup astride
           /\ recording => held' \subseteq astride
  BY DEF ReleaseHeld, Up

\* However a guarded insert ends, the OS holds no more than was lit or stranded,
\* and text was typed under the stranded at most.
LEMMA GuardedKeepsLit ==
    ASSUME IInv, NEW a, NEW h, h \subseteq a \cup astride,
           recording => h \subseteq astride, NEW r \in Guarded(a, h)
    PROVE  /\ r.held \subseteq a \cup astride /\ r.stray \subseteq astride
           /\ recording => r.held \subseteq astride
  <1>1. CASE \E d \in Done(a) \ {a} :
               r = [held |-> Up(h, d), stray |-> stray, ok |-> FALSE]
    BY <1>1 DEF Up, IInv, TrialsStrandOnlyTheLit
  <1>2. CASE \E e \in Done(a), b \in BOOLEAN :
               r = [held |-> Down(Up(h, a), e), stray |-> Riding(Up(h, a)), ok |-> b]
    <2>1. PICK e \in Done(a), b \in BOOLEAN :
               r = [held |-> Down(Up(h, a), e), stray |-> Riding(Up(h, a)), ok |-> b]
      BY <1>2
    <2>2. e \subseteq a
      BY DoneIsPartial
    <2> QED
      BY <2>1, <2>2 DEF Up, Down, Riding
  <1> QED
    BY <1>1, <1>2 DEF Guarded

\* What a step that keeps the trials as they are has to show of the rest.
LEMMA SameTrials ==
    ASSUME IInv, TypeOK', UNCHANGED <<phase, recording, astride>>, phase = "running",
           held' \subseteq active' \cup astride, stray' \subseteq astride,
           recording => held' \subseteq astride
    PROVE  IInv'
  BY DEF IInv, TrialsStrandOnlyTheLit

\* IInv holds throughout wherever the keycaps can be trusted: _release_held's
\* order of key-up and flag is what carries it.
THEOREM TrustedInv ==
    ASSUME Trusted
    PROVE  Spec => []IInv
  <1>1. Init => IInv
    BY DEF Init, IInv, TypeOK, TrialsStrandOnlyTheLit
  <1>2. IInv /\ TypeOK' /\ [Next]_vars => IInv'
    <2> SUFFICES ASSUME IInv, TypeOK', [Next]_vars PROVE IInv'
      OBVIOUS
    <2>0. phase = "running" =>
            /\ held \subseteq active \cup astride /\ stray \subseteq astride
            /\ recording => held \subseteq astride
      BY DEF IInv, TrialsStrandOnlyTheLit
    <2>1. CASE Start
      BY <2>1 DEF Start, AfterReset, IInv, TrialsStrandOnlyTheLit
    <2>2. CASE Shutdown
      <3>1. PICK d \in Done(ShutdownReleases) :
              /\ held' = Up(held, d)
              /\ active' = active \ d
              /\ IF d = ShutdownReleases THEN phase' = "quit" /\ locked' = {}
                                         ELSE phase' = "dead" /\ UNCHANGED locked
        BY <2>2 DEF Shutdown
      <3>2. CASE d = ShutdownReleases
        <4>1. held' \subseteq astride
          BY <2>0, <2>2, <3>1, <3>2 DEF Shutdown, ShutdownReleases, Up
        <4> QED
          BY <2>2, <3>1, <3>2, <4>1 DEF Shutdown, IInv, TrialsStrandOnlyTheLit
      <3>3. CASE d # ShutdownReleases
        <4>1. ResetReleases /\ phase' = "dead"
          BY <3>1, <3>3, DoneIsAll DEF Trusted
        <4>2. recording => held' \subseteq astride
          BY <2>0, <2>2, <3>1 DEF Shutdown, Up
        <4> QED
          BY <2>2, <4>1, <4>2 DEF Shutdown, IInv, TrialsStrandOnlyTheLit
      <3> QED
        BY <3>2, <3>3
    <2>3. CASE Crash
      BY <2>3 DEF Crash, IInv, TrialsStrandOnlyTheLit, Trusted
    <2>4. ASSUME NEW m \in Mods, TapOff(m) PROVE IInv'
      <3>1. /\ held' \subseteq active' \cup astride
            /\ recording => held' \subseteq astride
        BY <2>0, <2>4, ReleaseKeepsLit DEF TapOff
      <3>2. stray' \subseteq astride
        BY <2>0, <2>4, <3>1 DEF TapOff, Riding
      <3> QED
        BY <2>4, <3>1, <3>2, SameTrials DEF TapOff
    <2>5. ASSUME NEW m \in Mods, TapOn(m) PROVE IInv'
      <3>1. PICK d \in Done({m}) : held' = Down(held, d)
        BY <2>5 DEF TapOn
      <3>2. d \subseteq {m}
        BY DoneIsPartial
      <3>3. /\ held' \subseteq active' \cup astride
            /\ recording => held' \subseteq astride
        BY <2>0, <2>5, <3>1, <3>2 DEF TapOn, Down
      <3> QED
        BY <2>0, <2>5, <3>3, SameTrials DEF TapOn
    <2>6. ASSUME NEW m \in Mods, Lock(m) PROVE IInv'
      <3>1. PICK d \in Done({m} \ active) : held' = Down(held, d)
        BY <2>6 DEF Lock
      <3>2. d \subseteq {m}
        BY DoneIsPartial
      <3>3. /\ held' \subseteq active' \cup astride
            /\ recording => held' \subseteq astride
        BY <2>0, <2>6, <3>1, <3>2 DEF Lock, Down
      <3> QED
        BY <2>0, <2>6, <3>3, SameTrials DEF Lock
    <2>7. ASSUME NEW m \in Mods, Unlock(m) PROVE IInv'
      <3>1. PICK d \in Done({m} \cap active) : held' = Up(held, d)
        BY <2>7 DEF Unlock
      <3>2. d = {m} \cap active
        BY <2>7, DoneIsAll DEF Unlock, Trusted
      <3>3. /\ held' \subseteq active' \cup astride
            /\ recording => held' \subseteq astride
        BY <2>0, <2>7, <3>1, <3>2 DEF Unlock, Up
      <3> QED
        BY <2>0, <2>7, <3>3, SameTrials DEF Unlock
    <2>8. CASE ToggleCapsLock
      BY <2>0, <2>8, SameTrials DEF ToggleCapsLock
    <2>9. CASE PressInEdit
      <3>1. \E S : ReleaseHeld(held, S)
        BY <2>9 DEF PressInEdit
      <3>2. /\ held' \subseteq active' \cup astride
            /\ recording => held' \subseteq astride
        BY <2>0, <2>9, <3>1, ReleaseKeepsLit DEF PressInEdit
      <3> QED
        BY <2>0, <2>9, <3>2, SameTrials DEF PressInEdit
    <2>10. ASSUME NEW S, SendThenRelease(S), phase = "running"
           PROVE  /\ held' \subseteq active' \cup astride /\ stray' \subseteq astride
                  /\ recording => held' \subseteq astride
      BY <2>0, <2>10, ReleaseKeepsLit DEF SendThenRelease, Riding
    <2>11. ASSUME InsertThenRelease, phase = "running"
           PROVE  /\ held' \subseteq active' \cup astride /\ stray' \subseteq astride
                  /\ recording => held' \subseteq astride
      <3>1. PICK r \in Guarded(active, held) :
              /\ stray' = r.stray
              /\ IF r.ok THEN ReleaseHeld(r.held, Sticky(Mods, {}))
                         ELSE held' = r.held /\ UNCHANGED active
        BY <2>11 DEF InsertThenRelease
      <3>2. /\ r.held \subseteq active \cup astride /\ r.stray \subseteq astride
            /\ recording => r.held \subseteq astride
        BY <2>0, <2>11, GuardedKeepsLit
      <3> QED
        BY <3>1, <3>2, ReleaseKeepsLit
    <2>12. CASE PressChord
      BY <2>10, <2>12, SameTrials DEF PressChord
    <2>13. CASE PressText
      BY <2>10, <2>13, SameTrials DEF PressText
    <2>14. CASE PressLiteral
      BY <2>11, <2>14, SameTrials DEF PressLiteral
    <2>15. ASSUME NEW nav \in BOOLEAN, PressSpecial(nav) PROVE IInv'
      <3>1. \E S : SendThenRelease(S)
        BY <2>15 DEF PressSpecial
      <3> QED
        BY <2>10, <2>15, <3>1, SameTrials DEF PressSpecial
    <2>16. CASE PressSpaceAutocorrect
      BY <2>11, <2>16, SameTrials DEF PressSpaceAutocorrect
    <2>17. CASE VerbatimInsert
      <3>1. PICK d \in Done(Sticky(Mods, {})) :
              /\ active' = active \ d
              /\ IF d # Sticky(Mods, {})
                 THEN held' = Up(held, d) /\ UNCHANGED stray
                 ELSE \E r \in Guarded(active \ d, Up(held, d)) :
                        held' = r.held /\ stray' = r.stray
        BY <2>17 DEF VerbatimInsert
      <3>2. /\ Up(held, d) \subseteq (active \ d) \cup astride
            /\ recording => Up(held, d) \subseteq astride
        BY <2>0, <2>17 DEF VerbatimInsert, Up
      <3>3. /\ held' \subseteq active' \cup astride /\ stray' \subseteq astride
            /\ recording => held' \subseteq astride
        BY <2>0, <2>17, <3>1, <3>2, GuardedKeepsLit DEF VerbatimInsert
      <3> QED
        BY <2>17, <3>3, SameTrials DEF VerbatimInsert
    <2>18. CASE ToggleEditing
      BY <2>0, <2>18, SameTrials DEF ToggleEditing
    <2>19. CASE SwapSynth
      BY <2>0, <2>19 DEF SwapSynth, IInv, TrialsStrandOnlyTheLit
    <2>20. CASE UNCHANGED vars
      BY <2>20 DEF vars, IInv, TrialsStrandOnlyTheLit
    <2> QED
      BY <2>1, <2>2, <2>3, <2>4, <2>5, <2>6, <2>7, <2>8, <2>9, <2>12, <2>13,
         <2>14, <2>15, <2>16, <2>17, <2>18, <2>19, <2>20 DEF Next, Keystroke
  <1> QED
    BY <1>1, <1>2, TypeCorrect, PTL DEF Spec

\* A trial strands at the desktop only what was lit when it began, and only
\* that can end up under later output: through every keystroke, failure, crash
\* and restart that Trusted allows.
THEOREM TrialsStrandLittle ==
    ASSUME Trusted
    PROVE  Spec => []TrialsStrandOnlyTheLit
  <1>1. IInv => TrialsStrandOnlyTheLit
    BY DEF IInv
  <1> QED
    BY <1>1, TrustedInv, PTL

\* Without trials the OS holds no modifier whose keycap is dark, through all of
\* these, and none at all after an orderly shutdown.
THEOREM KeycapsAreHonest ==
    ASSUME Trusted, ~Studying
    PROVE  Spec => []HeldIsLit
  <1>1. IInv => HeldIsLit
    BY DEF IInv, TrialsStrandOnlyTheLit, HeldIsLit
  <1> QED
    BY <1>1, TrustedInv, PTL

\* And nothing is typed, or inserted, under a modifier it was not meant to
\* carry.
THEOREM NothingRidesAlong ==
    ASSUME Trusted, ~Studying
    PROVE  Spec => []NoStrayModifier
  <1>1. IInv => NoStrayModifier
    BY DEF IInv, TrialsStrandOnlyTheLit, NoStrayModifier
  <1> QED
    BY <1>1, TrustedInv, PTL

-----------------------------------------------------------------------------
(* The other direction, and what outlives a keystroke.                     *)

\* With an OS that never fails a lock is always on a lit keycap.
LocksAreLit == TypeOK /\ locked \subseteq active

\* What a keystroke leaves of the locks: the release is of sticky modifiers.
LEMMA ReleaseSparesLocks ==
    ASSUME ~OSFails, NEW h, NEW names, NEW keep,
           ReleaseHeld(h, Sticky(names, keep)), locked \subseteq active
    PROVE  locked \subseteq active' /\ locked \cap h \subseteq held'
  <1>1. active' = active \ Sticky(names, keep) /\ held' = Up(h, Sticky(names, keep))
    BY DoneIsAll DEF ReleaseHeld
  <1>2. locked \cap Sticky(names, keep) = {}
    BY DEF Sticky
  <1> QED
    BY <1>1, <1>2 DEF Up

\* With an OS that never fails a guarded insert presses again all it released,
\* and ends well.
LEMMA GuardedRestores ==
    ASSUME ~OSFails, NEW a, NEW h, NEW r \in Guarded(a, h)
    PROVE  r.ok = TRUE /\ r.held = Down(Up(h, a), a)
  <1>1. Done(a) = {a}
    BY DEF Done
  <1>2. r \in {[held |-> Down(Up(h, a), e), stray |-> Riding(Up(h, a)),
                ok |-> (e = a)] : e \in {a}}
    BY <1>1 DEF Guarded
  <1>3. r = [held |-> Down(Up(h, a), a), stray |-> Riding(Up(h, a)), ok |-> (a = a)]
    BY <1>2
  <1>4. (a = a) = TRUE
    OBVIOUS
  <1> QED
    BY <1>3, <1>4

\* Every key and insert that types leaves the locks lit and held.
LEMMA KeystrokeSparesLocks ==
    ASSUME LocksAreLit, ~OSFails, Keystroke
    PROVE  /\ locked' = locked
           /\ locked \subseteq active'
           /\ locked \cap held \subseteq held'
  <1>1. locked' = locked
    BY DEF Keystroke, PressInEdit, PressChord, PressText, PressLiteral,
           PressSpecial, PressSpaceAutocorrect, VerbatimInsert
  <1>2. locked \subseteq active
    BY DEF LocksAreLit
  <1>3. CASE PressInEdit
    <2>1. \E names : ReleaseHeld(held, Sticky(names, {}))
      BY <1>3 DEF PressInEdit
    <2> QED
      BY <1>1, <1>2, <2>1, ReleaseSparesLocks
  <1>4. CASE PressChord \/ PressText \/ \E nav \in BOOLEAN : PressSpecial(nav)
    <2>1. \E keep : SendThenRelease(Sticky(Mods, keep))
      BY <1>4 DEF PressChord, PressText, PressSpecial
    <2> QED
      BY <1>1, <1>2, <2>1, ReleaseSparesLocks DEF SendThenRelease
  <1>5. ASSUME NEW a, NEW h, NEW r \in Guarded(a, h), a \in SUBSET Mods,
               h \in SUBSET (Mods \ NeverHeld), locked \subseteq a
        PROVE  locked \cap h \subseteq r.held
    <2>1. r.held = Down(Up(h, a), a)
      BY <1>5, GuardedRestores
    <2> QED
      BY <1>5, <2>1 DEF Down, Up
  <1>6. CASE PressLiteral \/ PressSpaceAutocorrect
    <2>1. PICK r \in Guarded(active, held) :
            IF r.ok THEN ReleaseHeld(r.held, Sticky(Mods, {}))
                    ELSE held' = r.held /\ UNCHANGED active
      BY <1>6 DEF PressLiteral, PressSpaceAutocorrect, InsertThenRelease
    <2>2. ReleaseHeld(r.held, Sticky(Mods, {}))
      BY <2>1, GuardedRestores
    <2>3. locked \cap held \subseteq r.held
      BY <1>2, <1>5 DEF LocksAreLit, TypeOK
    <2> QED
      BY <1>1, <1>2, <2>2, <2>3, ReleaseSparesLocks
  <1>7. CASE VerbatimInsert
    <2> DEFINE s == Sticky(Mods, {})
    <2>1. /\ active' = active \ s
          /\ \E r \in Guarded(active \ s, Up(held, s)) : held' = r.held
      BY <1>7, DoneIsAll DEF VerbatimInsert
    <2>2. locked \cap s = {}
      BY DEF Sticky
    <2>3. /\ active \ s \in SUBSET Mods
          /\ Up(held, s) \in SUBSET (Mods \ NeverHeld)
          /\ locked \cap held \subseteq Up(held, s)
      BY <2>2 DEF LocksAreLit, TypeOK, Up
    <2> HIDE DEF s
    <2> QED
      BY <1>1, <1>2, <1>5, <2>1, <2>2, <2>3
  <1> QED
    BY <1>3, <1>4, <1>6, <1>7 DEF Keystroke

\* The locks are lit throughout.
THEOREM LocksStayLit ==
    ASSUME ~OSFails
    PROVE  Spec => []LocksAreLit
  <1>1. Init => LocksAreLit
    BY DEF Init, LocksAreLit, TypeOK
  <1>2. LocksAreLit /\ TypeOK' /\ [Next]_vars => LocksAreLit'
    <2> SUFFICES ASSUME LocksAreLit, TypeOK', [Next]_vars
                 PROVE  (locked \subseteq active)'
      BY DEF LocksAreLit
    <2>1. CASE Start
      BY <2>1 DEF Start
    <2>2. CASE Shutdown
      BY <2>2, DoneIsAll DEF Shutdown
    <2>3. CASE Crash \/ ToggleCapsLock \/ ToggleEditing \/ SwapSynth \/ UNCHANGED vars
      BY <2>3 DEF Crash, ToggleCapsLock, ToggleEditing, SwapSynth, vars, LocksAreLit
    <2>4. ASSUME NEW m \in Mods, TapOff(m) \/ TapOn(m) \/ Lock(m) \/ Unlock(m)
          PROVE  (locked \subseteq active)'
      <3>1. CASE TapOff(m)
        <4>1. active' = active \ {m}
          BY <3>1, DoneIsAll DEF TapOff, ReleaseHeld
        <4> QED
          BY <3>1, <4>1 DEF TapOff, LocksAreLit
      <3> QED
        BY <2>4, <3>1 DEF TapOn, Lock, Unlock, LocksAreLit
    <2>5. CASE Keystroke
      BY <2>5, KeystrokeSparesLocks DEF LocksAreLit
    <2> QED
      BY <2>1, <2>2, <2>3, <2>4, <2>5 DEF Next
  <1> QED
    BY <1>1, <1>2, TypeCorrect, PTL DEF Spec

\* A right-click lock survives every key and insert, its keycap and its hold
\* at the OS alike, on every backend whose calls do not fail: trials and
\* crashes included.
THEOREM LocksLast ==
    ASSUME ~OSFails
    PROVE  Spec => LocksSurviveKeystrokes
  <1>1. LocksAreLit /\ [Next]_vars
          => [Keystroke => /\ locked' = locked
                           /\ locked \subseteq active'
                           /\ locked \cap held \subseteq held']_vars
    BY KeystrokeSparesLocks
  <1> QED
    BY <1>1, LocksStayLit, PTL DEF Spec, LocksSurviveKeystrokes

-----------------------------------------------------------------------------

\* A steady keyboard: no OS call fails and no trial swaps the synthesiser.
Steady == ~OSFails /\ ~Studying

\* Lit keycaps are real holds, which is all the steady keyboard needs to keep
\* itself so.
SteadyInv == TypeOK /\ ~recording /\ LitIsHeld

\* A release takes keycap and hold together.
LEMMA ReleaseTakesBoth ==
    ASSUME Steady, ~recording, NEW h, NEW S, ReleaseHeld(h, S),
           active \ NeverHeld \subseteq h
    PROVE  active' \ NeverHeld \subseteq held'
  <1>1. active' = active \ S /\ held' = Up(h, S)
    BY DoneIsAll DEF ReleaseHeld, Steady
  <1> QED
    BY <1>1 DEF Up

\* So does a guarded insert, whatever was down before it.
LEMMA GuardedHoldsLit ==
    ASSUME Steady, ~recording, NEW a, NEW h, NEW r \in Guarded(a, h)
    PROVE  r.ok = TRUE /\ a \ NeverHeld \subseteq r.held
  <1>1. r.ok = TRUE /\ r.held = Down(Up(h, a), a)
    BY GuardedRestores DEF Steady
  <1> QED
    BY <1>1 DEF Down

\* On a steady keyboard a lit keycap is a modifier the OS has down, after
\* every key, insert, lock, crash and restart: _without_held_modifiers may
\* read the flags instead of asking the OS.
THEOREM KeycapsAreReal ==
    ASSUME Steady
    PROVE  Spec => []LitIsHeld
  <1>1. Init => SteadyInv
    BY DEF Init, SteadyInv, TypeOK, LitIsHeld
  <1>2. SteadyInv /\ TypeOK' /\ [Next]_vars => SteadyInv'
    <2> SUFFICES ASSUME SteadyInv, TypeOK', [Next]_vars
                 PROVE  (~recording /\ LitIsHeld)'
      BY DEF SteadyInv
    <2> USE DEF LitIsHeld
    <2>1. ASSUME NEW S, NEW d \in Done(S) PROVE d = S
      BY DoneIsAll DEF Steady
    <2>2. CASE Start
      BY <2>2 DEF Start
    <2>3. CASE Shutdown
      BY <2>1, <2>3 DEF Shutdown, SteadyInv
    <2>4. CASE Crash
      BY <2>4 DEF Crash, SteadyInv
    <2>5. CASE ToggleCapsLock \/ ToggleEditing \/ UNCHANGED vars
      BY <2>5 DEF ToggleCapsLock, ToggleEditing, vars, SteadyInv
    <2>6. CASE SwapSynth
      BY <2>6 DEF SwapSynth, Steady
    <2>7. ASSUME NEW m \in Mods, TapOff(m) PROVE (~recording /\ LitIsHeld)'
      BY <2>7, ReleaseTakesBoth DEF TapOff, SteadyInv
    <2>8. ASSUME NEW m \in Mods, TapOn(m) PROVE (~recording /\ LitIsHeld)'
      BY <2>1, <2>8 DEF TapOn, Down, SteadyInv
    <2>9. ASSUME NEW m \in Mods, Lock(m) PROVE (~recording /\ LitIsHeld)'
      BY <2>1, <2>9 DEF Lock, Down, SteadyInv
    <2>10. ASSUME NEW m \in Mods, Unlock(m) PROVE (~recording /\ LitIsHeld)'
      BY <2>1, <2>10 DEF Unlock, Up, SteadyInv
    <2>11. CASE PressInEdit
      BY <2>11, ReleaseTakesBoth DEF PressInEdit, SteadyInv
    <2>12. ASSUME NEW S, SendThenRelease(S), phase = "running"
           PROVE  active' \ NeverHeld \subseteq held'
      BY <2>12, ReleaseTakesBoth DEF SendThenRelease, SteadyInv, Steady
    <2>13. CASE PressChord \/ PressText \/ \E nav \in BOOLEAN : PressSpecial(nav)
      BY <2>12, <2>13 DEF PressChord, PressText, PressSpecial, SteadyInv
    <2>14. ASSUME InsertThenRelease
           PROVE  active' \ NeverHeld \subseteq held'
      <3>1. PICK r \in Guarded(active, held) :
              IF r.ok THEN ReleaseHeld(r.held, Sticky(Mods, {}))
                      ELSE held' = r.held /\ UNCHANGED active
        BY <2>14 DEF InsertThenRelease
      <3>2. ReleaseHeld(r.held, Sticky(Mods, {})) /\ active \ NeverHeld \subseteq r.held
        BY <3>1, GuardedHoldsLit DEF SteadyInv
      <3> QED
        BY <3>2, ReleaseTakesBoth DEF SteadyInv
    <2>15. CASE PressLiteral \/ PressSpaceAutocorrect
      BY <2>14, <2>15 DEF PressLiteral, PressSpaceAutocorrect, SteadyInv
    <2>16. CASE VerbatimInsert
      <3> DEFINE s == Sticky(Mods, {})
      <3>1. /\ active' = active \ s
            /\ \E r \in Guarded(active \ s, Up(held, s)) : held' = r.held
        BY <2>1, <2>16 DEF VerbatimInsert
      <3> HIDE DEF s
      <3> QED
        BY <2>16, <3>1, GuardedHoldsLit DEF VerbatimInsert, SteadyInv
    <2> QED
      BY <2>2, <2>3, <2>4, <2>5, <2>6, <2>7, <2>8, <2>9, <2>10, <2>11, <2>13,
         <2>15, <2>16 DEF Next, Keystroke
  <1>3. SteadyInv => LitIsHeld
    BY DEF SteadyInv
  <1> QED
    BY <1>1, <1>2, <1>3, TypeCorrect, PTL DEF Spec

-----------------------------------------------------------------------------
(* Sequences.                                                              *)

\* Kinds of text.
LEMMA TextIsSigns == Text \subseteq Seq(Signs) /\ Seq(Letters) \subseteq Seq(WordChars)
                     /\ Seq(WordChars) \subseteq Text
<1>1. Chars \subseteq Signs /\ Letters \subseteq WordChars /\ WordChars \subseteq Chars
  BY DEF Signs, WordChars, Chars
<1> QED BY <1>1, SeqMonotonic DEF Text

\* A front of a sequence.
LEMMA Fronts ==
    ASSUME NEW S, NEW q \in Seq(S), NEW n \in 0..Len(q)
    PROVE  /\ DropLast(q, n) \in Seq(S)
           /\ Len(DropLast(q, n)) = Len(q) - n
           /\ \A i \in 1..(Len(q) - n) : DropLast(q, n)[i] = q[i]
<1>1. \A i \in 1..(Len(q) - n) : q[i] \in S
  OBVIOUS
<1>2. Len(q) - n \in Nat
  OBVIOUS
<1> QED BY <1>1, <1>2, SubSeqProperties DEF DropLast

\* A tail of a sequence.
LEMMA Tails ==
    ASSUME NEW S, NEW q \in Seq(S), NEW k \in 0..Len(q)
    PROVE  /\ SubSeq(q, k + 1, Len(q)) \in Seq(S)
           /\ Len(SubSeq(q, k + 1, Len(q))) = Len(q) - k
           /\ \A i \in 1..(Len(q) - k) : SubSeq(q, k + 1, Len(q))[i] = q[k + i]
<1>1. \A i \in (k + 1)..Len(q) : q[i] \in S
  OBVIOUS
<1>2. /\ SubSeq(q, k + 1, Len(q)) \in Seq(S)
      /\ Len(SubSeq(q, k + 1, Len(q))) = IF k + 1 <= Len(q) THEN Len(q) - (k + 1) + 1 ELSE 0
      /\ \A i \in 1..(Len(q) - (k + 1) + 1) : SubSeq(q, k + 1, Len(q))[i] = q[(k + 1) + i - 1]
  BY <1>1, SubSeqProperties
<1> QED BY <1>2

\* The two parts a sequence is cut into.
LEMMA CutInTwo ==
    ASSUME NEW S, NEW s \in Seq(S), NEW t \in Seq(S)
    PROVE  /\ s \o t \in Seq(S) /\ Len(t) \in 0..Len(s \o t)
           /\ DropLast(s \o t, Len(t)) = s
           /\ SubSeq(s \o t, Len(s) + 1, Len(s \o t)) = t
<1>1. /\ s \o t \in Seq(S) /\ Len(s \o t) = Len(s) + Len(t)
      /\ \A i \in 1 .. Len(s) + Len(t) :
            (s \o t)[i] = IF i <= Len(s) THEN s[i] ELSE t[i - Len(s)]
  BY ConcatProperties
<1> DEFINE c == s \o t
<1> HIDE DEF c
<1>0. /\ c \in Seq(S) /\ Len(c) = Len(s) + Len(t)
      /\ \A i \in 1 .. Len(s) + Len(t) : c[i] = IF i <= Len(s) THEN s[i] ELSE t[i - Len(s)]
      /\ Len(t) \in 0..Len(c) /\ Len(s) \in 0..Len(c)
  BY <1>1 DEF c
<1>2. DropLast(c, Len(t)) = s
  <2> DEFINE d == DropLast(c, Len(t))
  <2>0. Len(c) - Len(t) = Len(s)
    BY <1>0
  <2>1. d \in Seq(S) /\ Len(d) = Len(c) - Len(t) /\ \A i \in 1..(Len(c) - Len(t)) : d[i] = c[i]
    BY <1>0, Fronts
  <2> HIDE DEF d
  <2>4. d \in Seq(S) /\ Len(d) = Len(s) /\ \A i \in 1..Len(s) : d[i] = c[i]
    BY <2>0, <2>1
  <2>2. \A i \in 1..Len(s) : d[i] = s[i]
    BY <1>0, <2>4
  <2>3. d = s
    BY <2>4, <2>2, SeqEqual
  <2> QED BY <2>3 DEF d
<1>3. SubSeq(c, Len(s) + 1, Len(c)) = t
  <2> DEFINE d == SubSeq(c, Len(s) + 1, Len(c))
  <2>0. Len(c) - Len(s) = Len(t)
    BY <1>0
  <2>4. d \in Seq(S) /\ Len(d) = Len(c) - Len(s) /\ \A i \in 1..(Len(c) - Len(s)) : d[i] = c[Len(s) + i]
    BY <1>0, Tails
  <2> HIDE DEF d
  <2>1. d \in Seq(S) /\ Len(d) = Len(t) /\ \A i \in 1..Len(t) : d[i] = c[Len(s) + i]
    BY <2>0, <2>4
  <2>2. \A i \in 1..Len(t) : d[i] = t[i]
    <3> TAKE i \in 1..Len(t)
    <3>1. /\ Len(s) + i \in 1..(Len(s) + Len(t)) /\ ~(Len(s) + i <= Len(s))
          /\ (Len(s) + i) - Len(s) = i
      OBVIOUS
    <3>2. c[Len(s) + i] = t[(Len(s) + i) - Len(s)]
      BY <1>0, <3>1
    <3> QED BY <2>1, <3>1, <3>2
  <2>3. d = t
    BY <2>1, <2>2, SeqEqual
  <2> QED BY <2>3 DEF d
<1> QED BY <1>0, <1>1, <1>2, <1>3 DEF c

\* A sequence is its front and the rest of it.
LEMMA Rejoined ==
    ASSUME NEW S, NEW q \in Seq(S), NEW k \in 0..Len(q)
    PROVE  q = SubSeq(q, 1, k) \o SubSeq(q, k + 1, Len(q))
<1> DEFINE s == SubSeq(q, 1, k)
           t == SubSeq(q, k + 1, Len(q))
<1>1. s \in Seq(S) /\ Len(s) = k /\ \A i \in 1..k : s[i] = q[i]
  <2>1. s = DropLast(q, Len(q) - k) /\ Len(q) - k \in 0..Len(q)
    BY DEF DropLast
  <2> QED BY <2>1, Fronts
<1>2. t \in Seq(S) /\ Len(t) = Len(q) - k /\ \A i \in 1..(Len(q) - k) : t[i] = q[k + i]
  BY Tails
<1> HIDE DEF s, t
<1>3. /\ s \o t \in Seq(S) /\ Len(s \o t) = Len(s) + Len(t)
      /\ \A i \in 1 .. Len(s) + Len(t) :
            (s \o t)[i] = IF i <= Len(s) THEN s[i] ELSE t[i - Len(s)]
  BY <1>1, <1>2, ConcatProperties
<1>4. \A i \in 1..Len(q) : q[i] = (s \o t)[i]
  BY <1>1, <1>2, <1>3
<1>6. s \o t \in Seq(S) /\ Len(s \o t) = Len(q)
  BY <1>1, <1>2, <1>3
<1>5. q = s \o t
  BY <1>4, <1>6, SeqEqual
<1> QED BY <1>5 DEF s, t

\* Every nonempty set of numbers up to n has a greatest.
LEMMA Greatest ==
    ASSUME NEW n \in Nat, NEW T \in SUBSET (1..n), T # {}
    PROVE  Max(T) \in T /\ \A y \in T : y <= Max(T)
<1> DEFINE R == {p \in Nat \X Nat : p[1] < p[2]}
           Left == {n - x : x \in T}
<1>1. IsWellFoundedOn(R, Nat)
  BY NatLessThanWellFounded DEF OpToRel
<1>2. \A x, y \in Nat : x < y => <<x, y>> \in R
  OBVIOUS
<1> HIDE DEF R
<1>3. Left \in SUBSET Nat /\ Left # {}
  <2>1. \A x \in T : n - x \in Nat
    OBVIOUS
  <2>2. PICK x \in T : TRUE
    OBVIOUS
  <2>3. n - x \in Left
    OBVIOUS
  <2> QED BY <2>1, <2>3
<1>4. PICK l \in Left : \A y \in Left : ~ (<<y, l>> \in R)
  BY <1>1, <1>3, WFMin
<1>5. PICK x \in T : l = n - x
  BY <1>4
<1>6. \A y \in T : x >= y
  <2> TAKE y \in T
  <2>1. n - y \in Left /\ n - y \in Nat /\ n - x \in Nat
    OBVIOUS
  <2>2. ~(n - y < n - x)
    BY <1>2, <1>4, <1>5, <2>1
  <2> QED BY <2>2
<1> QED BY <1>5, <1>6 DEF Max

-----------------------------------------------------------------------------
(* The run of word characters a text ends in.                              *)

\* k is the last place of q that is not in a word, 0 if there is none.
Break(q, k) ==
    /\ k \in 0..Len(q) /\ (k = 0 \/ q[k] \notin WordChars)
    /\ \A i \in (k + 1)..Len(q) : q[i] \in WordChars

\* The run is what stands behind the last break.
LEMMA RunFromBreak ==
    ASSUME NEW q \in Seq(Signs), NEW k, Break(q, k)
    PROVE  RunOf(q) = SubSeq(q, k + 1, Len(q))
<1> DEFINE I == {i \in 1..Len(q) : q[i] \notin WordChars}
<1>1. CASE k = 0
  <2>1. I = {}
    BY <1>1 DEF Break
  <2>2. SelectLastInSeq(q, LAMBDA c : c \notin WordChars) = 0
    BY <2>1 DEF SelectLastInSeq
  <2> QED BY <1>1, <2>2 DEF RunOf
<1>2. CASE k # 0
  <2>1. k \in I /\ \A y \in I : k >= y
    BY <1>2 DEF Break
  <2>2. \A x \in I : (\A y \in I : x >= y) => x = k
    BY <2>1
  <2>3. Max(I) = k
    BY <2>1, <2>2 DEF Max
  <2>4. SelectLastInSeq(q, LAMBDA c : c \notin WordChars) = k
    BY <2>1, <2>3 DEF SelectLastInSeq
  <2> QED BY <2>4 DEF RunOf
<1> QED BY <1>1, <1>2

\* Every text has a last break.
LEMMA HasBreak ==
    ASSUME NEW q \in Seq(Signs)
    PROVE  \E k : Break(q, k)
<1> DEFINE I == {i \in 1..Len(q) : q[i] \notin WordChars}
<1>1. CASE I = {}
  <2>1. Break(q, 0)
    BY <1>1 DEF Break
  <2> QED BY <2>1
<1>2. CASE I # {}
  <2>1. I \in SUBSET (1..Len(q)) /\ Len(q) \in Nat
    OBVIOUS
  <2> DEFINE m == Max(I)
  <2> HIDE DEF I
  <2>2. m \in I /\ \A y \in I : y <= m
    BY <1>2, <2>1, Greatest
  <2> HIDE DEF m
  <2>3. m \in 1..Len(q) /\ q[m] \notin WordChars
    BY <2>2 DEF I
  <2>4. \A i \in (m + 1)..Len(q) : q[i] \in WordChars
    <3> SUFFICES ASSUME NEW i \in (m + 1)..Len(q), q[i] \notin WordChars PROVE FALSE
      OBVIOUS
    <3>1. i \in I /\ i > m
      BY <2>3 DEF I
    <3> QED BY <2>2, <2>3, <3>1
  <2>5. Break(q, m)
    BY <2>3, <2>4 DEF Break
  <2> QED BY <2>5
<1> QED BY <1>1, <1>2

\* A run is word characters, and shorter than its text.
LEMMA RunTyped ==
    ASSUME NEW q \in Seq(Signs)
    PROVE  RunOf(q) \in Seq(WordChars) /\ Len(RunOf(q)) \in 0..Len(q)
<1>1. PICK k : Break(q, k)
  BY HasBreak
<1>2. RunOf(q) = SubSeq(q, k + 1, Len(q)) /\ k \in 0..Len(q)
  BY <1>1, RunFromBreak DEF Break
<1>3. Len(RunOf(q)) = Len(q) - k
  BY <1>2, Tails
<1>4. SubSeq(q, k + 1, Len(q)) \in Seq(WordChars)
  BY <1>1, SubSeqProperties DEF Break
<1> QED BY <1>2, <1>3, <1>4

\* Word characters lengthen the run they are typed behind.
LEMMA RunGrows ==
    ASSUME NEW q \in Seq(Signs), NEW p \in Seq(WordChars)
    PROVE  RunOf(q \o p) = RunOf(q) \o p
<1>1. PICK k : Break(q, k)
  BY HasBreak
<1>2. p \in Seq(Signs)
  BY TextIsSigns
<1> DEFINE r == q \o p
<1>3. /\ r \in Seq(Signs) /\ Len(r) = Len(q) + Len(p)
      /\ \A i \in 1 .. Len(q) + Len(p) : r[i] = IF i <= Len(q) THEN q[i] ELSE p[i - Len(q)]
  BY <1>2, ConcatProperties
<1> HIDE DEF r
<1>4. k \in 0..Len(q) /\ Break(r, k)
  <2>1. k \in 0..Len(q) /\ (k = 0 \/ q[k] \notin WordChars)
        /\ \A i \in (k + 1)..Len(q) : q[i] \in WordChars
    BY <1>1 DEF Break
  <2>2. k = 0 \/ r[k] \notin WordChars
    BY <1>3, <2>1
  <2>3. \A i \in (k + 1)..Len(r) : r[i] \in WordChars
    <3> TAKE i \in (k + 1)..Len(r)
    <3>1. CASE i <= Len(q)
      BY <1>3, <2>1, <3>1
    <3>2. CASE i > Len(q)
      <4>1. i - Len(q) \in 1..Len(p) /\ r[i] = p[i - Len(q)]
        BY <1>3, <2>1, <3>2
      <4> QED BY <4>1
    <3> QED BY <2>1, <3>1, <3>2, <1>3
  <2> QED BY <1>3, <2>1, <2>2, <2>3 DEF Break
<1>5. RunOf(q) = SubSeq(q, k + 1, Len(q)) /\ RunOf(r) = SubSeq(r, k + 1, Len(r))
  BY <1>1, <1>3, <1>4, RunFromBreak
<1> DEFINE u == SubSeq(q, k + 1, Len(q))
           v == SubSeq(r, k + 1, Len(r))
<1>6. /\ u \in Seq(Signs) /\ Len(u) = Len(q) - k
      /\ \A i \in 1..(Len(q) - k) : u[i] = q[k + i]
  BY <1>4, Tails
<1>7. /\ v \in Seq(Signs) /\ Len(v) = Len(r) - k
      /\ \A i \in 1..(Len(r) - k) : v[i] = r[k + i]
  BY <1>3, <1>4, Tails
<1> HIDE DEF u, v
<1>8. /\ u \o p \in Seq(Signs) /\ Len(u \o p) = Len(u) + Len(p)
      /\ \A i \in 1 .. Len(u) + Len(p) : (u \o p)[i] = IF i <= Len(u) THEN u[i] ELSE p[i - Len(u)]
  BY <1>2, <1>6, ConcatProperties
<1>9. Len(v) = Len(u \o p)
  BY <1>3, <1>4, <1>6, <1>7, <1>8
<1>10. \A i \in 1..Len(v) : v[i] = (u \o p)[i]
  <2> TAKE i \in 1..Len(v)
  <2>1. v[i] = r[k + i] /\ k + i \in 1..(Len(q) + Len(p))
    BY <1>3, <1>4, <1>7
  <2>2. CASE i <= Len(u)
    BY <1>3, <1>4, <1>6, <1>8, <1>9, <2>1, <2>2
  <2>3. CASE i > Len(u)
    <3>1. k + i > Len(q) /\ (k + i) - Len(q) = i - Len(u)
      BY <1>4, <1>6, <2>3
    <3>0. ~(k + i <= Len(q)) /\ ~(i <= Len(u)) /\ i \in 1..(Len(u) + Len(p))
      BY <1>4, <1>6, <1>8, <1>9, <2>1, <2>3, <3>1
    <3>2. r[k + i] = p[(k + i) - Len(q)]
      BY <1>3, <2>1, <3>0
    <3>3. (u \o p)[i] = p[i - Len(u)]
      BY <1>8, <3>0
    <3> QED BY <2>1, <3>1, <3>2, <3>3
  <2>4. i \in Int /\ Len(u) \in Int
    BY <1>6, <1>7
  <2>5. i <= Len(u) \/ i > Len(u)
    BY <2>4
  <2> QED BY <2>2, <2>3, <2>5
<1>11. v = u \o p
  BY <1>7, <1>8, <1>9, <1>10, SeqEqual
<1> QED BY <1>5, <1>11 DEF u, v, r

\* Behind anything else there is none.
LEMMA RunEnds ==
    ASSUME NEW q \in Seq(Signs), q # <<>> => q[Len(q)] \notin WordChars
    PROVE  RunOf(q) = <<>>
<1>1. Break(q, Len(q))
  BY EmptySeq DEF Break
<1>2. RunOf(q) = SubSeq(q, Len(q) + 1, Len(q))
  BY <1>1, RunFromBreak
<1> QED BY <1>2, SubSeqEmpty

\* The same after one more character.
LEMMA RunEndsBehind ==
    ASSUME NEW q \in Seq(Signs), NEW c \in Signs \ WordChars
    PROVE  /\ RunOf(Append(q, c)) = <<>> /\ RunOf(q \o <<c>>) = <<>>
<1>1. Append(q, c) = q \o <<c>> /\ Append(q, c) \in Seq(Signs)
      /\ Append(q, c)[Len(Append(q, c))] = c
  BY AppendProperties, AppendIsConcat
<1> QED BY <1>1, RunEnds

\* What is left when the end of a text is taken from its run, and then from
\* before it.
LEMMA RunShrinks ==
    ASSUME NEW q \in Seq(Signs), NEW n \in 0..Len(RunOf(q))
    PROVE  RunOf(DropLast(q, n)) = DropLast(RunOf(q), n)
<1>1. PICK k : Break(q, k)
  BY HasBreak
<1> DEFINE u == SubSeq(q, k + 1, Len(q))
           d == DropLast(q, n)
           v == SubSeq(d, k + 1, Len(d))
<1>2. k \in 0..Len(q) /\ RunOf(q) = u
  BY <1>1, RunFromBreak DEF Break
<1>3. /\ u \in Seq(Signs) /\ Len(u) = Len(q) - k
      /\ \A i \in 1..(Len(q) - k) : u[i] = q[k + i]
  BY <1>2, Tails
<1>4. n \in 0..Len(q) /\ n <= Len(q) - k /\ n \in Nat
  BY <1>2, <1>3
<1>5. /\ d \in Seq(Signs) /\ Len(d) = Len(q) - n
      /\ \A i \in 1..(Len(q) - n) : d[i] = q[i]
  BY <1>4, Fronts
<1> HIDE DEF d, u
<1>12. n \in 0..Len(u) /\ Len(u) - n = Len(d) - k
  BY <1>2, <1>3, <1>4, <1>5
<1>6. Break(d, k)
  BY <1>1, <1>2, <1>4, <1>5 DEF Break
<1>7. RunOf(d) = v
  BY <1>5, <1>6, RunFromBreak
<1>8. /\ v \in Seq(Signs) /\ Len(v) = Len(d) - k
      /\ \A i \in 1..(Len(d) - k) : v[i] = d[k + i]
  BY <1>2, <1>4, <1>5, Tails
<1> DEFINE w == DropLast(u, n)
<1>9. /\ w \in Seq(Signs) /\ Len(w) = Len(u) - n
      /\ \A i \in 1..(Len(u) - n) : w[i] = u[i]
  BY <1>3, <1>12, Fronts
<1> HIDE DEF v, w
<1>10. Len(v) = Len(w) /\ \A i \in 1..Len(v) : v[i] = w[i]
  <2>1. Len(v) = Len(w)
    BY <1>8, <1>9, <1>12
  <2>2. \A i \in 1..Len(v) : k + i \in 1..(Len(q) - n) /\ i \in 1..(Len(q) - k)
    BY <1>2, <1>4, <1>5, <1>8
  <2> QED BY <1>3, <1>5, <1>8, <1>9, <1>12, <2>1, <2>2
<1>11. v = w
  BY <1>8, <1>9, <1>10, SeqEqual
<1> QED BY <1>2, <1>7, <1>11 DEF d, u, w

\* Erasing the run leaves none.
LEMMA RunGone ==
    ASSUME NEW q \in Seq(Signs)
    PROVE  RunOf(DropLast(q, Len(RunOf(q)))) = <<>>
<1>1. RunOf(q) \in Seq(WordChars) /\ Len(RunOf(q)) \in 0..Len(RunOf(q))
  BY RunTyped
<1>2. RunOf(DropLast(q, Len(RunOf(q)))) = DropLast(RunOf(q), Len(RunOf(q)))
  BY <1>1, RunShrinks
<1>3. Len(DropLast(RunOf(q), Len(RunOf(q)))) = 0 /\ DropLast(RunOf(q), Len(RunOf(q))) \in Seq(WordChars)
  BY <1>1, Fronts
<1> QED BY <1>2, <1>3, EmptySeq

\* A run is its own run.
LEMMA RunOfRun ==
    ASSUME NEW p \in Seq(WordChars)
    PROVE  RunOf(p) = p
<1>1. p \in Seq(Signs) /\ Break(p, 0)
  BY TextIsSigns DEF Break
<1>2. RunOf(p) = SubSeq(p, 0 + 1, Len(p))
  BY <1>1, RunFromBreak
<1> QED BY <1>2, SubSeqFull

-----------------------------------------------------------------------------
(* What the user sees of a text.                                           *)

SeenOf(q) == [i \in DOMAIN q |-> IF q[i] \in {"own", "nl"} THEN "sp" ELSE q[i]]

\* A seen text has the length of the text on screen, and no sign but a character.
LEMMA SeenTyped ==
    ASSUME NEW q \in Seq(Signs)
    PROVE  /\ SeenOf(q) \in Text /\ SeenOf(q) \in Seq(Signs) /\ Len(SeenOf(q)) = Len(q)
           /\ \A i \in 1..Len(q) : SeenOf(q)[i] = IF q[i] \in {"own", "nl"} THEN "sp" ELSE q[i]
<1>1. \A i \in 1..Len(q) : q[i] \in Signs
  OBVIOUS
<1>4. DOMAIN q = 1..Len(q) /\ "sp" \in Chars
  BY DEF Chars
<1>2. SeenOf(q) \in [1..Len(q) -> Chars]
  BY <1>1, <1>4 DEF SeenOf, Signs
<1>3. SeenOf(q) \in Seq(Chars) /\ Len(SeenOf(q)) = Len(q)
  BY <1>2
<1>5. \A i \in 1..Len(q) : SeenOf(q)[i] = IF q[i] \in {"own", "nl"} THEN "sp" ELSE q[i]
  BY <1>4 DEF SeenOf
<1>6. SeenOf(q) \in Text /\ SeenOf(q) \in Seq(Signs)
  BY <1>3, TextIsSigns DEF Text
<1> QED BY <1>3, <1>5, <1>6

\* The model's Shown, of the screen.
LEMMA ShownIsSeen == Shown = SeenOf(screen)
BY DEF Shown, SeenOf

\* It ends in the same run.
LEMMA SeenRun ==
    ASSUME NEW q \in Seq(Signs)
    PROVE  RunOf(SeenOf(q)) = RunOf(q)
<1>1. PICK k : Break(q, k)
  BY HasBreak
<1> DEFINE s == SeenOf(q)
           u == SubSeq(q, k + 1, Len(q))
           v == SubSeq(s, k + 1, Len(s))
<1>2. /\ s \in Seq(Signs) /\ Len(s) = Len(q)
      /\ \A i \in 1..Len(q) : s[i] = IF q[i] \in {"own", "nl"} THEN "sp" ELSE q[i]
  BY SeenTyped
<1> HIDE DEF s
<1>3. "sp" \notin WordChars /\ "own" \notin WordChars /\ "nl" \notin WordChars
  BY DEF WordChars, Letters
<1>10. k \in 0..Len(q) /\ \A i \in (k + 1)..Len(q) : i \in 1..Len(q) /\ q[i] \in WordChars
  BY <1>1 DEF Break
<1>4. \A i \in (k + 1)..Len(q) : s[i] = q[i]
  BY <1>2, <1>3, <1>10
<1>5. Break(s, k)
  <2>1. k = 0 \/ s[k] \notin WordChars
    <3> SUFFICES ASSUME k # 0 PROVE s[k] \notin WordChars
      OBVIOUS
    <3>1. q[k] \notin WordChars /\ k \in 1..Len(q)
      BY <1>1, <1>10 DEF Break
    <3>2. s[k] = "sp" \/ s[k] = q[k]
      BY <1>2, <3>1
    <3> QED BY <1>3, <3>1, <3>2
  <2> QED BY <1>2, <1>4, <1>10, <2>1 DEF Break
<1>6. RunOf(q) = u /\ RunOf(s) = v
  BY <1>1, <1>2, <1>5, RunFromBreak
<1>7. /\ u \in Seq(Signs) /\ Len(u) = Len(q) - k
      /\ \A i \in 1..(Len(q) - k) : u[i] = q[k + i]
  BY <1>10, Tails
<1>11. s \in Seq(Signs) /\ k \in 0..Len(s) /\ Len(s) - k = Len(q) - k
  BY <1>2, <1>10
<1>12. /\ v \in Seq(Signs) /\ Len(v) = Len(s) - k
       /\ \A i \in 1..(Len(s) - k) : v[i] = s[k + i]
  BY <1>11, Tails
<1> HIDE DEF u, v
<1>8. /\ v \in Seq(Signs) /\ Len(v) = Len(q) - k
      /\ \A i \in 1..(Len(q) - k) : v[i] = s[k + i]
  BY <1>11, <1>12
<1>13. Len(u) = Len(v)
  BY <1>7, <1>8
<1>9. \A i \in 1..Len(u) : u[i] = v[i]
  <2> TAKE i \in 1..Len(u)
  <2>1. k + i \in (k + 1)..Len(q) /\ i \in 1..(Len(q) - k)
    BY <1>7, <1>10
  <2> QED BY <1>4, <1>7, <1>8, <2>1
<1>14. u = v
  BY <1>7, <1>8, <1>9, <1>13, SeqEqual
<1> QED BY <1>6, <1>14 DEF s

-----------------------------------------------------------------------------
(* Types.                                                                  *)

\* What is left of a text, however much is taken away.
LEMMA DropTyped ==
    ASSUME NEW S, NEW q \in Seq(S), NEW n \in Nat
    PROVE  /\ DropLast(q, n) \in Seq(S) /\ Len(DropLast(q, n)) <= Len(q)
           /\ Len(DropLast(q, n)) = IF n <= Len(q) THEN Len(q) - n ELSE 0
<1>1. \A i \in 1..(Len(q) - n) : q[i] \in S
  OBVIOUS
<1>2. Len(q) - n \in Int /\ Len(q) \in Nat
  OBVIOUS
<1>3. /\ DropLast(q, n) \in Seq(S)
      /\ Len(DropLast(q, n)) = IF 1 <= Len(q) - n THEN (Len(q) - n) - 1 + 1 ELSE 0
  BY <1>1, <1>2, SubSeqProperties DEF DropLast
<1> QED BY <1>2, <1>3

\* A cut buffer, and one that needs no cut.
LEMMA CappedTyped ==
    ASSUME NEW S, NEW q \in Seq(S), NEW n \in Nat
    PROVE  /\ Capped(q, n) \in Seq(S) /\ Len(Capped(q, n)) <= n
           /\ Len(Capped(q, n)) = IF Len(q) > n THEN n ELSE Len(q)
           /\ Len(q) <= n => Capped(q, n) = q
<1>1. CASE Len(q) > n
  <2>1. Len(q) - n \in 0..Len(q) /\ Len(q) - (Len(q) - n) = n
    BY <1>1
  <2>2. SubSeq(q, Len(q) - n + 1, Len(q)) \in Seq(S)
        /\ Len(SubSeq(q, Len(q) - n + 1, Len(q))) = Len(q) - (Len(q) - n)
    BY <2>1, Tails
  <2> QED BY <1>1, <2>1, <2>2 DEF Capped
<1>2. CASE ~(Len(q) > n)
  BY <1>2 DEF Capped
<1> QED BY <1>1, <1>2

\* Both halves of a cut text.
LEMMA CutTyped ==
    ASSUME NEW S, NEW q \in Seq(S), NEW k \in 0..Len(q)
    PROVE  /\ SubSeq(q, 1, k) \in Seq(S) /\ Len(SubSeq(q, 1, k)) = k
           /\ SubSeq(q, k + 1, Len(q)) \in Seq(S)
<1>1. SubSeq(q, 1, k) = DropLast(q, Len(q) - k) /\ Len(q) - k \in 0..Len(q)
      /\ Len(q) - (Len(q) - k) = k
  BY DEF DropLast
<1> QED BY <1>1, Fronts, Tails

\* Where a text is cut at its last character of some kind.
LEMMA LastPlaces ==
    ASSUME NEW S, NEW q \in Seq(S)
    PROVE  SpaceAt(q) \in 0..Len(q) /\ InkAt(q) \in 0..Len(q) /\ At(q) \in 0..Len(q)
<1> Len(q) \in Nat
  OBVIOUS
<1>1. SpaceAt(q) \in 0..Len(q)
  <2> DEFINE I == {i \in 1..Len(q) : q[i] = "sp"}
  <2>1. I # {} => Max(I) \in I
    <3> I \in SUBSET (1..Len(q))
      OBVIOUS
    <3> HIDE DEF I
    <3> QED BY Greatest
  <2> QED BY <2>1 DEF SpaceAt, SelectLastInSeq
<1>2. InkAt(q) \in 0..Len(q)
  <2> DEFINE I == {i \in 1..Len(q) : q[i] \notin {"sp", "own", "nl"}}
  <2>1. I # {} => Max(I) \in I
    <3> I \in SUBSET (1..Len(q))
      OBVIOUS
    <3> HIDE DEF I
    <3> QED BY Greatest
  <2>2. InkAt(q) = IF I # {} THEN Max(I) ELSE 0
    BY Zenon DEF InkAt, SelectLastInSeq
  <2>3. I # {} => Max(I) \in 1..Len(q)
    BY <2>1
  <2> HIDE DEF I
  <2>4. I # {} => Max(I) \in 0..Len(q)
    BY <2>3
  <2> QED BY <2>2, <2>4
<1>3. At(q) \in 0..Len(q)
  <2> DEFINE I == {i \in 1..Len(q) : q[i] = "@"}
  <2>1. I # {} => Max(I) \in I
    <3> I \in SUBSET (1..Len(q))
      OBVIOUS
    <3> HIDE DEF I
    <3> QED BY Greatest
  <2> QED BY <2>1 DEF At, SelectLastInSeq
<1> QED BY <1>1, <1>2, <1>3

\* Kinds of characters.
LEMMA CharsAre == /\ Letters \subseteq WordChars /\ WordChars \subseteq Chars
                  /\ Glyphs \subseteq Chars /\ Chars \subseteq Signs
                  /\ {"1", ".", ",", "sp"} \subseteq Chars /\ {"own", "nl"} \subseteq Signs
                  /\ WordChars \cap {".", ",", "sp", "own", "nl", "-", "@"} = {}
BY DEF Letters, WordChars, Glyphs, Chars, Signs

\* The texts that are put together of typed ones.
LEMMA JoinsTyped ==
    ASSUME NEW S
    PROVE  /\ <<>> \in Seq(S) /\ Len(<<>>) = 0
           /\ \A q \in Seq(S), c \in S : Append(q, c) \in Seq(S) /\ Len(Append(q, c)) = Len(q) + 1
           /\ \A q, t \in Seq(S) : q \o t \in Seq(S) /\ Len(q \o t) = Len(q) + Len(t)
           /\ \A c \in S : <<c>> \in Seq(S) /\ Len(<<c>>) = 1
           /\ \A c, d \in S : <<c, d>> \in Seq(S) /\ Len(<<c, d>>) = 2
BY EmptySeq, AppendProperties, ConcatProperties

\* A run is a text.
LEMMA RunTextTyped ==
    ASSUME NEW q \in Seq(Signs)
    PROVE  RunOf(q) \in Text /\ Len(RunOf(q)) \in Nat
BY RunTyped, TextIsSigns

\* Ctrl+BackSpace leaves a text that ends in no word.
LEMMA KilledTyped ==
    ASSUME NEW q \in Seq(Signs)
    PROVE  /\ WordKilled(q) \in Seq(Signs) /\ Len(WordKilled(q)) <= Len(q)
           /\ RunOf(WordKilled(q)) = <<>>
<1> DEFINE k == InkAt(q)
           bare == SubSeq(q, 1, k)
<1>1. k \in 0..Len(q)
  BY LastPlaces
<1>0. WordKilled(q) = DropLast(bare, Len(RunOf(bare)))
  BY DEF WordKilled
<1> HIDE DEF k
<1>2. bare \in Seq(Signs) /\ Len(bare) = k
  BY <1>1, CutTyped
<1> HIDE DEF bare
<1>3. Len(RunOf(bare)) \in Nat
  BY <1>2, RunTextTyped
<1>4. DropLast(bare, Len(RunOf(bare))) \in Seq(Signs) /\ Len(DropLast(bare, Len(RunOf(bare)))) <= Len(bare)
  BY <1>2, <1>3, DropTyped
<1>5. RunOf(DropLast(bare, Len(RunOf(bare)))) = <<>>
  BY <1>2, RunGone
<1>6. Len(DropLast(bare, Len(RunOf(bare)))) \in Nat /\ Len(q) \in Nat
  BY <1>4
<1> QED BY <1>0, <1>1, <1>2, <1>4, <1>5, <1>6

-----------------------------------------------------------------------------
(* The types of the mirror and of what it mirrors.                         *)

\* The space owed for a mark is owed to a buffer that has been cut.
TypingTyped ==
    /\ TypingTypeOK
    /\ deferred # "none" => Len(ctx) <= profile.cap

\* The bounds of the user.
LEMMA WhoTyped ==
    ASSUME profile \in Profiles
    PROVE  /\ profile.cap \in Nat /\ profile.pillCap \in Nat /\ profile.room \in Nat
           /\ profile.pillCap <= profile.cap
BY TypingConstants

\* The words and phrases of the constants.
LEMMA ConstantsTyped ==
    /\ PillWords \subseteq Seq(Letters) /\ Corrections \subseteq Seq(Letters)
    /\ PillWords \subseteq Seq(WordChars) /\ Corrections \subseteq Seq(WordChars)
    /\ PillWords \subseteq Text /\ Corrections \subseteq Text
    /\ SpokenText \in Text /\ SnippetText \in Text /\ Text \subseteq Seq(Signs)
BY TypingConstants, TextIsSigns

\* Signs and characters one may write down.
LEMMA Written ==
    /\ Letters \subseteq Chars /\ Chars \subseteq Signs /\ Glyphs \subseteq Chars
    /\ \A c \in {"a", "b", "1", ".", ",", "sp", "-", "@"} : c \in Chars /\ c \in Signs
    /\ "own" \in Signs /\ "nl" \in Signs
BY DEF Letters, WordChars, Glyphs, Chars, Signs

\* The pieces every action joins.
LEMMA PartsTyped ==
    ASSUME TypingTyped
    PROVE  /\ screen \in Seq(Signs) /\ word \in Seq(Signs) /\ ctx \in Seq(Signs) /\ raw \in Seq(Signs)
           /\ word \in Text /\ ctx \in Text /\ raw \in Text
           /\ OwedSpace \in Seq(Signs) /\ Len(OwedSpace) <= 1
           /\ OwedInContext \in Text /\ Len(OwedInContext) <= profile.cap + 1
           /\ Kept(screen) \in Seq(Signs) /\ Kept(ctx) \in Text
           /\ Len(Kept(screen)) <= Len(screen) /\ Len(Kept(ctx)) <= Len(ctx)
<1>1. /\ screen \in Seq(Signs) /\ word \in Text /\ ctx \in Text /\ raw \in Text
      /\ profile \in Profiles /\ Len(ctx) <= profile.cap + 1
  BY DEF TypingTyped, TypingTypeOK
<1>2. word \in Seq(Signs) /\ ctx \in Seq(Signs) /\ raw \in Seq(Signs)
  BY <1>1, TextIsSigns
<1>3. OwedSpace \in Seq(Signs) /\ Len(OwedSpace) <= 1
  <2>1. <<"own">> \in Seq(Signs) /\ Len(<<"own">>) = 1 /\ <<>> \in Seq(Signs) /\ Len(<<>>) = 0
    BY Written, JoinsTyped
  <2>2. OwedSpace = <<>> \/ OwedSpace = <<"own">>
    BY DEF OwedSpace
  <2>3. OwedSpace \in Seq(Signs) /\ (Len(OwedSpace) = 0 \/ Len(OwedSpace) = 1)
    BY <2>1, <2>2, Zenon
  <2>4. \A n : n = 0 \/ n = 1 => n <= 1
    OBVIOUS
  <2> QED BY <2>3, <2>4, Zenon
<1>4. OwedInContext \in Text /\ Len(OwedInContext) <= profile.cap + 1
  <2>1. Append(ctx, "sp") \in Text /\ Len(Append(ctx, "sp")) = Len(ctx) + 1
    <3>1. "sp" \in Chars
      BY Written
    <3>2. ctx \in Seq(Chars)
      BY <1>1 DEF Text
    <3> QED BY <3>1, <3>2, JoinsTyped DEF Text
  <2>2. Len(ctx) \in Nat
    BY <1>1 DEF Text
  <2>3. profile.cap \in Nat
    BY <1>1, WhoTyped
  <2>4. OwedInContext = ctx \/ (OwedInContext = Append(ctx, "sp") /\ Len(ctx) <= profile.cap)
    <3>1. CASE deferred = "none"
      BY <3>1 DEF OwedInContext
    <3>2. CASE deferred # "none"
      <4>1. Len(ctx) <= profile.cap
        BY <3>2 DEF TypingTyped
      <4> QED BY <3>2, <4>1 DEF OwedInContext
    <3> QED BY <3>1, <3>2
  <2>6. /\ OwedInContext \in Text
        /\ \/ Len(OwedInContext) = Len(ctx)
           \/ Len(OwedInContext) = Len(ctx) + 1 /\ Len(ctx) <= profile.cap
    BY <1>1, <2>1, <2>4, Zenon
  <2> QED BY <1>1, <2>2, <2>3, <2>6
<1>5. Kept(screen) \in Seq(Signs) /\ Len(Kept(screen)) <= Len(screen)
  <2>1. DropLast(screen, 1) \in Seq(Signs) /\ Len(DropLast(screen, 1)) <= Len(screen)
    BY <1>1, DropTyped
  <2>2. Len(screen) \in Nat
    BY <1>1
  <2> QED BY <1>1, <2>1, <2>2 DEF Kept
<1>6. Kept(ctx) \in Text /\ Len(Kept(ctx)) <= Len(ctx)
  <2>1. DropLast(ctx, 1) \in Text /\ Len(DropLast(ctx, 1)) <= Len(ctx)
    BY <1>1, DropTyped DEF Text
  <2>2. Len(ctx) \in Nat
    BY <1>1 DEF Text
  <2> QED BY <1>1, <2>1, <2>2 DEF Kept
<1> QED BY <1>1, <1>2, <1>3, <1>4, <1>5, <1>6

\* Learning clears the flag.
LEMMA LearningTyped ==
    ASSUME TypingTyped, LearnUnlessLost
    PROVE  lost' = FALSE /\ taught' \in {"nothing", "whole", "tail"}
BY DEF LearnUnlessLost, LearnAnyway, TypingTyped, TypingTypeOK

\* Full stops and commas keep the types.
LEMMA MarkTyped ==
    ASSUME TypingTyped, EndSentence \/ Comma
    PROVE  TypingTyped'
<1> DEFINE m == IF EndSentence THEN "." ELSE ","
           cut == profile.cap
<1>0. profile' = profile /\ profile \in Profiles /\ cut \in Nat /\ word' = <<>>
      /\ word \in Text /\ raw \in Text /\ lost' = FALSE /\ taught' \in {"nothing", "whole", "tail"}
  BY WhoTyped, PartsTyped, LearningTyped DEF TypingTyped, TypingTypeOK, EndSentence, Comma
<1> DEFINE front == IF EndSentence THEN Kept(ctx) ELSE Kept(ctx) \o word
<1>1. front \in Text /\ Kept(screen) \in Seq(Signs)
  BY PartsTyped, JoinsTyped DEF Text
<1>2. m \in {".", ","} /\ m \in Chars /\ m \in Signs
  BY Written
<1>3. \/ /\ screen' = Append(Kept(screen), m)
         /\ ctx' = Capped(Append(front, m), cut) \/ ctx' = Capped(front \o <<m>>, cut)
         /\ raw' = Append(raw, m) /\ auto' = FALSE /\ deferred' \in {"none", m}
      \/ /\ screen' = Kept(screen) \o <<m, "own">>
         /\ ctx' = Capped(front \o <<m, "sp">>, cut)
         /\ raw' = <<>> /\ auto' = TRUE /\ deferred' = "none"
  BY DEF EndSentence, Comma
<1> HIDE DEF m, front, cut
<1>4. /\ Append(Kept(screen), m) \in Seq(Signs) /\ Kept(screen) \o <<m, "own">> \in Seq(Signs)
      /\ Append(raw, m) \in Text /\ <<>> \in Text
  BY <1>0, <1>1, <1>2, Written, JoinsTyped DEF Text
<1>5. Append(front, m) \in Text /\ front \o <<m>> \in Text /\ front \o <<m, "sp">> \in Text
  BY <1>1, <1>2, Written, JoinsTyped DEF Text
<1>6. \A q \in Text : Capped(q, cut) \in Text /\ Len(Capped(q, cut)) <= cut
  BY <1>0, CappedTyped DEF Text
<1>7. ctx' \in Text /\ Len(ctx') <= cut
  BY <1>3, <1>5, <1>6
<1>8. screen' \in Seq(Signs) /\ raw' \in Text /\ word' \in Text
  BY <1>0, <1>3, <1>4
<1>9. auto' \in BOOLEAN /\ deferred' \in {"none", ".", ","} /\ ~(auto' /\ deferred' # "none")
  BY <1>2, <1>3
<1>10. Len(ctx') <= profile'.cap /\ Len(ctx') <= profile'.cap + 1
  BY <1>0, <1>7 DEF cut, Text
<1> QED BY <1>0, <1>7, <1>8, <1>9, <1>10 DEF TypingTyped, TypingTypeOK

\* The rest of the keys that are typed.
LEMMA KeysTyped ==
    ASSUME TypingTyped,
           (\E c \in Letters : Letter(c)) \/ Digit \/ (\E g \in Glyphs : Glyph(g)) \/ ChordDot
           \/ Space \/ Return \/ Backspace
    PROVE  TypingTyped'
<1> DEFINE Well == /\ profile' = profile /\ screen' \in Seq(Signs)
                   /\ word' \in Text /\ ctx' \in Text /\ raw' \in Text
                   /\ auto' = FALSE /\ deferred' = "none" /\ lost' \in BOOLEAN
                   /\ taught' \in {"nothing", "whole", "tail"}
                   /\ Len(ctx') <= profile.cap + 1
<1>a. SUFFICES Well
  <2> HIDE DEF Well
  <2> USE DEF Well
  <2> QED BY DEF TypingTyped, TypingTypeOK
<1>b. /\ profile.cap \in Nat /\ lost \in BOOLEAN /\ taught \in {"nothing", "whole", "tail"}
      /\ Len(ctx) \in Nat /\ Len(ctx) <= profile.cap + 1 /\ <<>> \in Text
  <2>1. profile.cap \in Nat
    BY WhoTyped DEF TypingTyped, TypingTypeOK
  <2>2. Len(ctx) \in Nat /\ <<>> \in Text
    BY PartsTyped, JoinsTyped DEF Text
  <2>3. Len(ctx) <= profile.cap + 1 /\ lost \in BOOLEAN /\ taught \in {"nothing", "whole", "tail"}
    BY DEF TypingTyped, TypingTypeOK
  <2> QED BY <2>1, <2>2, <2>3
<1>c. \A q \in Text : Capped(q, profile.cap) \in Text /\ Len(Capped(q, profile.cap)) <= profile.cap + 1
  <2> TAKE q \in Text
  <2>1. Capped(q, profile.cap) \in Text /\ Len(Capped(q, profile.cap)) <= profile.cap
        /\ Len(Capped(q, profile.cap)) \in Nat
    BY <1>b, CappedTyped DEF Text
  <2> QED BY <1>b, <2>1
<1>1. ASSUME NEW c \in Letters, Letter(c) PROVE Well
  <2>1. c \in Chars /\ c \in Signs
    BY Written
  <2>2. screen \o OwedSpace \o <<c>> \in Seq(Signs)
    BY <2>1, PartsTyped, JoinsTyped
  <2>3. Append(word, c) \in Text /\ Append(raw, c) \in Text /\ <<c>> \in Text
    BY <2>1, PartsTyped, JoinsTyped DEF Text
  <2> QED BY <1>1, <1>b, <2>2, <2>3, PartsTyped DEF Letter
<1>2. CASE Digit
  <2>1. Append(screen, "1") \in Seq(Signs)
    BY Written, PartsTyped, JoinsTyped
  <2>2. Append(word, "1") \in Text /\ Append(raw, "1") \in Text
    BY Written, PartsTyped, JoinsTyped DEF Text
  <2> QED BY <1>2, <1>b, <2>1, <2>2, PartsTyped DEF Digit
<1>3. ASSUME NEW g \in Glyphs, Glyph(g) PROVE Well
  <2>1. g \in Chars /\ g \in Signs
    BY Written
  <2>2. Append(screen, g) \in Seq(Signs)
    BY <2>1, PartsTyped, JoinsTyped
  <2>3. Append(raw, g) \in Text /\ ctx \o word \o <<g>> \in Text
    BY <2>1, PartsTyped, JoinsTyped DEF Text
  <2> QED BY <1>3, <1>b, <1>c, <2>2, <2>3, LearningTyped DEF Glyph
<1>4. CASE ChordDot
  <2>1. WordKilled(screen) \in Seq(Signs)
    BY PartsTyped, KilledTyped
  <2>2. Kept(ctx) \in Text /\ Len(Kept(ctx)) <= profile.cap + 1
    <3>1. Kept(ctx) \in Text /\ Len(Kept(ctx)) <= Len(ctx)
      BY PartsTyped
    <3>2. Len(Kept(ctx)) \in Nat
      BY <3>1 DEF Text
    <3> QED BY <1>b, <3>1, <3>2
  <2> QED BY <1>4, <1>b, <2>1, <2>2, PartsTyped DEF ChordDot
<1>5. CASE Space
  <2>1. PICK w \in {word} \cup Corrections :
           /\ screen' = IF w = word THEN Append(screen, "sp")
                        ELSE DropLast(screen, Len(word)) \o w \o <<"sp">>
           /\ ctx' = IF w = <<>> THEN ctx ELSE Capped(ctx \o w \o <<"sp">>, profile.cap)
    BY <1>5 DEF Space
  <2>2. w \in Text /\ w \in Seq(Signs) /\ Len(word) \in Nat
    BY ConstantsTyped, PartsTyped
  <2>3. DropLast(screen, Len(word)) \in Seq(Signs)
    BY <2>2, PartsTyped, DropTyped
  <2>4. Append(screen, "sp") \in Seq(Signs) /\ DropLast(screen, Len(word)) \o w \o <<"sp">> \in Seq(Signs)
    BY <2>2, <2>3, Written, PartsTyped, JoinsTyped
  <2>5. ctx \o w \o <<"sp">> \in Text
    BY <2>2, Written, PartsTyped, JoinsTyped DEF Text
  <2>6. screen' \in Seq(Signs)
    BY <2>1, <2>4
  <2>7. ctx' \in Text /\ Len(ctx') <= profile.cap + 1
    BY <1>b, <1>c, <2>1, <2>5, PartsTyped
  <2> QED BY <1>5, <1>b, <2>6, <2>7, LearningTyped DEF Space
<1>6. CASE Return
  <2>1. Append(screen, "nl") \in Seq(Signs)
    BY Written, PartsTyped, JoinsTyped
  <2>2. ctx \o word \o <<"sp">> \in Text
    BY Written, PartsTyped, JoinsTyped DEF Text
  <2> QED BY <1>6, <1>b, <1>c, <2>1, <2>2, PartsTyped, LearningTyped DEF Return
<1>7. CASE Backspace
  <2>1. DropLast(screen, 1) \in Seq(Signs)
    BY PartsTyped, DropTyped
  <2>2. DropLast(raw, 1) \in Text /\ DropLast(word, 1) \in Text
    BY PartsTyped, DropTyped DEF Text
  <2> DEFINE c == DropLast(ctx, 1)
  <2>3. c \in Text /\ Len(c) <= Len(ctx) /\ SpaceAt(c) \in 0..Len(c)
    BY PartsTyped, DropTyped, LastPlaces DEF Text
  <2> HIDE DEF c
  <2>4. SubSeq(c, 1, SpaceAt(c)) \in Text /\ Len(SubSeq(c, 1, SpaceAt(c))) = SpaceAt(c)
        /\ SubSeq(c, SpaceAt(c) + 1, Len(c)) \in Text
    BY <2>3, CutTyped DEF Text
  <2>5. SpaceAt(c) <= profile.cap + 1
    BY <1>b, <2>3 DEF Text
  <2>6. /\ word' \in Text /\ ctx' \in Text /\ Len(ctx') <= profile.cap + 1
    BY <1>7, <1>b, <2>2, <2>4, <2>5, PartsTyped DEF Backspace, Rehydrate, c
  <2> QED BY <1>7, <1>b, <2>1, <2>2, <2>6 DEF Backspace
<1> HIDE DEF Well
<1> QED BY <1>1, <1>2, <1>3, <1>4, <1>5, <1>6, <1>7

\* Resets keep the types.
LEMMA ResetsTyped ==
    ASSUME TypingTyped, OutsideClick \/ CaretLeaves
    PROVE  TypingTyped'
<1>1. /\ profile' = profile /\ word' = <<>> /\ ctx' = <<>> /\ raw' = <<>> /\ deferred' = "none"
      /\ lost' \in BOOLEAN /\ taught' = taught
      /\ auto' = auto \/ auto' = FALSE
      /\ screen' = screen \/ screen' = <<>>
  BY DEF OutsideClick, CaretLeaves, ResetContext, MarkLost
<1>2. <<>> \in Text /\ <<>> \in Seq(Signs) /\ Len(<<>>) = 0
  BY JoinsTyped DEF Text
<1>3. profile.cap \in Nat
  BY WhoTyped DEF TypingTyped, TypingTypeOK
<1>4. Len(ctx') <= profile.cap + 1
  BY <1>1, <1>2, <1>3
<1> QED BY <1>1, <1>2, <1>4 DEF TypingTyped, TypingTypeOK

\* What a pill makes of the screen.
LEMMA PillTyped ==
    ASSUME TypingTyped, NEW p \in PillWords
    PROVE  PillText(p) \subseteq Seq(Signs)
<1>1. p \in Seq(Signs) /\ Len(word) \in Nat
  BY ConstantsTyped, PartsTyped
<1>2. DropLast(screen, Len(word)) \in Seq(Signs)
  BY <1>1, PartsTyped, DropTyped
<1>3. DropLast(screen, Len(word)) \o OwedSpace \o p \in Seq(Signs)
  BY <1>1, <1>2, PartsTyped, JoinsTyped
<1>4. \A i \in (Len(word) + 1)..Len(p) : p[i] \in Signs
  BY <1>1
<1>5. SubSeq(p, Len(word) + 1, Len(p)) \in Seq(Signs)
  <2>1. Len(word) + 1 \in Int /\ Len(p) \in Int
    BY <1>1
  <2> QED BY <1>4, <2>1, SubSeqProperties
<1>6. screen \o OwedSpace \o SubSeq(p, Len(word) + 1, Len(p)) \in Seq(Signs)
  BY <1>5, PartsTyped, JoinsTyped
<1> QED BY <1>3, <1>6 DEF PillText

\* Pills, edits and inserts keep the types.
LEMMA InsertsTyped ==
    ASSUME TypingTyped,
           (\E p \in PillWords : Pill(p) \/ EditPrediction(p)) \/ InsertSnippet \/ InsertSpoken
    PROVE  TypingTyped'
<1>b. profile.cap \in Nat /\ profile.pillCap \in Nat /\ profile.pillCap <= profile.cap
  BY WhoTyped DEF TypingTyped, TypingTypeOK
<1>f. /\ taught \in {"nothing", "whole", "tail"} /\ profile \in Profiles
      /\ auto \in BOOLEAN /\ deferred \in {"none", ".", ","} /\ ~(auto /\ deferred # "none")
  BY DEF TypingTyped, TypingTypeOK
<1>c. \A q \in Text : /\ Capped(q, profile.cap) \in Text /\ Len(Capped(q, profile.cap)) <= profile.cap
                      /\ Capped(q, profile.pillCap) \in Text /\ Len(Capped(q, profile.pillCap)) <= profile.cap
  <2> TAKE q \in Text
  <2>1. /\ Capped(q, profile.cap) \in Text /\ Len(Capped(q, profile.cap)) <= profile.cap
        /\ Capped(q, profile.pillCap) \in Text /\ Len(Capped(q, profile.pillCap)) <= profile.pillCap
        /\ Len(Capped(q, profile.pillCap)) \in Nat
    BY <1>b, CappedTyped DEF Text
  <2> QED BY <1>b, <2>1
<1> DEFINE Same == /\ profile' = profile /\ screen' \in Seq(Signs)
                   /\ word' = <<>> /\ ctx' \in Text /\ raw' = <<>>
                   /\ auto' \in BOOLEAN /\ deferred' \in {"none", ".", ","} /\ lost' = FALSE
                   /\ ~(auto' /\ deferred' # "none")
                   /\ taught' = taught
                   /\ Len(ctx') <= profile.cap + 1
                   /\ (deferred' # "none" => Len(ctx') <= profile.cap)
<1>d. \A q \in Text : Len(q) <= profile.cap => Len(q) <= profile.cap + 1
  <2> TAKE q \in Text
  <2>1. Len(q) \in Nat
    BY DEF Text
  <2> QED BY <1>b, <2>1
<1>e. <<>> \in Text
  BY JoinsTyped DEF Text
<1>a. SUFFICES Same
  BY <1>f, <1>e DEF TypingTyped, TypingTypeOK
<1>1. ASSUME NEW p \in PillWords, Pill(p) PROVE Same
  <2>1. PICK text \in PillText(p) : screen' = Append(text, "own")
    BY <1>1 DEF Pill
  <2>2. text \in Seq(Signs)
    BY PillTyped
  <2>3. screen' \in Seq(Signs)
    BY <2>1, <2>2, Written, JoinsTyped
  <2>4. OwedInContext \o p \o <<"sp">> \in Text
    BY ConstantsTyped, Written, PartsTyped, JoinsTyped DEF Text
  <2>5. ctx' \in Text /\ Len(ctx') <= profile.cap
    BY <1>1, <1>c, <2>4 DEF Pill
  <2> QED BY <1>1, <1>d, <2>3, <2>5 DEF Pill
<1>2. ASSUME NEW p \in PillWords, EditPrediction(p) PROVE Same
  <2>1. p \in Seq(Signs) /\ Len(word) \in Nat
    BY ConstantsTyped, PartsTyped
  <2>2. DropLast(screen, Len(word)) \in Seq(Signs)
    BY <2>1, PartsTyped, DropTyped
  <2>3. DropLast(screen, Len(word)) \o p \o <<"own">> \in Seq(Signs)
    BY <2>1, <2>2, Written, JoinsTyped
  <2>4. ctx \o p \o <<"sp">> \in Text
    BY ConstantsTyped, Written, PartsTyped, JoinsTyped DEF Text
  <2>5. ctx' \in Text /\ Len(ctx') <= profile.cap
    BY <1>2, <1>c, <2>4 DEF EditPrediction
  <2> QED BY <1>2, <1>f, <1>d, <2>3, <2>5 DEF EditPrediction
<1>3. CASE InsertSnippet
  <2>1. SnippetText \in Seq(Signs)
    BY ConstantsTyped
  <2>2. screen \o OwedSpace \o SnippetText \in Seq(Signs)
    BY <2>1, PartsTyped, JoinsTyped
  <2> QED BY <1>3, <2>2, PartsTyped DEF InsertSnippet
<1>4. CASE InsertSpoken
  <2> DEFINE mirror == OwedInContext \o word
             lead == IF mirror = <<>> \/ EndsInSpace(mirror) THEN <<>> ELSE <<"sp">>
  <2>1. lead \in Text /\ lead \in Seq(Signs)
    <3>1. <<>> \in Text /\ <<"sp">> \in Text /\ <<>> \in Seq(Signs) /\ <<"sp">> \in Seq(Signs)
      BY Written, JoinsTyped DEF Text
    <3> QED BY <3>1
  <2>0. /\ screen' = screen \o OwedSpace \o (lead \o SpokenText)
        /\ ctx' = Capped(OwedInContext \o (lead \o SpokenText), profile.cap)
    BY <1>4 DEF InsertSpoken
  <2> HIDE DEF mirror, lead
  <2>2. lead \o SpokenText \in Text /\ lead \o SpokenText \in Seq(Signs)
    BY <2>1, ConstantsTyped, JoinsTyped DEF Text
  <2>3. screen' \in Seq(Signs)
    BY <2>0, <2>2, PartsTyped, JoinsTyped
  <2>4. OwedInContext \o (lead \o SpokenText) \in Text
    BY <2>2, PartsTyped, JoinsTyped DEF Text
  <2>5. ctx' \in Text /\ Len(ctx') <= profile.cap
    BY <1>c, <2>0, <2>4
  <2> QED BY <1>4, <1>d, <2>3, <2>5 DEF InsertSpoken
<1> HIDE DEF Same
<1> QED BY <1>1, <1>2, <1>3, <1>4

\* Every action of the mirror keeps its types.
LEMMA TypingStepTyped ==
    ASSUME TypingTyped, TypingNext
    PROVE  TypingTyped'
<1>1. \/ EndSentence \/ Comma
      \/ (\E c \in Letters : Letter(c)) \/ Digit \/ (\E g \in Glyphs : Glyph(g)) \/ ChordDot
      \/ Space \/ Return \/ Backspace
      \/ OutsideClick \/ CaretLeaves
      \/ (\E p \in PillWords : Pill(p) \/ EditPrediction(p)) \/ InsertSnippet \/ InsertSpoken
  BY DEF TypingNext, Mark
<1> QED BY <1>1, MarkTyped, KeysTyped, ResetsTyped, InsertsTyped

-----------------------------------------------------------------------------
(* The types of the bar.                                                   *)

\* What follows the "@" of a token, and what is typed of it, are texts.
LEMMA DomainTyped ==
    ASSUME NEW t \in Text
    PROVE  DomainOf(t) \in Text /\ TypedOf(t) \in Text
<1>1. At(t) \in 0..Len(t)
  BY LastPlaces DEF Text
<1>2. SubSeq(t, At(t) + 1, Len(t)) \in Text
  BY <1>1, CutTyped DEF Text
<1> QED BY <1>2 DEF DomainOf, TypedOf

\* So is every token offered.
LEMMA PillsTyped ==
    ASSUME NEW r, NEW seen
    PROVE  PillsFor(r, seen) \subseteq Text
<1>1. Tokens \subseteq Text /\ Domains \subseteq Text
  BY BarConstants
<1>2. KnownDomains(seen) \subseteq Text
  BY <1>1, DomainTyped DEF KnownDomains
<1> QED BY <1>1, <1>2 DEF PillsFor

\* What is on the bar and what it was offered for.
BarShape ==
    /\ bar.kind \in {"none", "words", "tokens"} /\ bar.pills \subseteq Text
    /\ tokenPills \subseteq Text /\ typedRun \in Text

\* Filling or blanking the bar keeps its types.
LEMMA RefreshTyped ==
    ASSUME raw' \in Text, RefreshBar \/ ShowWords \/ BlankBar \/ AfterMark
    PROVE  BarShape'
<1>0. <<>> \in Text
  BY JoinsTyped DEF Text
<1>1. CASE ShowWords
  BY <1>0, <1>1 DEF ShowWords, NoTokenPills, BarShape
<1>2. CASE BlankBar
  BY <1>0, <1>2 DEF BlankBar, NoBar, NoTokenPills, BarShape
<1>3. CASE ShowTokens
  <2>1. tokenPills' \subseteq Text /\ typedRun' \in Text
    BY <1>3, PillsTyped, DomainTyped DEF ShowTokens
  <2>2. bar' = NoBar \/ bar' = [kind |-> "tokens", text |-> <<>>, pills |-> tokenPills']
    BY <1>3 DEF ShowTokens
  <2> QED BY <2>1, <2>2 DEF NoBar, BarShape
<1> QED BY <1>1, <1>2, <1>3 DEF RefreshBar, AfterMark

\* Hiding it does.
LEMMA HideTyped ==
    ASSUME BarShape, HideBar
    PROVE  BarShape'
BY DEF BarShape, HideBar, NoBar

\* What the token store and the note on the last run may hold.
StoreShape == noted \in Text /\ sightings \in [Tokens -> 0..MaxSightings]

\* Counting a run, or noting nothing, keeps the store's types.
LEMMA StoreTyped ==
    ASSUME StoreShape, NEW r \in Text, NEW before \in Text,
           \/ LearnRun(r, before)
           \/ NoteNothing
           \/ sightings' = Sighted(r, before) /\ noted' = <<>>
    PROVE  StoreShape'
<1>1. noted' \in Text
  BY JoinsTyped DEF LearnRun, NoteNothing, Text
<1>2. ASSUME NEW t \in Tokens, sightings' = Counted(t)
      PROVE  sightings' \in [Tokens -> 0..MaxSightings]
  <2>1. sightings[t] \in 0..MaxSightings /\ MaxSightings \in Nat
    BY BarConstants DEF StoreShape
  <2>2. (IF sightings[t] < MaxSightings THEN sightings[t] + 1 ELSE sightings[t]) \in 0..MaxSightings
    BY <2>1
  <2> QED BY <1>2, <2>2 DEF Counted, StoreShape
<1>3. sightings' \in [Tokens -> 0..MaxSightings]
  <2>1. CASE sightings' = sightings
    BY <2>1 DEF StoreShape
  <2>2. CASE Stripped(r) \in Tokens /\ sightings' = Counted(Stripped(r))
    BY <1>2, <2>2
  <2> QED BY <2>1, <2>2 DEF LearnRun, NoteNothing, Sighted
<1> QED BY <1>1, <1>3 DEF StoreShape

BarTyped == TypingTyped /\ BarShape /\ StoreShape

\* A slice counted from either end is a text.
LEMMA ChoppedTyped ==
    ASSUME NEW S, NEW q \in Seq(S), NEW n \in Nat
    PROVE  Chopped(q, n) \in Seq(S)
<1>1. CASE n <= Len(q)
  BY <1>1, DropTyped DEF Chopped
<1>2. CASE ~(n <= Len(q))
  <2>1. \A i \in 1..(2 * Len(q) - n) : q[i] \in S
    BY <1>2
  <2>2. 2 * Len(q) - n \in Int
    OBVIOUS
  <2>3. SubSeq(q, 1, 2 * Len(q) - n) \in Seq(S)
    BY <2>1, <2>2, SubSeqProperties
  <2> QED BY <1>2, <2>3 DEF Chopped
<1> QED BY <1>1, <1>2

\* A tapped token keeps every type.
LEMMA TokenPillTyped ==
    ASSUME BarTyped, NEW p, TokenPill(p)
    PROVE  BarTyped'
<1> DEFINE whole == DropLast(raw, Len(typedRun)) \o p
           trailing == IF whole \in FieldValues THEN <<>> ELSE <<"sp">>
           onScreen == IF trailing = <<>> THEN <<>> ELSE <<"own">>
<1>0. /\ screen' = DropLast(screen, Len(typedRun)) \o p \o onScreen
      /\ ctx' = Completed(p, trailing)
      /\ raw' = (IF trailing = <<>> THEN whole ELSE <<>>)
      /\ word' = <<>> /\ lost' = FALSE /\ profile' = profile /\ taught' = taught
      /\ auto' = (trailing # <<>>) /\ deferred' = "none"
      /\ LearnRun(whole, noted) /\ RefreshBar /\ p \in bar.pills
  BY DEF TokenPill
<1>t. trailing \in Text /\ onScreen \in Seq(Signs)
  <2>1. <<>> \in Text /\ <<"sp">> \in Text /\ <<>> \in Seq(Signs) /\ <<"own">> \in Seq(Signs)
    BY Written, JoinsTyped DEF Text
  <2> QED BY <2>1
<1>p. p \in Text /\ p \in Seq(Signs) /\ typedRun \in Text /\ Len(typedRun) \in Nat /\ noted \in Text
  BY <1>0, TextIsSigns DEF BarTyped, BarShape, StoreShape, Text
<1>w. whole \in Text /\ <<>> \in Text
  <2>1. DropLast(raw, Len(typedRun)) \in Text
    BY <1>p, PartsTyped, DropTyped DEF Text, BarTyped
  <2> QED BY <1>p, <2>1, JoinsTyped DEF Text
<1> HIDE DEF whole, trailing, onScreen
<1>1. screen' \in Seq(Signs)
  <2>1. DropLast(screen, Len(typedRun)) \in Seq(Signs)
    BY <1>p, PartsTyped, DropTyped DEF BarTyped
  <2> QED BY <1>0, <1>t, <1>p, <2>1, JoinsTyped
<1>2. ctx' \in Text /\ Len(ctx') <= profile.cap
  <2>1. ctx \o word \in Text
    BY PartsTyped, JoinsTyped DEF Text, BarTyped
  <2>2. Chopped(ctx \o word, Len(typedRun)) \in Text
    BY <1>p, <2>1, ChoppedTyped DEF Text
  <2>3. Chopped(ctx \o word, Len(typedRun)) \o p \o trailing \in Text
    BY <1>p, <1>t, <2>2, JoinsTyped DEF Text
  <2>4. profile.cap \in Nat
    BY WhoTyped DEF BarTyped, TypingTyped, TypingTypeOK
  <2> QED BY <1>0, <2>3, <2>4, CappedTyped DEF Text, Completed
<1>3. Len(ctx') <= profile.cap + 1
  <2>1. profile.cap \in Nat
    BY WhoTyped DEF BarTyped, TypingTyped, TypingTypeOK
  <2>2. Len(ctx') \in Nat
    BY <1>2 DEF Text
  <2> QED BY <1>2, <2>1, <2>2
<1>4. raw' \in Text
  BY <1>0, <1>w
<1>5. TypingTyped'
  <2>1. /\ profile' \in Profiles /\ taught' \in {"nothing", "whole", "tail"} /\ auto' \in BOOLEAN
        /\ profile' = profile /\ word' \in Text
    BY <1>0, <1>w DEF BarTyped, TypingTyped, TypingTypeOK
  <2> QED BY <1>0, <1>1, <1>2, <1>3, <1>4, <2>1 DEF TypingTyped, TypingTypeOK
<1>6. BarShape'
  BY <1>0, <1>4, RefreshTyped
<1>7. StoreShape'
  BY <1>0, <1>p, <1>w, StoreTyped DEF BarTyped
<1> QED BY <1>5, <1>6, <1>7 DEF BarTyped

\* Every step keeps every type.
LEMMA BarStepTyped ==
    ASSUME BarTyped, [BarNext]_<<typingVars, barVars>>
    PROVE  BarTyped'
<1>0. /\ TypingTyped /\ BarShape /\ StoreShape
      /\ raw \in Text /\ noted \in Text /\ <<>> \in Text
  BY JoinsTyped, PartsTyped DEF BarTyped, StoreShape, Text
<1>1. ASSUME TypingNext PROVE TypingTyped' /\ raw' \in Text
  BY <1>0, <1>1, TypingStepTyped, PartsTyped DEF TypingTyped, TypingTypeOK
<1>2. ASSUME TypingNext, RefreshBar \/ ShowWords \/ BlankBar \/ AfterMark, NEW r \in Text,
             NEW before \in Text,
             \/ LearnRun(r, before)
             \/ NoteNothing
             \/ sightings' = Sighted(r, before) /\ noted' = <<>>
      PROVE  BarTyped'
  BY <1>0, <1>1, <1>2, RefreshTyped, StoreTyped DEF BarTyped
<1>f. FinishedRun \in Text
  <2>1. CASE raw # <<>>
    <3>1. Len(raw) \in Nat /\ 1 \in 0..Len(raw)
      BY <1>0, <2>1 DEF Text
    <3>2. DropLast(raw, 1) \in Text
      BY <1>0, <3>1, DropTyped DEF Text
    <3> QED BY <1>0, <3>2 DEF FinishedRun
  <2> QED BY <1>0, <2>1 DEF FinishedRun
<1>3. ASSUME NEW c \in Letters, BarLetter(c) PROVE BarTyped'
  <2>1. TypingNext /\ RefreshBar /\ sightings' = Sighted(FinishedRun, noted) /\ noted' = <<>>
    BY <1>3 DEF BarLetter, TypingNext
  <2> QED BY <1>0, <1>2, <1>f, <2>1
<1>4. CASE BarDigit \/ \E g \in Glyphs : BarGlyph(g)
  BY <1>0, <1>2, <1>4 DEF BarDigit, BarGlyph, TypingNext
<1>5. CASE BarMark
  <2>1. TypingNext /\ AfterMark /\ (LearnRun(raw, <<>>) \/ NoteNothing)
    BY <1>5 DEF BarMark, TypingNext, Mark
  <2> QED BY <1>0, <1>2, <2>1
<1>6. CASE BarChord
  <2>1. TypingNext /\ UNCHANGED barVars
    BY <1>6 DEF BarChord, TypingNext, Mark
  <2> QED BY <1>0, <1>1, <2>1 DEF BarTyped, BarShape, StoreShape, barVars
<1>7. CASE BarSpace
  <2>1. TypingNext /\ RefreshBar /\ LearnRun(raw, noted)
    BY <1>7 DEF BarSpace, TypingNext
  <2> QED BY <1>0, <1>2, <2>1
<1>8. CASE BarBackspace
  <2>1. TypingNext /\ NoteNothing
    BY <1>8 DEF BarBackspace, TypingNext
  <2>2. CASE RefreshBar
    BY <1>0, <1>2, <2>1, <2>2
  <2>3. CASE UNCHANGED <<bar, tokenPills, typedRun>>
    <3>1. BarShape'
      BY <1>0, <2>3 DEF BarShape
    <3> QED BY <1>0, <1>1, <2>1, <3>1, StoreTyped DEF BarTyped
  <2> QED BY <1>8, <2>2, <2>3 DEF BarBackspace
<1>9. CASE Delete
  <2>1. TypingTyped' /\ raw' \in Text
    BY <1>0, <1>9 DEF Delete, TypingTyped, TypingTypeOK
  <2>2. StoreShape'
    BY <1>0, <1>9 DEF Delete, StoreShape
  <2>3. CASE RefreshBar
    BY <2>1, <2>2, <2>3, RefreshTyped DEF BarTyped
  <2>4. CASE UNCHANGED <<bar, tokenPills, typedRun>>
    BY <1>0, <2>1, <2>2, <2>4 DEF BarTyped, BarShape
  <2> QED BY <1>9, <2>3, <2>4 DEF Delete
<1>10. ASSUME UNCHANGED <<typingVars, noted>>, BarShape', sightings' \in [Tokens -> 0..MaxSightings]
       PROVE  BarTyped'
  <2>1. TypingTyped'
    BY <1>0, <1>10 DEF TypingTyped, TypingTypeOK, typingVars
  <2>2. StoreShape'
    BY <1>0, <1>10 DEF StoreShape
  <2> QED BY <1>10, <2>1, <2>2 DEF BarTyped
<1>11. CASE Recase
  <2>1. raw' \in Text
    BY <1>0, <1>11 DEF Recase, typingVars
  <2>2. BarShape' /\ sightings' \in [Tokens -> 0..MaxSightings]
    BY <1>0, <1>11, <2>1, RefreshTyped DEF Recase, StoreShape
  <2> QED BY <1>10, <1>11, <2>2 DEF Recase
<1>12. CASE FocusFlickers
  <2>1. BarShape' /\ sightings' \in [Tokens -> 0..MaxSightings]
    BY <1>0, <1>12, HideTyped DEF FocusFlickers, StoreShape
  <2> QED BY <1>10, <1>12, <2>1 DEF FocusFlickers
<1>13. CASE BarReset
  <2>1. TypingNext /\ BlankBar /\ NoteNothing
    BY <1>13 DEF BarReset, TypingNext
  <2> QED BY <1>0, <1>2, <2>1
<1>14. CASE BarPill
  <2>1. TypingNext /\ bar' = [kind |-> "words", text |-> ctx' \o word', pills |-> {}]
        /\ UNCHANGED <<tokenPills, typedRun>>
        /\ (LearnRun(FinishedRun, noted) \/ UNCHANGED <<sightings, noted>>)
    BY <1>14 DEF BarPill, TypingNext
  <2>2. BarShape'
    BY <1>0, <2>1 DEF BarShape
  <2>3. StoreShape'
    <3>1. CASE LearnRun(FinishedRun, noted)
      BY <1>0, <1>f, <3>1, StoreTyped
    <3>2. CASE UNCHANGED <<sightings, noted>>
      BY <1>0, <3>2 DEF StoreShape
    <3> QED BY <2>1, <3>1, <3>2
  <2> QED BY <1>1, <2>1, <2>2, <2>3 DEF BarTyped
<1>15. CASE BarInsert
  <2>1. TypingNext /\ HideBar /\ LearnRun(FinishedRun, noted)
    BY <1>15 DEF BarInsert, TypingNext
  <2>2. BarShape' /\ StoreShape'
    BY <1>0, <1>f, <2>1, HideTyped, StoreTyped
  <2> QED BY <1>1, <2>1, <2>2 DEF BarTyped
<1>16. ASSUME NEW p \in bar.pills, TokenPill(p) PROVE BarTyped'
  BY <1>16, TokenPillTyped
<1>17. ASSUME NEW t \in Tokens, ForgetToken(t) PROVE BarTyped'
  <2>1. BarShape'
    BY <1>0, <1>17 DEF ForgetToken, BarShape
  <2>2. MaxSightings \in Nat
    BY BarConstants
  <2>3. sightings' \in [Tokens -> 0..MaxSightings]
    BY <1>0, <1>17, <2>2 DEF ForgetToken, StoreShape
  <2> QED BY <1>10, <1>17, <2>1, <2>3 DEF ForgetToken
<1>18. CASE UNCHANGED <<typingVars, barVars>>
  <2>1. BarShape' /\ sightings' \in [Tokens -> 0..MaxSightings]
    BY <1>0, <1>18 DEF barVars, BarShape, StoreShape
  <2> QED BY <1>10, <1>18, <2>1 DEF barVars
<1> QED BY <1>3, <1>4, <1>5, <1>6, <1>7, <1>8, <1>9, <1>11, <1>12, <1>13, <1>14, <1>15, <1>16, <1>17,
           <1>18 DEF BarNext

-----------------------------------------------------------------------------
(* The word at the caret.                                                  *)

\* What is in the buffer of a user who erases and no mark gets into.
Plain == WordChars \cup {"sp"}

\* Where the mirror keeps up, the current word is the run on screen; and
\* where it may be walked back, the buffer before it is what is shown.
MirrorInv ==
    Tracked =>
      /\ lost \/ word = RunOf(screen)
      /\ deferred # "none" => word = <<>>
      /\ taught # "tail"
      /\ Uses("backspace") =>
           /\ word = RunOf(screen) /\ deferred = "none"
           /\ ctx \in Seq(Plain) /\ ctx \o word = SeenOf(screen)
           /\ Len(screen) <= profile.room

\* No text, no run.
LEMMA RunOfNone == RunOf(<<>>) = <<>>
<1>1. <<>> \in Seq(Signs)
  BY JoinsTyped
<1> QED BY <1>1, RunEnds

\* The runs behind the keys that end a word.
LEMMA RunBehind ==
    ASSUME NEW q \in Seq(Signs)
    PROVE  /\ RunOf(Append(q, "nl")) = <<>> /\ RunOf(Append(q, "sp")) = <<>>
           /\ RunOf(Append(q, ".")) = <<>> /\ RunOf(Append(q, ",")) = <<>>
           /\ RunOf(Append(q, "own")) = <<>>
           /\ RunOf(q \o <<"sp">>) = <<>> /\ RunOf(q \o <<"own">>) = <<>>
           /\ RunOf(q \o <<".", "own">>) = <<>> /\ RunOf(q \o <<",", "own">>) = <<>>
           /\ \A g \in Glyphs : RunOf(Append(q, g)) = <<>>
<1>1. /\ \A c \in {"nl", "sp", ".", ",", "own"} : c \in Signs \ WordChars
      /\ \A g \in Glyphs : g \in Signs \ WordChars
  BY DEF Signs, Chars, Glyphs, WordChars, Letters
<1>2. ASSUME NEW c \in Signs PROVE RunOf(q \o <<c, "own">>) = <<>>
  <2> DEFINE t == <<c, "own">>
             r == q \o t
  <2>1. t \in Seq(Signs) /\ Len(t) = 2 /\ t[2] = "own"
    BY <1>1, JoinsTyped
  <2> HIDE DEF t
  <2>2. /\ r \in Seq(Signs) /\ Len(r) = Len(q) + 2
        /\ \A i \in 1 .. (Len(q) + 2) : r[i] = IF i <= Len(q) THEN q[i] ELSE t[i - Len(q)]
    <3>1. /\ r \in Seq(Signs) /\ Len(r) = Len(q) + Len(t)
          /\ \A i \in 1 .. Len(q) + Len(t) : r[i] = IF i <= Len(q) THEN q[i] ELSE t[i - Len(q)]
      BY <2>1, ConcatProperties
    <3> HIDE DEF r
    <3> QED BY <2>1, <3>1
  <2> HIDE DEF r
  <2>3. Len(q) \in Nat
    OBVIOUS
  <2>6. /\ Len(q) + 2 \in 1 .. (Len(q) + 2) /\ ~((Len(q) + 2) <= Len(q))
        /\ (Len(q) + 2) - Len(q) = 2
    BY <2>3
  <2>4. r[Len(r)] = "own"
    BY <2>1, <2>2, <2>6
  <2>5. RunOf(r) = <<>>
    BY <1>1, <2>2, <2>4, RunEnds
  <2> QED BY <2>5 DEF r, t
<1> QED BY <1>1, <1>2, RunEndsBehind

\* A text that ends in its run is what is before the run and the run.
LEMMA BeforeRun ==
    ASSUME NEW q \in Seq(Signs)
    PROVE  /\ DropLast(q, Len(RunOf(q))) \in Seq(Signs)
           /\ q = DropLast(q, Len(RunOf(q))) \o RunOf(q)
<1>1. PICK k : Break(q, k)
  BY HasBreak
<1>2. k \in 0..Len(q) /\ RunOf(q) = SubSeq(q, k + 1, Len(q))
  BY <1>1, RunFromBreak DEF Break
<1>3. Len(RunOf(q)) = Len(q) - k
  BY <1>2, Tails
<1>4. Len(q) - (Len(q) - k) = k
  BY <1>2
<1>5. DropLast(q, Len(RunOf(q))) = SubSeq(q, 1, k)
  BY <1>3, <1>4 DEF DropLast
<1>6. SubSeq(q, 1, k) \in Seq(Signs)
  BY <1>2, CutTyped
<1>7. q = SubSeq(q, 1, k) \o SubSeq(q, k + 1, Len(q))
  BY <1>2, Rejoined
<1> QED BY <1>2, <1>5, <1>6, <1>7, Zenon

\* What a pill leaves behind the word it was tapped on.
LEMMA PillRun ==
    ASSUME TypingTyped, Tracked, MirrorInv, ~lost, NEW p \in PillWords, NEW text \in PillText(p)
    PROVE  RunOf(text) = p
<1>1. p \in Seq(WordChars) /\ p \in Seq(Signs) /\ screen \in Seq(Signs)
  BY ConstantsTyped, PartsTyped
<1>2. word = RunOf(screen) /\ (deferred # "none" => word = <<>>)
  BY DEF MirrorInv
<1>3. DropLast(screen, Len(word)) \in Seq(Signs) /\ RunOf(DropLast(screen, Len(word))) = <<>>
  BY <1>1, <1>2, BeforeRun, RunGone
<1>4. ASSUME NEW q \in Seq(Signs), RunOf(q) = <<>> PROVE RunOf((q \o OwedSpace) \o p) = p
  <2>1. q \o OwedSpace \in Seq(Signs)
    BY PartsTyped, JoinsTyped
  <2>2. RunOf(q \o OwedSpace) = <<>>
    BY <1>4, RunBehind, ConcatEmptySeq DEF OwedSpace
  <2> QED BY <1>1, <2>1, <2>2, RunGrows, ConcatEmptySeq
<1>5. CASE text = DropLast(screen, Len(word)) \o OwedSpace \o p
  BY <1>3, <1>4, <1>5
<1>6. CASE IsPrefix(word, p) /\ text = screen \o OwedSpace \o SubSeq(p, Len(word) + 1, Len(p))
  <2> DEFINE t == SubSeq(p, Len(word) + 1, Len(p))
  <2>1. word \in Seq(WordChars) /\ Len(word) \in 0..Len(p)
    BY <1>1, <1>2, <1>6, RunTyped DEF IsPrefix
  <2>2. t \in Seq(WordChars) /\ p = SubSeq(p, 1, Len(word)) \o t
    BY <1>1, <2>1, Rejoined, CutTyped
  <2>3. SubSeq(p, 1, Len(word)) = word
    BY <1>6, <2>1, SubSeqFull DEF IsPrefix
  <2>4. p = word \o t
    BY <2>2, <2>3
  <2> HIDE DEF t
  <2>5. CASE deferred = "none"
    <3>1. screen \o OwedSpace = screen
      BY <1>1, <2>5, ConcatEmptySeq DEF OwedSpace
    <3>2. RunOf(screen \o t) = word \o t
      BY <1>1, <1>2, <2>2, RunGrows
    <3> QED BY <1>6, <2>4, <3>1, <3>2 DEF t
  <2>6. CASE deferred # "none"
    <3>1. word = <<>> /\ RunOf(screen) = <<>>
      BY <1>2, <2>6
    <3>2. p = t
      BY <2>2, <2>4, <3>1, ConcatEmptySeq
    <3> QED BY <1>1, <1>4, <1>6, <3>1, <3>2 DEF t
  <2> QED BY <2>5, <2>6
<1> QED BY <1>5, <1>6 DEF PillText

\* What is seen of texts put together and cut.
LEMMA SeenConcat ==
    ASSUME NEW q \in Seq(Signs), NEW t \in Seq(Signs)
    PROVE  SeenOf(q \o t) = SeenOf(q) \o SeenOf(t)
<1> DEFINE b(c) == IF c \in {"own", "nl"} THEN "sp" ELSE c
           r == q \o t
           s == SeenOf(q)
           u == SeenOf(t)
           v == SeenOf(r)
<1>1. /\ r \in Seq(Signs) /\ Len(r) = Len(q) + Len(t)
      /\ \A i \in 1 .. Len(q) + Len(t) : r[i] = IF i <= Len(q) THEN q[i] ELSE t[i - Len(q)]
  BY ConcatProperties
<1> HIDE DEF r
<1>2. s \in Seq(Signs) /\ Len(s) = Len(q) /\ \A i \in 1..Len(q) : s[i] = b(q[i])
  BY SeenTyped
<1>3. u \in Seq(Signs) /\ Len(u) = Len(t) /\ \A i \in 1..Len(t) : u[i] = b(t[i])
  BY SeenTyped
<1>4. v \in Seq(Signs) /\ Len(v) = Len(r) /\ \A i \in 1..Len(r) : v[i] = b(r[i])
  BY <1>1, SeenTyped
<1> HIDE DEF s, u, v, b
<1>5. /\ s \o u \in Seq(Signs) /\ Len(s \o u) = Len(s) + Len(u)
      /\ \A i \in 1 .. Len(s) + Len(u) : (s \o u)[i] = IF i <= Len(s) THEN s[i] ELSE u[i - Len(s)]
  <2>1. s \in Seq(Signs) /\ u \in Seq(Signs)
    BY <1>2, <1>3
  <2> QED BY <2>1, ConcatProperties
<1>6. Len(v) = Len(s \o u)
  BY <1>1, <1>2, <1>3, <1>4, <1>5
<1>7. \A i \in 1..Len(v) : v[i] = (s \o u)[i]
  <2> TAKE i \in 1..Len(v)
  <2>1. i \in 1..(Len(q) + Len(t)) /\ Len(q) \in Nat /\ Len(t) \in Nat
    BY <1>1, <1>4
  <2>2. CASE i <= Len(q)
    <3>1. i \in 1..Len(q)
      BY <2>1, <2>2
    <3>2. v[i] = b(q[i]) /\ s[i] = b(q[i])
      BY <1>1, <1>2, <1>4, <2>1, <2>2, <3>1
    <3>3. (s \o u)[i] = s[i]
      BY <1>2, <1>3, <1>5, <2>1, <2>2
    <3> QED BY <3>2, <3>3
  <2>3. CASE ~(i <= Len(q))
    <3>1. i - Len(q) \in 1..Len(t)
      BY <2>1, <2>3
    <3>2. v[i] = b(t[i - Len(q)]) /\ u[i - Len(q)] = b(t[i - Len(q)])
      BY <1>1, <1>3, <1>4, <2>1, <2>3, <3>1
    <3>3. (s \o u)[i] = u[i - Len(q)]
      BY <1>2, <1>3, <1>5, <2>1, <2>3
    <3> QED BY <3>2, <3>3
  <2> QED BY <2>2, <2>3
<1>8. v = s \o u
  BY <1>4, <1>5, <1>6, <1>7, SeqEqual
<1> QED BY <1>8 DEF s, u, v, r

\* A text with no sign of the keyboard's own is seen as it is.
LEMMA SeenPlain ==
    ASSUME NEW t \in Text
    PROVE  SeenOf(t) = t
<1> DEFINE s == SeenOf(t)
<1>1. t \in Seq(Signs)
  BY TextIsSigns
<1>2. /\ s \in Seq(Signs) /\ Len(s) = Len(t)
      /\ \A i \in 1..Len(t) : s[i] = IF t[i] \in {"own", "nl"} THEN "sp" ELSE t[i]
  BY <1>1, SeenTyped
<1> HIDE DEF s
<1>3. \A i \in 1..Len(t) : t[i] \notin {"own", "nl"}
  <2> TAKE i \in 1..Len(t)
  <2>1. t[i] \in Chars
    BY DEF Text
  <2> QED BY <2>1 DEF Chars, WordChars, Letters, Glyphs
<1>4. \A i \in 1..Len(s) : s[i] = t[i]
  BY <1>2, <1>3
<1>5. s = t
  BY <1>1, <1>2, <1>4, SeqEqual
<1> QED BY <1>5 DEF s

\* Seeing and erasing commute.
LEMMA SeenDrop ==
    ASSUME NEW q \in Seq(Signs), NEW n \in 0..Len(q)
    PROVE  SeenOf(DropLast(q, n)) = DropLast(SeenOf(q), n)
<1> DEFINE b(c) == IF c \in {"own", "nl"} THEN "sp" ELSE c
           s == SeenOf(q)
           d == DropLast(q, n)
           v == SeenOf(d)
           w == DropLast(s, n)
<1>1. s \in Seq(Signs) /\ Len(s) = Len(q) /\ \A i \in 1..Len(q) : s[i] = b(q[i])
  BY SeenTyped
<1>2. d \in Seq(Signs) /\ Len(d) = Len(q) - n /\ \A i \in 1..(Len(q) - n) : d[i] = q[i]
  BY Fronts
<1> HIDE DEF d
<1>3. v \in Seq(Signs) /\ Len(v) = Len(d) /\ \A i \in 1..Len(d) : v[i] = b(d[i])
  BY <1>2, SeenTyped
<1> HIDE DEF s, v, b
<1>4. n \in 0..Len(s) /\ Len(s) - n = Len(q) - n /\ n \in Nat /\ Len(q) \in Nat
  BY <1>1
<1>5. w \in Seq(Signs) /\ Len(w) = Len(s) - n /\ \A i \in 1..(Len(s) - n) : w[i] = s[i]
  BY <1>1, <1>4, Fronts
<1> HIDE DEF w
<1>6. Len(v) = Len(w)
  BY <1>2, <1>3, <1>4, <1>5
<1>7. \A i \in 1..Len(v) : v[i] = w[i]
  <2> TAKE i \in 1..Len(v)
  <2>1. i \in 1..(Len(q) - n) /\ i \in 1..Len(q) /\ i \in 1..Len(d) /\ i \in 1..(Len(s) - n)
    BY <1>2, <1>3, <1>4
  <2> QED BY <1>1, <1>2, <1>3, <1>5, <2>1
<1>8. v = w
  BY <1>3, <1>5, <1>6, <1>7, SeqEqual
<1> QED BY <1>8 DEF d, s, v, w

\* Words and spaces are text.
LEMMA PlainIsText == Seq(Plain) \subseteq Text /\ Seq(WordChars) \subseteq Seq(Plain)
<1>1. Plain \subseteq Chars /\ WordChars \subseteq Plain
  BY DEF Plain, Chars
<1> QED BY <1>1, SeqMonotonic DEF Text

\* The mirror of a text that may be walked back.
Walkable ==
    /\ word = RunOf(screen) /\ deferred = "none"
    /\ ctx \in Seq(Plain) /\ ctx \o word = SeenOf(screen)

\* What is before the word on screen is what the buffer holds.
LEMMA BaseSeen ==
    ASSUME TypingTyped, Walkable
    PROVE  /\ DropLast(screen, Len(word)) \in Seq(Signs)
           /\ Len(word) \in 0..Len(screen) /\ Len(word) \in Nat
           /\ screen = DropLast(screen, Len(word)) \o word
           /\ SeenOf(DropLast(screen, Len(word))) = ctx
<1>1. screen \in Seq(Signs) /\ word = RunOf(screen) /\ ctx \in Text /\ word \in Text
      /\ ctx \o word = SeenOf(screen)
  BY PartsTyped DEF Walkable
<1>2. Len(word) \in 0..Len(screen)
  BY <1>1, RunTyped
<1>3. SeenOf(DropLast(screen, Len(word))) = DropLast(SeenOf(screen), Len(word))
  BY <1>1, <1>2, SeenDrop
<1>4. DropLast(ctx \o word, Len(word)) = ctx
  BY <1>1, CutInTwo DEF Text
<1>5. DropLast(screen, Len(RunOf(screen))) \in Seq(Signs)
      /\ screen = DropLast(screen, Len(RunOf(screen))) \o RunOf(screen)
  BY <1>1, BeforeRun
<1>6. Len(word) \in Nat /\ SeenOf(DropLast(screen, Len(word))) = ctx
  BY <1>1, <1>2, <1>3, <1>4
<1> QED BY <1>1, <1>2, <1>5, <1>6, Zenon

\* A word and a space in place of the word in progress.
LEMMA CommitMirrors ==
    ASSUME TypingTyped, Walkable, NEW w \in Seq(WordChars), NEW x \in {"sp", "own", "nl"},
           NEW s, s = DropLast(screen, Len(word)) \o w \o <<x>>
    PROVE  /\ s \in Seq(Signs) /\ SeenOf(s) = ctx \o w \o <<"sp">>
           /\ ctx \o w \o <<"sp">> \in Seq(Plain)
           /\ Len(s) = Len(screen) - Len(word) + Len(w) + 1
           /\ Len(ctx \o w \o <<"sp">>) = Len(s)
           /\ RunOf(s) = <<>>
<1> DEFINE base == DropLast(screen, Len(word))
<1>1. base \in Seq(Signs) /\ SeenOf(base) = ctx /\ Len(base) = Len(screen) - Len(word)
      /\ Len(screen) \in Nat /\ Len(word) \in Nat
  <2>1. base \in Seq(Signs) /\ SeenOf(base) = ctx /\ Len(word) \in 0..Len(screen)
    BY BaseSeen
  <2> QED BY <2>1, PartsTyped, Fronts
<1> HIDE DEF base
<1>2. w \in Text /\ w \in Seq(Signs) /\ w \in Seq(Plain)
  BY TextIsSigns, PlainIsText
<1>3. x \in Signs /\ <<x>> \in Seq(Signs) /\ Len(<<x>>) = 1 /\ SeenOf(<<x>>) = <<"sp">>
  <2>1. x \in Signs /\ <<x>> \in Seq(Signs) /\ Len(<<x>>) = 1
    BY Written, JoinsTyped
  <2>2. /\ SeenOf(<<x>>) \in Seq(Signs) /\ Len(SeenOf(<<x>>)) = 1
        /\ SeenOf(<<x>>)[1] = "sp"
    <3>1. /\ SeenOf(<<x>>) \in Seq(Signs) /\ Len(SeenOf(<<x>>)) = 1
          /\ \A i \in 1..1 : SeenOf(<<x>>)[i] = IF <<x>>[i] \in {"own", "nl"} THEN "sp" ELSE <<x>>[i]
      BY <2>1, SeenTyped
    <3>2. 1 \in 1..1 /\ <<x>>[1] = x
      OBVIOUS
    <3> QED BY <3>1, <3>2
  <2>3. <<"sp">> \in Seq(Signs) /\ Len(<<"sp">>) = 1 /\ <<"sp">>[1] = "sp"
    BY Written, JoinsTyped
  <2>4. \A i \in 1..1 : i = 1
    OBVIOUS
  <2> QED BY <2>1, <2>2, <2>3, <2>4, SeqEqual
<1>4. base \o w \in Seq(Signs) /\ Len(base \o w) = Len(base) + Len(w) /\ Len(w) \in Nat
      /\ SeenOf(base \o w) = ctx \o w
  <2>1. base \o w \in Seq(Signs) /\ Len(base \o w) = Len(base) + Len(w) /\ Len(w) \in Nat
    <3>1. base \in Seq(Signs) /\ w \in Seq(Signs) /\ Len(w) \in Nat
      BY <1>1, <1>2
    <3> QED BY <3>1, ConcatProperties
  <2>2. SeenOf(base \o w) = SeenOf(base) \o SeenOf(w) /\ SeenOf(w) = w
    BY <1>1, <1>2, SeenConcat, SeenPlain
  <2> QED BY <1>1, <2>1, <2>2
<1>5. s \in Seq(Signs) /\ Len(s) = Len(base \o w) + 1 /\ SeenOf(s) = ctx \o w \o <<"sp">>
  <2>0. s = (base \o w) \o <<x>>
    BY DEF base
  <2>1. s \in Seq(Signs) /\ Len(s) = Len(base \o w) + 1
    <3>1. base \o w \in Seq(Signs) /\ <<x>> \in Seq(Signs) /\ Len(<<x>>) = 1
      BY <1>3, <1>4
    <3> DEFINE g == base \o w
               e == <<x>>
    <3>2. g \in Seq(Signs) /\ e \in Seq(Signs) /\ Len(e) = 1 /\ s = g \o e
      BY <2>0, <3>1
    <3> HIDE DEF g, e
    <3>4. g \o e \in Seq(Signs) /\ Len(g \o e) = Len(g) + Len(e)
      BY <3>2, ConcatProperties
    <3>3. s \in Seq(Signs) /\ Len(s) = Len(g) + 1
      BY <3>2, <3>4, Zenon
    <3> QED BY <3>3 DEF g
  <2>2. SeenOf(s) = SeenOf(base \o w) \o SeenOf(<<x>>)
    BY <1>3, <1>4, <2>0, SeenConcat
  <2> QED BY <1>3, <1>4, <2>1, <2>2
<1>6. RunOf(s) = <<>>
  <2>1. x \in Signs \ WordChars
    BY <1>3 DEF WordChars, Letters
  <2> QED BY <1>4, <2>1, RunEndsBehind DEF base
<1>7. ctx \o w \o <<"sp">> \in Seq(Plain)
  <2>1. "sp" \in Plain
    BY DEF Plain
  <2> QED BY <1>2, <2>1, JoinsTyped DEF Walkable
<1>8. Len(SeenOf(s)) = Len(s)
  BY <1>5, SeenTyped
<1>9. Len(s) = Len(screen) - Len(word) + Len(w) + 1
  BY <1>1, <1>4, <1>5
<1> QED BY <1>5, <1>6, <1>7, <1>8, <1>9

\* Where the mirror keeps up it teaches whole words.
LEMMA WholeWordsTaught ==
    ASSUME TypingTyped, Tracked, MirrorInv, LearnUnlessLost
    PROVE  taught' # "tail" /\ lost' = FALSE
<1>1. lost' = FALSE /\ taught # "tail" /\ (lost \/ word = RunOf(screen))
  BY DEF LearnUnlessLost, MirrorInv
<1>2. CASE lost \/ word = <<>>
  BY <1>1, <1>2 DEF LearnUnlessLost, LearnAnyway
<1>3. CASE ~lost /\ word # <<>>
  <2>1. screen \in Seq(Signs) /\ word = RunOf(screen)
    BY <1>1, <1>3, PartsTyped
  <2>2. word \in Seq(WordChars)
    BY <2>1, RunTyped
  <2>3. RunOf(word) = word /\ RunOf(Shown) = word
    BY <2>1, <2>2, RunOfRun, SeenRun, ShownIsSeen
  <2>4. ~(Len(RunOf(word)) < Len(RunOf(Shown)))
    BY <2>2, <2>3
  <2> QED BY <1>1, <1>3, <2>4 DEF LearnUnlessLost, LearnAnyway
<1> QED BY <1>2, <1>3

\* Who erases presses no key of the kinds the mirror does not follow.
LEMMA WhoErases ==
    ASSUME Tracked, Uses("backspace")
    PROVE  /\ ~Uses("extraSpace") /\ ~Uses("extraReturn") /\ ~Uses("snippet") /\ ~Uses("click")
           /\ ~Uses("chordBehindSpace") /\ ~Uses("dot") /\ ~Uses("comma") /\ ~Uses("dash")
           /\ ~Uses("at")
           /\ profile.cap >= profile.room /\ profile.pillCap >= profile.room
BY DEF Tracked, Uses, Unmirrored, Marks, Roomy

\* Who is tracked leaves no letters behind without a word.
LEMMA NoWordlessKeys ==
    ASSUME Tracked
    PROVE  ~Uses("spoken") /\ ~Uses("spokenMidWord") /\ ~Uses("tokenPill") /\ ~Uses("secondClick")
BY DEF Tracked, Uses, Wordless

\* The claims of MirrorInv after a key that ends the word.
LEMMA EndedWord ==
    ASSUME Tracked, profile' = profile, word' = <<>>, RunOf(screen') = <<>>, taught' # "tail",
           Uses("backspace") =>
             /\ deferred' = "none" /\ ctx' \in Seq(Plain) /\ ctx' = SeenOf(screen')
             /\ Len(screen') <= profile.room
    PROVE  MirrorInv'
<1> SUFFICES ASSUME Tracked', Uses("backspace")'
             PROVE  ctx' \o word' = SeenOf(screen') /\ deferred' = "none"
                    /\ ctx' \in Seq(Plain) /\ Len(screen') <= profile.room
  BY DEF MirrorInv
<1>1. Uses("backspace")
  BY DEF Uses
<1>2. ctx' \o <<>> = ctx'
  BY <1>1, ConcatEmptySeq
<1> QED BY <1>1, <1>2

\* The same where the word in progress is put in place of another, a space
\* behind it.
LEMMA CommittedWord ==
    ASSUME TypingTyped, Tracked, MirrorInv, NEW w \in Seq(WordChars), NEW x \in {"sp", "own", "nl"},
           NEW cut \in {profile.cap, profile.pillCap},
           profile' = profile, word' = <<>>, taught' # "tail", RunOf(screen') = <<>>,
           Uses("backspace") =>
             /\ deferred' = "none"
             /\ screen' = DropLast(screen, Len(word)) \o w \o <<x>>
             /\ ctx' = Capped(ctx \o w \o <<"sp">>, cut)
             /\ Len(screen) - Len(word) + Len(w) + 1 <= profile.room
    PROVE  MirrorInv'
<1> SUFFICES ASSUME Uses("backspace")
             PROVE  ctx' \in Seq(Plain) /\ ctx' = SeenOf(screen') /\ Len(screen') <= profile.room
  BY EndedWord
<1>1. Walkable
  BY DEF MirrorInv, Walkable
<1>2. /\ SeenOf(screen') = ctx \o w \o <<"sp">> /\ ctx \o w \o <<"sp">> \in Seq(Plain)
      /\ Len(screen') = Len(screen) - Len(word) + Len(w) + 1
      /\ Len(ctx \o w \o <<"sp">>) = Len(screen') /\ screen' \in Seq(Signs)
  BY <1>1, CommitMirrors
<1> DEFINE g == ctx \o w \o <<"sp">>
<1>3. g \in Seq(Plain) /\ Len(g) = Len(screen') /\ SeenOf(screen') = g /\ ctx' = Capped(g, cut)
  BY <1>2
<1> HIDE DEF g
<1>4. Len(screen') <= profile.room
  BY <1>2
<1>5. cut \in Nat /\ profile.room \in Nat /\ cut >= profile.room
  BY WhoTyped, WhoErases DEF TypingTyped, TypingTypeOK
<1>6. Len(g) <= cut
  <2>1. Len(screen') \in Nat
    BY <1>2
  <2> QED BY <1>3, <1>4, <1>5, <2>1
<1>7. ctx' = g
  BY <1>3, <1>5, <1>6, CappedTyped
<1> QED BY <1>3, <1>4, <1>7

\* What each action does to the mirror.
LEMMA LetterMirrors ==
    ASSUME TypingTyped, Tracked, MirrorInv, (\E c \in Letters : Letter(c)) \/ Digit
    PROVE  MirrorInv'
<1>1. PICK c \in WordChars :
         /\ \/ screen' = screen \o OwedSpace \o <<c>>
            \/ screen' = Append(screen, c)
         /\ word' = Append(word, c) /\ Room(1)
         /\ ctx' = OwedInContext \/ ctx' = ctx
         /\ deferred' = "none" /\ UNCHANGED <<profile, lost, taught>>
  <2>1. ASSUME Room(2) PROVE Room(1)
    <3>1. Len(screen) \in Nat
      BY PartsTyped
    <3>2. profile.room \in Nat
      BY WhoTyped DEF TypingTyped, TypingTypeOK
    <3> QED BY <2>1, <3>1, <3>2 DEF Room
  <2>2. Letters \subseteq WordChars /\ "1" \in WordChars
    BY DEF WordChars
  <2>3. ASSUME NEW c \in Letters, Letter(c)
        PROVE  /\ screen' = screen \o OwedSpace \o <<c>> /\ word' = Append(word, c) /\ Room(1)
               /\ ctx' = OwedInContext /\ deferred' = "none" /\ UNCHANGED <<profile, lost, taught>>
    BY <2>1, <2>3 DEF Letter
  <2>4. ASSUME Digit
        PROVE  /\ screen' = Append(screen, "1") /\ word' = Append(word, "1") /\ Room(1)
               /\ ctx' = ctx /\ deferred' = "none" /\ UNCHANGED <<profile, lost, taught>>
    BY <2>4 DEF Digit
  <2> QED BY <2>2, <2>3, <2>4
<1>2. screen \in Seq(Signs) /\ word \in Text /\ Len(screen) \in Nat /\ <<c>> \in Seq(WordChars)
      /\ <<c>> \in Seq(Signs) /\ <<c>> \in Text /\ c \in Signs /\ c \in Chars
  <2>1. screen \in Seq(Signs) /\ word \in Text
    BY PartsTyped
  <2>2. c \in Signs /\ c \in Chars
    BY DEF Signs, Chars
  <2>3. <<c>> \in Seq(WordChars) /\ <<c>> \in Seq(Signs) /\ <<c>> \in Text
    BY <2>2, JoinsTyped DEF Text
  <2>4. Len(screen) \in Nat
    BY <2>1
  <2> QED BY <2>1, <2>2, <2>3, <2>4
<1>3. word' = word \o <<c>> /\ Append(screen, c) = screen \o <<c>>
  BY <1>1, <1>2, AppendIsConcat DEF Text
<1>4. ASSUME deferred = "none"
      PROVE  screen' = screen \o <<c>> /\ ctx' = ctx
  <2>1. screen \o OwedSpace = screen
    BY <1>2, <1>4, ConcatEmptySeq DEF OwedSpace
  <2> QED BY <1>1, <1>3, <1>4, <2>1 DEF OwedInContext
<1>5. lost' \/ word' = RunOf(screen')
  <2> SUFFICES ASSUME ~lost PROVE word' = RunOf(screen')
    BY <1>1
  <2>1. word = RunOf(screen) /\ (deferred # "none" => word = <<>>)
    BY DEF MirrorInv
  <2>2. CASE screen' = screen \o <<c>>
    BY <1>2, <1>3, <2>1, <2>2, RunGrows
  <2>3. CASE screen' # screen \o <<c>>
    <3>1. deferred # "none" /\ screen' = screen \o OwedSpace \o <<c>>
      BY <1>1, <1>3, <1>4, <2>3
    <3>2. screen \o <<"own">> \in Seq(Signs) /\ RunOf(screen \o <<"own">>) = <<>>
      BY <1>2, Written, JoinsTyped, RunBehind
    <3>3. RunOf(screen') = <<>> \o <<c>>
      BY <1>2, <3>1, <3>2, RunGrows DEF OwedSpace
    <3>4. word = <<>>
      BY <2>1, <3>1
    <3> QED BY <1>3, <3>3, <3>4
  <2> QED BY <2>2, <2>3
<1>6. ASSUME Uses("backspace")
      PROVE  /\ word' = RunOf(screen') /\ ctx' \in Seq(Plain) /\ ctx' \o word' = SeenOf(screen')
             /\ Len(screen') <= profile.room
  <2>1. Walkable /\ screen' = screen \o <<c>> /\ ctx' = ctx
    BY <1>4, <1>6 DEF MirrorInv, Walkable
  <2>2. word' = RunOf(screen')
    BY <1>2, <1>3, <2>1, RunGrows DEF Walkable
  <2>3. SeenOf(screen') = SeenOf(screen) \o SeenOf(<<c>>) /\ SeenOf(<<c>>) = <<c>>
    BY <1>2, <2>1, SeenConcat, SeenPlain
  <2>4. ctx \in Text /\ (ctx \o word) \o <<c>> = ctx \o (word \o <<c>>)
    <3>1. ctx \in Seq(Chars) /\ word \in Seq(Chars) /\ <<c>> \in Seq(Chars)
      BY <1>2, PartsTyped DEF Text
    <3>2. (ctx \o word) \o <<c>> = ctx \o (word \o <<c>>)
      BY <3>1, ConcatAssociative
    <3> QED BY <3>1, <3>2 DEF Text
  <2>5. ctx' \o word' = SeenOf(screen')
    BY <1>3, <2>1, <2>3, <2>4 DEF Walkable
  <2>6. Len(screen') = Len(screen) + 1
    BY <1>2, <1>3, <2>1, AppendProperties
  <2>7. Len(screen') <= profile.room
    BY <1>1, <2>6 DEF Room
  <2> QED BY <2>1, <2>2, <2>5, <2>7 DEF Walkable
<1>7. taught # "tail"
  BY DEF MirrorInv
<1> QED BY <1>1, <1>5, <1>6, <1>7 DEF MirrorInv, Uses

\* Marks, hyphens and chords.
LEMMA MarksMirror ==
    ASSUME TypingTyped, Tracked, MirrorInv,
           EndSentence \/ Comma \/ (\E g \in Glyphs : Glyph(g))
    PROVE  MirrorInv'
<1>1. screen \in Seq(Signs) /\ Kept(screen) \in Seq(Signs)
  BY PartsTyped
<1>2. taught' # "tail"
  <2>1. LearnUnlessLost
    BY DEF EndSentence, Comma, Glyph
  <2> QED BY <2>1, WholeWordsTaught
<1>3. ~Uses("backspace")
  <2>1. Uses("dot") \/ Uses("comma") \/ Uses("at") \/ Uses("dash")
    BY DEF EndSentence, Comma, Glyph
  <2> QED BY <2>1, WhoErases
<1>4. profile' = profile /\ word' = <<>>
  BY DEF EndSentence, Comma, Glyph
<1>5. RunOf(screen') = <<>>
  <2>1. CASE EndSentence
    <3>1. screen' = Append(Kept(screen), ".") \/ screen' = Kept(screen) \o <<".", "own">>
      BY <2>1 DEF EndSentence
    <3> QED BY <1>1, <3>1, RunBehind
  <2>2. CASE Comma
    <3>1. screen' = Append(Kept(screen), ",") \/ screen' = Kept(screen) \o <<",", "own">>
      BY <2>2 DEF Comma
    <3> QED BY <1>1, <3>1, RunBehind
  <2>3. ASSUME NEW g \in Glyphs, Glyph(g) PROVE RunOf(screen') = <<>>
    BY <1>1, <2>3, RunBehind DEF Glyph
  <2> QED BY <2>1, <2>2, <2>3
<1> QED BY <1>2, <1>3, <1>4, <1>5, EndedWord

\* A chord: the space it takes back was no part of a word.
LEMMA ChordMirrors ==
    ASSUME TypingTyped, Tracked, MirrorInv, ChordDot
    PROVE  MirrorInv'
<1>1. /\ profile' = profile /\ word' = word /\ lost' = lost /\ taught' = taught
      /\ deferred' = "none" /\ taught # "tail"
  BY DEF ChordDot, MirrorInv
<1>2. CASE Elides
  <2>1. screen' = WordKilled(screen) /\ word = <<>> /\ ~Uses("backspace")
    BY <1>2, WhoErases DEF ChordDot, Elides
  <2>2. RunOf(screen') = <<>>
    BY <2>1, PartsTyped, KilledTyped
  <2> QED BY <1>1, <2>1, <2>2, EndedWord
<1>3. CASE ~Elides
  <2>1. screen' = screen /\ ctx' = ctx
    BY <1>3 DEF ChordDot, Kept
  <2> QED BY <1>1, <2>1 DEF MirrorInv, Uses
<1> QED BY <1>2, <1>3

\* Space, Return and the pill's editor put a word and a blank in place of the
\* word in progress.
LEMMA SpaceMirrors ==
    ASSUME TypingTyped, Tracked, MirrorInv, Space \/ Return
    PROVE  MirrorInv'
<1>1. taught' # "tail" /\ profile' = profile /\ word' = <<>> /\ deferred' = "none"
  <2>1. LearnUnlessLost
    BY DEF Space, Return
  <2> QED BY <2>1, WholeWordsTaught DEF Space, Return
<1>2. screen \in Seq(Signs) /\ word \in Seq(Signs) /\ Len(word) \in Nat /\ Len(screen) \in Nat
  BY PartsTyped
<1>3. DropLast(screen, Len(word)) \in Seq(Signs)
  BY <1>2, DropTyped
<1>4. ASSUME Uses("backspace")
      PROVE  /\ word \in Seq(WordChars) /\ word # <<>>
             /\ \A x \in {"sp", "nl"} :
                   Append(screen, x) = DropLast(screen, Len(word)) \o word \o <<x>>
  <2>1. Walkable
    BY <1>4 DEF MirrorInv, Walkable
  <2>2. word \in Seq(WordChars)
    BY <1>2, <2>1, RunTyped DEF Walkable
  <2>3. word # <<>>
    BY <1>4, WhoErases DEF Space, Return
  <2>4. screen = DropLast(screen, Len(word)) \o word
    BY <2>1, BaseSeen
  <2>5. \A x \in {"sp", "nl"} : Append(screen, x) = screen \o <<x>>
    BY <1>2, Written, AppendIsConcat
  <2> QED BY <2>2, <2>3, <2>4, <2>5
<1>5. CASE Space
  <2>1. PICK w \in {word} \cup (IF word = <<>> THEN {} ELSE Corrections) :
           /\ Room(1 + Len(w) - Len(word))
           /\ screen' = IF w = word THEN Append(screen, "sp")
                        ELSE DropLast(screen, Len(word)) \o w \o <<"sp">>
           /\ ctx' = IF w = <<>> THEN ctx ELSE Capped(ctx \o w \o <<"sp">>, profile.cap)
    BY <1>5 DEF Space
  <2>2. w = word \/ w \in Corrections
    BY <2>1
  <2>3. w \in Seq(Signs) /\ Len(w) \in Nat
    BY <1>2, <2>2, ConstantsTyped
  <2>4. RunOf(screen') = <<>>
    <3>1. DropLast(screen, Len(word)) \o w \in Seq(Signs)
      BY <1>3, <2>3, JoinsTyped
    <3> QED BY <1>2, <2>1, <3>1, RunBehind
  <2>5. CASE Uses("backspace")
    <3>1. w \in Seq(WordChars) /\ w # <<>>
      BY <1>4, <2>2, <2>5, ConstantsTyped, TypingConstants
    <3>2. screen' = DropLast(screen, Len(word)) \o w \o <<"sp">>
      BY <1>4, <2>1, <2>5
    <3>3. ctx' = Capped(ctx \o w \o <<"sp">>, profile.cap)
      BY <2>1, <3>1
    <3>4. Len(screen) - Len(word) + Len(w) + 1 <= profile.room
      <4>1. profile.room \in Nat
        BY WhoTyped DEF TypingTyped, TypingTypeOK
      <4>2. Len(screen) + (1 + Len(w) - Len(word)) <= profile.room
        BY <2>1 DEF Room
      <4> QED BY <1>2, <2>3, <4>1, <4>2
    <3> QED BY <1>1, <2>4, <3>1, <3>2, <3>3, <3>4, CommittedWord
  <2>6. CASE ~Uses("backspace")
    BY <1>1, <2>4, <2>6, EndedWord
  <2> QED BY <2>5, <2>6
<1>6. CASE Return
  <2>1. screen' = Append(screen, "nl") /\ Room(1)
        /\ ctx' = IF word = <<>> THEN ctx ELSE Capped(ctx \o word \o <<"sp">>, profile.cap)
    BY <1>6 DEF Return
  <2>2. RunOf(screen') = <<>>
    BY <1>2, <2>1, RunBehind
  <2>3. CASE Uses("backspace")
    <3>1. Len(screen) - Len(word) + Len(word) + 1 <= profile.room
      <4>1. profile.room \in Nat
        BY WhoTyped DEF TypingTyped, TypingTypeOK
      <4>2. Len(screen) + 1 <= profile.room
        BY <2>1 DEF Room
      <4> QED BY <1>2, <4>1, <4>2
    <3>2. screen' = DropLast(screen, Len(word)) \o word \o <<"nl">>
      BY <1>4, <2>1, <2>3
    <3>3. ctx' = Capped(ctx \o word \o <<"sp">>, profile.cap)
      BY <1>4, <2>1, <2>3
    <3> QED BY <1>1, <1>4, <2>2, <2>3, <3>1, <3>2, <3>3, CommittedWord
  <2>4. CASE ~Uses("backspace")
    BY <1>1, <2>2, <2>4, EndedWord
  <2> QED BY <2>3, <2>4
<1> QED BY <1>5, <1>6

\* An edited pill replaces the word.
LEMMA EditMirrors ==
    ASSUME TypingTyped, Tracked, MirrorInv, NEW p \in PillWords, EditPrediction(p)
    PROVE  MirrorInv'
<1>1. /\ taught' # "tail" /\ profile' = profile /\ word' = <<>> /\ deferred' = deferred
      /\ screen' = DropLast(screen, Len(word)) \o p \o <<"own">> /\ Room(1 + Len(p))
      /\ ctx' = Capped(ctx \o p \o <<"sp">>, profile.pillCap)
  BY DEF EditPrediction, MirrorInv
<1>2. screen \in Seq(Signs) /\ word \in Seq(Signs) /\ Len(word) \in Nat /\ Len(screen) \in Nat
  BY PartsTyped
<1>3. p \in Seq(Signs) /\ p \in Seq(WordChars) /\ Len(p) \in Nat
  BY ConstantsTyped
<1>4. RunOf(screen') = <<>>
  <2>1. DropLast(screen, Len(word)) \in Seq(Signs)
    BY <1>2, DropTyped
  <2>2. DropLast(screen, Len(word)) \o p \in Seq(Signs)
    BY <1>3, <2>1, JoinsTyped
  <2> QED BY <1>1, <2>2, RunBehind
<1>5. Len(screen) - Len(word) + Len(p) + 1 <= profile.room
  <2>1. profile.room \in Nat
    BY WhoTyped DEF TypingTyped, TypingTypeOK
  <2>2. Len(screen) + (1 + Len(p)) <= profile.room
    BY <1>1 DEF Room
  <2> QED BY <1>2, <1>3, <2>1, <2>2
<1>6. Uses("backspace") => deferred' = "none"
  BY <1>1 DEF MirrorInv
<1> QED BY <1>1, <1>3, <1>4, <1>5, <1>6, CommittedWord

\* A tapped pill replaces it, or completes it.
LEMMA PillMirrors ==
    ASSUME TypingTyped, Tracked, MirrorInv, NEW p \in PillWords, Pill(p)
    PROVE  MirrorInv'
<1>1. /\ taught' # "tail" /\ profile' = profile /\ word' = <<>> /\ deferred' = "none"
      /\ Room(2 + Len(p)) /\ ctx' = Capped(OwedInContext \o p \o <<"sp">>, profile.pillCap)
  BY DEF Pill, MirrorInv
<1>2. PICK text \in PillText(p) : screen' = Append(text, "own")
  BY DEF Pill
<1>3. screen \in Seq(Signs) /\ word \in Seq(Signs) /\ Len(word) \in Nat /\ Len(screen) \in Nat
  BY PartsTyped
<1>4. p \in Seq(Signs) /\ p \in Seq(WordChars) /\ Len(p) \in Nat
  BY ConstantsTyped
<1>5. text \in Seq(Signs) /\ screen' = text \o <<"own">>
  <2>1. text \in Seq(Signs)
    BY PillTyped
  <2> QED BY <1>2, <2>1, Written, AppendIsConcat
<1>6. RunOf(screen') = <<>>
  BY <1>2, <1>5, RunBehind
<1>7. Len(screen) - Len(word) + Len(p) + 1 <= profile.room
  <2>1. profile.room \in Nat
    BY WhoTyped DEF TypingTyped, TypingTypeOK
  <2>2. Len(screen) + (2 + Len(p)) <= profile.room
    BY <1>1 DEF Room
  <2> QED BY <1>3, <1>4, <2>1, <2>2
<1>8. ASSUME Uses("backspace")
      PROVE  /\ screen' = DropLast(screen, Len(word)) \o p \o <<"own">>
             /\ ctx' = Capped(ctx \o p \o <<"sp">>, profile.pillCap)
  <2>1. Walkable
    BY <1>8 DEF MirrorInv, Walkable
  <2>2. OwedSpace = <<>> /\ OwedInContext = ctx
    BY <2>1 DEF Walkable, OwedSpace, OwedInContext
  <2> DEFINE base == DropLast(screen, Len(word))
  <2>3. base \in Seq(Signs) /\ screen = base \o word
    BY <2>1, BaseSeen
  <2>4. CASE text = base \o OwedSpace \o p
    <3>1. base \o OwedSpace = base
      BY <2>2, <2>3, ConcatEmptySeq
    <3> QED BY <1>1, <1>5, <2>2, <2>4, <3>1
  <2>5. CASE IsPrefix(word, p) /\ text = screen \o OwedSpace \o SubSeq(p, Len(word) + 1, Len(p))
    <3> DEFINE t == SubSeq(p, Len(word) + 1, Len(p))
    <3>1. Len(word) \in 0..Len(p) /\ SubSeq(p, 1, Len(word)) = word
      BY <1>3, <1>4, <2>5, SubSeqFull DEF IsPrefix
    <3>2. t \in Seq(Signs) /\ p = SubSeq(p, 1, Len(word)) \o t
      <4>1. p \in Seq(Signs)
        BY <1>4
      <4>2. t \in Seq(Signs)
        BY <3>1, <4>1, CutTyped
      <4> QED BY <3>1, <4>1, <4>2, Rejoined
    <3>3. p = word \o t
      BY <3>1, <3>2
    <3>4. screen \o OwedSpace = screen
      BY <1>3, <2>2, ConcatEmptySeq
    <3> HIDE DEF t, base
    <3>5. (base \o word) \o t = base \o (word \o t)
      <4>1. base \in Seq(Signs) /\ word \in Seq(Signs) /\ t \in Seq(Signs)
        BY <1>3, <2>3, <3>2
      <4> QED BY <4>1, ConcatAssociative
    <3>6. text = base \o p
      BY <2>3, <2>5, <3>3, <3>4, <3>5 DEF t
    <3> QED BY <1>1, <1>5, <2>2, <3>6 DEF base
  <2> QED BY <2>4, <2>5 DEF PillText
<1> QED BY <1>1, <1>4, <1>6, <1>7, <1>8, CommittedWord

\* The last space of a text without marks is where its last word begins.
LEMMA SpaceIsBreak ==
    ASSUME NEW c \in Seq(Plain)
    PROVE  /\ SpaceAt(c) \in 0..Len(c)
           /\ RunOf(c) = SubSeq(c, SpaceAt(c) + 1, Len(c))
<1>1. SpaceAt(c) \in 0..Len(c)
  BY LastPlaces
<1>2. \A i \in 1..Len(c) : c[i] \notin WordChars <=> c[i] = "sp"
  <2> TAKE i \in 1..Len(c)
  <2>1. c[i] \in Plain
    OBVIOUS
  <2> QED BY <2>1 DEF Plain, WordChars, Letters
<1>3. {i \in 1..Len(c) : c[i] \notin WordChars} = {i \in 1..Len(c) : c[i] = "sp"}
  BY <1>2
<1>4. SpaceAt(c) = SelectLastInSeq(c, LAMBDA x : x \notin WordChars)
  BY <1>3, Zenon DEF SpaceAt, SelectLastInSeq
<1>5. RunOf(c) = SubSeq(c, SpaceAt(c) + 1, Len(c))
  BY <1>4, Zenon DEF RunOf
<1> QED BY <1>1, <1>5

\* Taking from the end of two texts takes from the second one.
LEMMA DropConcat ==
    ASSUME NEW S, NEW q \in Seq(S), NEW t \in Seq(S), NEW n \in 0..Len(t)
    PROVE  DropLast(q \o t, n) = q \o DropLast(t, n)
<1> DEFINE g == q \o t
           d == DropLast(t, n)
           l == DropLast(g, n)
<1>1. /\ g \in Seq(S) /\ Len(g) = Len(q) + Len(t)
      /\ \A i \in 1 .. Len(q) + Len(t) : g[i] = IF i <= Len(q) THEN q[i] ELSE t[i - Len(q)]
  BY ConcatProperties
<1> HIDE DEF g
<1>2. d \in Seq(S) /\ Len(d) = Len(t) - n /\ \A i \in 1..(Len(t) - n) : d[i] = t[i]
  BY Fronts
<1>3. n \in 0..Len(g)
  BY <1>1
<1>4. l \in Seq(S) /\ Len(l) = Len(g) - n /\ \A i \in 1..(Len(g) - n) : l[i] = g[i]
  BY <1>1, <1>3, Fronts
<1> HIDE DEF d, l
<1>5. /\ q \o d \in Seq(S) /\ Len(q \o d) = Len(q) + Len(d)
      /\ \A i \in 1 .. Len(q) + Len(d) : (q \o d)[i] = IF i <= Len(q) THEN q[i] ELSE d[i - Len(q)]
  BY <1>2, ConcatProperties
<1>6. Len(q) \in Nat /\ Len(t) \in Nat /\ n \in Nat
  OBVIOUS
<1>7. Len(l) = Len(q \o d)
  BY <1>1, <1>2, <1>4, <1>5, <1>6
<1>8. \A i \in 1..Len(l) : l[i] = (q \o d)[i]
  <2> TAKE i \in 1..Len(l)
  <2>1. i \in 1..(Len(g) - n) /\ i \in 1..(Len(q) + Len(t)) /\ i \in 1..(Len(q) + Len(d))
    BY <1>1, <1>2, <1>4, <1>6
  <2>2. l[i] = g[i]
    BY <1>4, <2>1
  <2>3. CASE i <= Len(q)
    BY <1>1, <1>5, <2>1, <2>2, <2>3
  <2>4. CASE ~(i <= Len(q))
    <3>1. i - Len(q) \in 1..(Len(t) - n)
      BY <1>2, <1>6, <2>1, <2>4
    <3> QED BY <1>1, <1>2, <1>5, <2>1, <2>2, <2>4, <3>1
  <2> QED BY <2>3, <2>4
<1>9. l = q \o d
  BY <1>4, <1>5, <1>7, <1>8, SeqEqual
<1> QED BY <1>9 DEF g, d, l

\* Backspace inside the word, or back over the space before it.
LEMMA BackspaceMirrors ==
    ASSUME TypingTyped, Tracked, MirrorInv, Backspace
    PROVE  MirrorInv'
<1>1. /\ Uses("backspace") /\ screen # <<>> /\ screen' = DropLast(screen, 1)
      /\ deferred' = "none" /\ profile' = profile /\ taught' = taught /\ taught # "tail"
  BY DEF Backspace, MirrorInv
<1>2. Walkable /\ Len(screen) <= profile.room
  BY <1>1 DEF MirrorInv, Walkable
<1>3. /\ screen \in Seq(Signs) /\ 1 \in 0..Len(screen) /\ Len(screen) \in Nat
      /\ word = RunOf(screen) /\ ctx \o word = SeenOf(screen) /\ ctx \in Seq(Plain)
      /\ ctx \in Text /\ word \in Text
  <2>1. screen \in Seq(Signs)
    BY PartsTyped
  <2>2. Len(screen) \in Nat \ {0}
    BY <1>1, <2>1, EmptySeq
  <2> QED BY <1>2, <2>1, <2>2, PartsTyped DEF Walkable
<1>4. /\ screen' \in Seq(Signs) /\ Len(screen') = Len(screen) - 1
      /\ SeenOf(screen') = DropLast(SeenOf(screen), 1)
  BY <1>1, <1>3, Fronts, SeenDrop
<1>5. Len(screen') <= profile.room
  <2>1. profile.room \in Nat
    BY WhoTyped DEF TypingTyped, TypingTypeOK
  <2> QED BY <1>2, <1>3, <1>4, <2>1
<1>6. CASE word # <<>>
  <2>1. word' = DropLast(word, 1) /\ ctx' = ctx
    BY <1>6 DEF Backspace
  <2>2. word \in Seq(Chars) /\ ctx \in Seq(Chars) /\ 1 \in 0..Len(word)
    <3>1. Len(word) \in Nat \ {0}
      BY <1>3, <1>6, EmptySeq DEF Text
    <3> QED BY <1>3, <3>1 DEF Text
  <2>3. word' = RunOf(screen')
    BY <1>1, <1>3, <2>1, <2>2, RunShrinks
  <2>4. ctx \o DropLast(word, 1) = DropLast(ctx \o word, 1)
    BY <2>2, DropConcat
  <2>5. ctx' \o word' = SeenOf(screen')
    BY <1>3, <1>4, <2>1, <2>4
  <2> QED BY <1>1, <1>3, <1>5, <2>1, <2>3, <2>5 DEF MirrorInv, Uses
<1>7. CASE word = <<>>
  <2> DEFINE c == DropLast(ctx, 1)
  <2>1. ctx' = SubSeq(c, 1, SpaceAt(c)) /\ word' = SubSeq(c, SpaceAt(c) + 1, Len(c))
    BY <1>7 DEF Backspace, Rehydrate
  <2>2. ctx = SeenOf(screen)
    BY <1>3, <1>7, ConcatEmptySeq
  <2>3. c \in Seq(Plain) /\ c = SeenOf(screen')
    BY <1>3, <1>4, <2>2, DropTyped
  <2> HIDE DEF c
  <2>4. SpaceAt(c) \in 0..Len(c) /\ word' = RunOf(c)
    BY <2>1, <2>3, SpaceIsBreak
  <2>5. ctx' \in Seq(Plain) /\ ctx' \o word' = c
    BY <2>1, <2>3, <2>4, CutTyped, Rejoined
  <2>6. word' = RunOf(screen')
    BY <1>4, <2>3, <2>4, SeenRun
  <2> QED BY <1>1, <1>5, <2>3, <2>5, <2>6 DEF MirrorInv, Uses
<1> QED BY <1>6, <1>7

\* A reset: either no word was cut, or the flag says so.
LEMMA ResetsMirror ==
    ASSUME TypingTyped, Tracked, MirrorInv, OutsideClick \/ CaretLeaves
    PROVE  MirrorInv'
<1>1. /\ profile' = profile /\ word' = <<>> /\ ctx' = <<>> /\ deferred' = "none"
      /\ taught' = taught /\ taught # "tail" /\ lost' = (word # <<>>)
  BY DEF OutsideClick, CaretLeaves, ResetContext, MarkLost, MirrorInv
<1>2. CASE OutsideClick
  <2>1. ~(lost /\ word = <<>>) /\ Uses("click")
    BY <1>2, NoWordlessKeys DEF OutsideClick
  <2>2. ~Uses("backspace") /\ screen' = screen
    BY <1>2, <2>1, WhoErases DEF OutsideClick
  <2>3. lost' \/ word' = RunOf(screen')
    BY <1>1, <2>1, <2>2 DEF MirrorInv
  <2> QED BY <1>1, <2>2, <2>3 DEF MirrorInv, Uses
<1>3. CASE CaretLeaves
  <2>1. screen' = <<>>
    BY <1>3 DEF CaretLeaves
  <2>2. RunOf(screen') = <<>>
    BY <2>1, RunOfNone
  <2>3. <<>> \in Seq(Plain) /\ <<>> \in Text /\ Len(<<>>) = 0
    BY JoinsTyped DEF Text
  <2>4. SeenOf(screen') = <<>>
    BY <2>1, <2>3, SeenPlain
  <2>5. profile.room \in Nat
    BY WhoTyped DEF TypingTyped, TypingTypeOK
  <2>6. Len(screen') <= profile.room
    BY <2>1, <2>3, <2>5
  <2> QED BY <1>1, <2>2, <2>3, <2>4, <2>6, EndedWord
<1> QED BY <1>2, <1>3

\* A snippet ends the word; a dictated phrase is not tracked.
LEMMA InsertsMirror ==
    ASSUME TypingTyped, Tracked, MirrorInv, InsertSnippet \/ InsertSpoken
    PROVE  MirrorInv'
<1>1. InsertSnippet /\ Uses("snippet") /\ ~Uses("backspace")
  BY NoWordlessKeys, WhoErases DEF InsertSnippet, InsertSpoken
<1>2. /\ profile' = profile /\ word' = <<>> /\ taught' = taught /\ taught # "tail"
      /\ screen' = screen \o OwedSpace \o SnippetText
  BY <1>1 DEF InsertSnippet, MirrorInv
<1>3. SnippetText \in Seq(Signs) /\ SnippetText # <<>> /\ Last(SnippetText) \notin WordChars
  BY <1>1, ConstantsTyped DEF Tracked
<1> DEFINE q == screen \o OwedSpace
           r == q \o SnippetText
<1>4. q \in Seq(Signs)
  BY PartsTyped, JoinsTyped
<1> HIDE DEF q
<1>5. /\ r \in Seq(Signs) /\ Len(r) = Len(q) + Len(SnippetText)
      /\ \A i \in 1 .. Len(q) + Len(SnippetText) :
            r[i] = IF i <= Len(q) THEN q[i] ELSE SnippetText[i - Len(q)]
  BY <1>3, <1>4, ConcatProperties
<1> HIDE DEF r
<1>6. Len(SnippetText) \in Nat \ {0} /\ Len(q) \in Nat
  BY <1>3, <1>4, EmptySeq
<1>7. r[Len(r)] = SnippetText[Len(SnippetText)]
  <2>1. /\ Len(r) \in 1 .. (Len(q) + Len(SnippetText)) /\ ~(Len(r) <= Len(q))
        /\ Len(r) - Len(q) = Len(SnippetText)
    BY <1>5, <1>6
  <2> QED BY <1>5, <2>1
<1>8. RunOf(r) = <<>>
  BY <1>3, <1>5, <1>7, RunEnds DEF Last
<1>9. RunOf(screen') = <<>>
  BY <1>2, <1>8 DEF q, r
<1> QED BY <1>1, <1>2, <1>9, EndedWord

\* Every action of the mirror keeps the mirror true.
LEMMA TypingMirrors ==
    ASSUME TypingTyped, MirrorInv, TypingNext
    PROVE  MirrorInv'
<1>1. profile' = profile
  BY DEF TypingNext, Mark, EndSentence, Comma, ChordDot, Letter, Digit, Glyph, Space, Return, Backspace,
         OutsideClick, CaretLeaves, ResetContext, Pill, EditPrediction, InsertSnippet, InsertSpoken
<1>2. SUFFICES ASSUME Tracked PROVE MirrorInv'
  <2>1. Tracked' => Tracked
    BY <1>1 DEF Tracked, Uses, Roomy
  <2> QED BY <2>1 DEF MirrorInv
<1>3. \/ (\E c \in Letters : Letter(c)) \/ Digit
      \/ EndSentence \/ Comma \/ ChordDot \/ (\E g \in Glyphs : Glyph(g))
      \/ Space \/ Return \/ Backspace \/ OutsideClick \/ CaretLeaves
      \/ (\E p \in PillWords : Pill(p) \/ EditPrediction(p)) \/ InsertSnippet \/ InsertSpoken
  BY DEF TypingNext, Mark
<1> QED BY <1>2, <1>3, LetterMirrors, MarksMirror, ChordMirrors, SpaceMirrors, BackspaceMirrors, ResetsMirror,
           PillMirrors, EditMirrors, InsertsMirror

-----------------------------------------------------------------------------
(* The run being typed, the text and the bar.                              *)

\* The run is the end of the text, and a space of the keyboard's own ends it.
EndsIn(s, t) == \E q \in Seq(Signs) : s = q \o t

RunStands ==
    /\ EndsIn(screen, raw)
    /\ auto => raw = <<>>

\* Users whose run outlives neither the buffer nor a mark.
KeepsTokens == Uses("backspace") => ~Uses("dot") /\ Roomy

\* What is erased of the run is erased from the mirror.
RunMirrored == KeepsTokens /\ Uses("backspace") => Len(raw) <= Len(ctx) + Len(word)

\* Nothing has no places.
LEMMA EmptyDomain == DOMAIN <<>> = {}
OBVIOUS

\* Every text ends in an empty run.
LEMMA NoRun ==
    ASSUME NEW s \in Seq(Signs)
    PROVE  EndsIn(s, <<>>)
BY ConcatEmptySeq DEF EndsIn

\* A character typed on the run joins it at the end of the text.
LEMMA RunTypedOn ==
    ASSUME NEW s \in Seq(Signs), NEW t \in Seq(Signs), NEW c \in Signs, EndsIn(s, t)
    PROVE  /\ EndsIn(s \o <<c>>, Append(t, c)) /\ EndsIn(Append(s, c), Append(t, c))
           /\ EndsIn(s \o <<c>>, <<c>>)
<1>1. PICK q \in Seq(Signs) : s = q \o t
  BY DEF EndsIn
<1>2. <<c>> \in Seq(Signs)
  BY JoinsTyped
<1>3. Append(t, c) = t \o <<c>> /\ Append(s, c) = s \o <<c>>
  BY AppendIsConcat
<1>4. (q \o t) \o <<c>> = q \o (t \o <<c>>)
  BY <1>2, ConcatAssociative
<1> QED BY <1>1, <1>3, <1>4 DEF EndsIn

\* What is erased of the text is erased of the run.
LEMMA RunErased ==
    ASSUME NEW s \in Seq(Signs), NEW t \in Seq(Signs), EndsIn(s, t), NEW n \in Nat
    PROVE  EndsIn(DropLast(s, n), DropLast(t, n))
<1>1. PICK q \in Seq(Signs) : s = q \o t
  BY DEF EndsIn
<1>2. CASE n <= Len(t)
  <2>1. n \in 0..Len(t)
    BY <1>2
  <2>2. DropLast(s, n) = q \o DropLast(t, n)
    BY <1>1, <2>1, DropConcat
  <2> QED BY <2>2 DEF EndsIn
<1>3. CASE ~(n <= Len(t))
  <2>1. DropLast(t, n) \in Seq(Signs) /\ Len(DropLast(t, n)) = 0
    BY <1>3, DropTyped
  <2>2. DropLast(t, n) = <<>>
    BY <2>1, EmptySeq
  <2> QED BY <2>2, DropTyped, NoRun
<1> QED BY <1>2, <1>3

\* What is typed behind the run joins it.
LEMMA RunJoined ==
    ASSUME NEW s \in Seq(Signs), NEW t \in Seq(Signs), EndsIn(s, t), NEW p \in Seq(Signs)
    PROVE  EndsIn(s \o p, t \o p)
<1>1. PICK q \in Seq(Signs) : s = q \o t
  BY DEF EndsIn
<1>2. (q \o t) \o p = q \o (t \o p)
  BY ConcatAssociative
<1> QED BY <1>1, <1>2 DEF EndsIn

\* A run is no longer than the text.
LEMMA RunShorter ==
    ASSUME NEW s \in Seq(Signs), NEW t \in Seq(Signs), EndsIn(s, t)
    PROVE  Len(t) <= Len(s)
<1>1. PICK q \in Seq(Signs) : s = q \o t
  BY DEF EndsIn
<1>2. Len(s) = Len(q) + Len(t) /\ Len(q) \in Nat /\ Len(t) \in Nat
  BY <1>1, ConcatProperties
<1> QED BY <1>2

\* Every action of the mirror keeps the run at the end of the text.
LEMMA TypingKeepsRun ==
    ASSUME TypingTyped, RunStands, TypingNext
    PROVE  RunStands'
<1>1. /\ screen \in Seq(Signs) /\ raw \in Seq(Signs) /\ raw \in Text /\ EndsIn(screen, raw)
      /\ screen' \in Seq(Signs) /\ Kept(screen) \in Seq(Signs)
  BY TypingStepTyped, PartsTyped DEF RunStands, TypingTyped, TypingTypeOK
<1>2. ASSUME raw' = <<>> PROVE RunStands'
  BY <1>1, <1>2, NoRun DEF RunStands
<1>3. ASSUME NEW c \in Signs, auto' = FALSE, screen' = Append(screen, c) \/ screen' = screen \o <<c>>,
             raw' = Append(raw, c)
      PROVE  RunStands'
  BY <1>1, <1>3, RunTypedOn DEF RunStands
<1>4. ASSUME NEW c \in Letters, Letter(c) PROVE RunStands'
  <2>1. c \in Signs /\ <<c>> \in Seq(Signs)
    BY Written, JoinsTyped
  <2>2. CASE deferred = "none"
    <3>1. screen \o OwedSpace = screen
      BY <1>1, <2>2, ConcatEmptySeq DEF OwedSpace
    <3> QED BY <1>3, <1>4, <2>1, <2>2, <3>1 DEF Letter
  <2>3. CASE deferred # "none"
    <3>1. screen' = (screen \o OwedSpace) \o <<c>> /\ raw' = <<c>> /\ auto' = FALSE
      BY <1>4, <2>3 DEF Letter
    <3>2. screen \o OwedSpace \in Seq(Signs)
      BY PartsTyped, JoinsTyped
    <3> QED BY <2>1, <3>1, <3>2 DEF RunStands, EndsIn
  <2> QED BY <2>2, <2>3
<1>5. CASE Digit
  BY <1>3, <1>5, Written DEF Digit
<1>6. ASSUME NEW g \in Glyphs, Glyph(g) PROVE RunStands'
  BY <1>3, <1>6, Written DEF Glyph
<1>7. ASSUME NEW m \in {".", ","},
             Suppressed(m) => screen' = Append(Kept(screen), m) /\ raw' = Append(raw, m) /\ auto' = FALSE,
             ~Suppressed(m) => raw' = <<>>
      PROVE  RunStands'
  <2>1. CASE Suppressed(m)
    <3>1. raw # <<>>
      <4>1. DOMAIN <<>> = {}
        BY EmptyDomain
      <4> QED BY <2>1, <4>1, Zenon DEF Suppressed, Numeric
    <3>2. Kept(screen) = screen
      BY <3>1 DEF Kept, Elides, RunStands
    <3>3. m \in Signs
      BY Written
    <3> QED BY <1>3, <1>7, <2>1, <3>2, <3>3
  <2> QED BY <1>2, <1>7, <2>1
<1>8. CASE EndSentence
  BY <1>7, <1>8 DEF EndSentence
<1>9. CASE Comma
  BY <1>7, <1>9 DEF Comma
<1>10. CASE ChordDot
  <2>1. raw' = raw /\ auto' = FALSE
    BY <1>10 DEF ChordDot
  <2>2. CASE Elides
    BY <1>2, <2>1, <2>2 DEF Elides, RunStands
  <2>3. CASE ~Elides
    BY <1>1, <1>10, <2>1, <2>3 DEF ChordDot, RunStands
  <2> QED BY <2>2, <2>3
<1>11. CASE Backspace
  <2>1. EndsIn(DropLast(screen, 1), DropLast(raw, 1))
    BY <1>1, RunErased
  <2> QED BY <1>11, <2>1 DEF Backspace, RunStands
<1>12. CASE Space \/ Return \/ OutsideClick \/ CaretLeaves \/ InsertSnippet \/ InsertSpoken
  BY <1>2, <1>12 DEF Space, Return, OutsideClick, CaretLeaves, ResetContext, InsertSnippet, InsertSpoken
<1>13. ASSUME NEW p \in PillWords, Pill(p) \/ EditPrediction(p) PROVE RunStands'
  BY <1>2, <1>13 DEF Pill, EditPrediction
<1> QED BY <1>4, <1>5, <1>6, <1>8, <1>9, <1>10, <1>11, <1>12, <1>13 DEF TypingNext, Mark

\* What the buffer holds of k characters it was given, when k fit.
LEMMA RoomLeft ==
    ASSUME TypingTyped, NEW q \in Text, NEW k \in Nat, k <= Len(q), k <= profile.cap
    PROVE  /\ Capped(q, profile.cap) \in Text /\ k <= Len(Capped(q, profile.cap))
<1>0. profile \in Profiles
  BY DEF TypingTyped, TypingTypeOK
<1>1. profile.cap \in Nat /\ Len(q) \in Nat
  BY <1>0, WhoTyped DEF Text
<1> QED BY <1>1, CappedTyped DEF Text

\* A boundary character that joins the run joins the buffer too.
LEMMA RunMarked ==
    ASSUME TypingTyped, RunStands, RunMirrored, KeepsTokens, Uses("backspace"), NEW c \in Chars, Room(1),
           raw' = Append(raw, c), ctx' = Capped(ctx \o word \o <<c>>, profile.cap), word' = <<>>
    PROVE  Len(raw') <= Len(ctx') + Len(word')
<1>1. /\ raw \in Text /\ ctx \in Text /\ word \in Text /\ Len(raw) \in Nat /\ Len(ctx) \in Nat
      /\ Len(word) \in Nat /\ Len(screen) \in Nat
  BY PartsTyped DEF Text
<1>2. Len(raw) <= Len(ctx) + Len(word)
  BY DEF RunMirrored
<1>3. Len(raw) <= Len(screen)
  BY PartsTyped, RunShorter DEF RunStands
<1>p. profile \in Profiles
  BY DEF TypingTyped, TypingTypeOK
<1>4. profile.room <= profile.cap /\ profile.room \in Nat /\ profile.cap \in Nat
  BY <1>p, WhoTyped DEF KeepsTokens, Roomy
<1> DEFINE q == ctx \o word \o <<c>>
<1>5. q \in Text /\ Len(q) = Len(ctx) + Len(word) + 1
  BY <1>1, JoinsTyped DEF Text
<1>6. ctx' = Capped(q, profile.cap)
  OBVIOUS
<1> HIDE DEF q
<1>7. Len(raw) + 1 \in Nat /\ Len(raw) + 1 <= Len(q) /\ Len(raw) + 1 <= profile.cap
  BY <1>1, <1>2, <1>3, <1>4, <1>5 DEF Room
<1>8. ctx' \in Text /\ Len(raw) + 1 <= Len(ctx')
  BY <1>5, <1>6, <1>7, RoomLeft
<1>9. Len(raw') = Len(raw) + 1 /\ Len(word') = 0 /\ Len(ctx') \in Nat
  BY <1>1, <1>8, JoinsTyped DEF Text
<1> QED BY <1>1, <1>8, <1>9

\* Every action of the mirror keeps as much before the caret as the run has.
LEMMA TypingKeepsMirror ==
    ASSUME TypingTyped, RunStands, RunMirrored, TypingNext
    PROVE  RunMirrored'
<1>0. profile' = profile
  BY DEF TypingNext, Mark, EndSentence, Comma, ChordDot, Letter, Digit, Glyph, Space, Return, Backspace,
         OutsideClick, CaretLeaves, ResetContext, Pill, EditPrediction, InsertSnippet, InsertSpoken
<1>1. SUFFICES ASSUME KeepsTokens, Uses("backspace") PROVE Len(raw') <= Len(ctx') + Len(word')
  BY <1>0 DEF RunMirrored, KeepsTokens, Uses, Roomy
<1>2. /\ raw \in Text /\ ctx \in Text /\ word \in Text /\ Len(raw) \in Nat /\ Len(ctx) \in Nat
      /\ Len(word) \in Nat /\ Len(screen) \in Nat
  BY PartsTyped DEF Text
<1>p. profile \in Profiles /\ raw' \in Text /\ ctx' \in Text /\ word' \in Text
  BY TypingStepTyped DEF TypingTyped, TypingTypeOK
<1>3. /\ raw' \in Text /\ ctx' \in Text /\ word' \in Text /\ Len(raw') \in Nat /\ Len(ctx') \in Nat
      /\ Len(word') \in Nat
  BY <1>p DEF Text
<1>4. Len(raw) <= Len(ctx) + Len(word)
  BY <1>1 DEF RunMirrored
<1>5. ASSUME raw' = <<>> PROVE Len(raw') <= Len(ctx') + Len(word')
  BY <1>3, <1>5, JoinsTyped
<1>6. ASSUME NEW c \in Chars, word' = Append(word, c), raw' = Append(raw, c), ctx' = ctx
      PROVE  Len(raw') <= Len(ctx') + Len(word')
  <2>1. Len(raw') = Len(raw) + 1 /\ Len(word') = Len(word) + 1
    BY <1>2, <1>6, JoinsTyped DEF Text
  <2> QED BY <1>2, <1>4, <1>6, <2>1
<1>7. ASSUME NEW c \in Letters, Letter(c) PROVE Len(raw') <= Len(ctx') + Len(word')
  <2>1. c \in Chars /\ word' = Append(word, c)
    BY <1>7, Written DEF Letter
  <2>2. CASE deferred = "none"
    BY <1>6, <1>7, <2>1, <2>2 DEF Letter, OwedInContext
  <2>3. CASE deferred # "none"
    <3>1. raw' = <<c>>
      BY <1>7, <2>3 DEF Letter
    <3>2. Len(raw') = 1 /\ Len(word') = Len(word) + 1
      BY <1>2, <2>1, <3>1, JoinsTyped DEF Text
    <3> QED BY <1>2, <1>3, <3>2
  <2> QED BY <2>2, <2>3
<1>8. CASE Digit
  BY <1>6, <1>8, Written DEF Digit
<1>9. ASSUME NEW g \in Glyphs, Glyph(g) PROVE Len(raw') <= Len(ctx') + Len(word')
  BY <1>1, <1>9, Written, RunMarked DEF Glyph
<1>10. CASE Comma
  <2>1. CASE Suppressed(",")
    <3>1. raw # <<>>
      BY <2>1, EmptyDomain, Zenon DEF Suppressed, Numeric
    <3>2. Kept(ctx) = ctx
      BY <3>1 DEF Kept, Elides, RunStands
    <3>3. /\ raw' = Append(raw, ",") /\ ctx' = Capped(Kept(ctx) \o word \o <<",">>, profile.cap)
          /\ word' = <<>>
      BY <1>10, <2>1 DEF Comma
    <3>4. Room(1)
      <4>1. Len(screen) + 2 <= profile.room
        BY <1>10 DEF Comma, Room
      <4>2. profile.room \in Nat
        BY <1>p, WhoTyped
      <4> QED BY <1>2, <4>1, <4>2 DEF Room
    <3>5. "," \in Chars
      BY Written
    <3> QED BY <1>1, <3>2, <3>3, <3>4, <3>5, RunMarked
  <2>2. CASE ~Suppressed(",")
    BY <1>5, <1>10, <2>2 DEF Comma
  <2> QED BY <2>1, <2>2
<1>11. ~EndSentence
  BY <1>1 DEF EndSentence, KeepsTokens
<1>12. CASE ChordDot
  <2>1. CASE Elides
    BY <1>5, <1>12, <2>1 DEF ChordDot, Elides, RunStands
  <2>2. CASE ~Elides
    <3>1. raw' = raw /\ ctx' = ctx /\ word' = word
      BY <1>12, <2>2 DEF ChordDot, Kept
    <3> QED BY <1>4, <3>1
  <2> QED BY <2>1, <2>2
<1>13. CASE Backspace
  <2>1. /\ raw' = DropLast(raw, 1) /\ Len(raw') = IF 1 <= Len(raw) THEN Len(raw) - 1 ELSE 0
    BY <1>2, <1>13, DropTyped DEF Backspace, Text
  <2>2. CASE word # <<>>
    <3>1. word' = DropLast(word, 1) /\ ctx' = ctx
      BY <1>13, <2>2 DEF Backspace
    <3>2. Len(word') = IF 1 <= Len(word) THEN Len(word) - 1 ELSE 0
      BY <1>2, <3>1, DropTyped DEF Text
    <3>3. Len(word) # 0
      BY <1>2, <2>2, EmptySeq DEF Text
    <3> QED BY <1>2, <1>4, <2>1, <3>1, <3>2, <3>3
  <2>3. CASE word = <<>>
    <3> DEFINE c == DropLast(ctx, 1)
    <3>1. Rehydrate(c)
      BY <1>13, <2>3 DEF Backspace
    <3>2. c \in Text /\ c \in Seq(Chars) /\ Len(c) = IF 1 <= Len(ctx) THEN Len(ctx) - 1 ELSE 0
      BY <1>2, DropTyped DEF Text
    <3> HIDE DEF c
    <3>3. SpaceAt(c) \in 0..Len(c) /\ Len(c) \in Nat
      BY <3>2, LastPlaces
    <3>4. ctx' = SubSeq(c, 1, SpaceAt(c)) /\ word' = SubSeq(c, SpaceAt(c) + 1, Len(c))
      BY <3>1 DEF Rehydrate
    <3>5. Len(ctx') = SpaceAt(c)
      BY <3>2, <3>3, <3>4, CutTyped
    <3>6. Len(word') = Len(c) - SpaceAt(c)
      BY <3>2, <3>3, <3>4, Tails
    <3>7. Len(word) = 0
      BY <2>3, JoinsTyped
    <3> QED BY <1>2, <1>4, <2>1, <3>2, <3>3, <3>5, <3>6, <3>7
  <2> QED BY <2>2, <2>3
<1>14. CASE Space \/ Return \/ OutsideClick \/ CaretLeaves \/ InsertSnippet \/ InsertSpoken
  BY <1>5, <1>14 DEF Space, Return, OutsideClick, CaretLeaves, ResetContext, InsertSnippet, InsertSpoken
<1>15. ASSUME NEW p \in PillWords, Pill(p) \/ EditPrediction(p) PROVE Len(raw') <= Len(ctx') + Len(word')
  BY <1>5, <1>15 DEF Pill, EditPrediction
<1> QED BY <1>7, <1>8, <1>9, <1>10, <1>11, <1>12, <1>13, <1>14, <1>15 DEF TypingNext, Mark

-----------------------------------------------------------------------------
(* The bar and the run.                                                    *)

\* Every nonempty set of positive numbers has a least.
LEMMA Least ==
    ASSUME NEW n \in Nat, NEW T \in SUBSET (1..n), T # {}
    PROVE  Min(T) \in T /\ \A y \in T : Min(T) <= y
<1> DEFINE R == {p \in Nat \X Nat : p[1] < p[2]}
<1>1. IsWellFoundedOn(R, Nat)
  BY NatLessThanWellFounded DEF OpToRel
<1>2. \A x, y \in Nat : x < y => <<x, y>> \in R
  OBVIOUS
<1> HIDE DEF R
<1>3. T \in SUBSET Nat
  OBVIOUS
<1>4. PICK l \in T : \A y \in T : ~ (<<y, l>> \in R)
  BY <1>1, <1>3, WFMin
<1>5. \A y \in T : l <= y
  <2> TAKE y \in T
  <2>1. y \in Nat /\ l \in Nat
    BY <1>4
  <2>2. ~(y < l)
    BY <1>2, <1>4, <2>1
  <2> QED BY <2>1, <2>2
<1> QED BY <1>4, <1>5 DEF Min

\* An address is in progress where an "@" stands behind something and no
\* comma stands before it.
LEMMA AddressIs ==
    ASSUME NEW r \in Text
    PROVE  InAddress(r) <=> \E k \in 2..Len(r) : /\ r[k] = "@"
                                                 /\ \A i \in 1..(k - 1) : r[i] # "," /\ r[i] # "@"
<1> DEFINE at == "@"
           comma == ","
           I == {i \in 1..Len(r) : r[i] = at}
           first == IF I # {} THEN Min(I) ELSE 0
<1>1. Len(r) \in Nat
  BY DEF Text
<1>2. InAddress(r) <=> first > 1 /\ \A i \in 1..(first - 1) : r[i] # comma
  BY Zenon DEF InAddress, SelectInSeq
<1>0. SUFFICES InAddress(r) <=> \E k \in 2..Len(r) : /\ r[k] = at
                                                   /\ \A i \in 1..(k - 1) : r[i] # comma /\ r[i] # at
  BY Zenon
<1> HIDE DEF at, comma
<1>3. I \in SUBSET (1..Len(r)) /\ \A i \in 1..Len(r) : r[i] = at => i \in I
  OBVIOUS
<1>4. \A i \in I : r[i] = at
  OBVIOUS
<1>5. I # {} => first = Min(I)
  OBVIOUS
<1>6. I = {} => first = 0
  OBVIOUS
<1> HIDE DEF I, first
<1>7. I # {} => first \in I /\ \A y \in I : first <= y
  BY <1>1, <1>3, <1>5, Least
<1>8. ASSUME first > 1, \A i \in 1..(first - 1) : r[i] # comma
      PROVE  \E k \in 2..Len(r) : r[k] = at /\ \A i \in 1..(k - 1) : r[i] # comma /\ r[i] # at
  <2>1. I # {}
    BY <1>6, <1>8
  <2>2. first \in 2..Len(r) /\ r[first] = at
    <3>1. first \in 1..Len(r) /\ r[first] = at
      BY <1>3, <1>4, <1>7, <2>1
    <3> QED BY <1>1, <1>8, <3>1
  <2>3. \A i \in 1..(first - 1) : r[i] # at
    BY <1>1, <1>3, <1>7, <2>1, <2>2
  <2> QED BY <1>8, <2>2, <2>3
<1>9. ASSUME NEW k \in 2..Len(r), r[k] = at, \A i \in 1..(k - 1) : r[i] # comma /\ r[i] # at
      PROVE  first > 1 /\ \A i \in 1..(first - 1) : r[i] # comma
  <2>1. k \in I
    BY <1>1, <1>3, <1>9
  <2>2. first \in 1..Len(r) /\ first <= k /\ r[first] = at
    BY <1>1, <1>3, <1>4, <1>7, <2>1
  <2>3. first = k
    BY <1>1, <1>9, <2>2
  <2> QED BY <1>9, <2>3
<1> QED BY <1>2, <1>8, <1>9

\* A run that offers no token offers none when its last character goes.
LEMMA ShorterOffersNone ==
    ASSUME NEW r \in Text, ~InTokenContext(r)
    PROVE  ~InTokenContext(DropLast(r, 1))
<1> DEFINE s == DropLast(r, 1)
<1>1. SUFFICES ASSUME InTokenContext(s) PROVE FALSE
  OBVIOUS
<1>2. Len(r) \in Nat /\ s \in Text /\ Len(s) = IF 1 <= Len(r) THEN Len(r) - 1 ELSE 0
  BY DropTyped DEF Text
<1>3. Len(s) >= 2 /\ Len(r) >= 2 /\ Len(s) = Len(r) - 1
  BY <1>1, <1>2 DEF InTokenContext
<1>4. \A i \in 1..Len(s) : s[i] = r[i]
  <2>1. 1 \in 0..Len(r) /\ r \in Seq(Chars)
    BY <1>2, <1>3 DEF Text
  <2>2. \A i \in 1..(Len(r) - 1) : s[i] = r[i]
    BY <2>1, Fronts
  <2> QED BY <1>3, <2>2
<1>5. DOMAIN s = 1..Len(s) /\ DOMAIN r = 1..Len(r)
  BY <1>2 DEF Text
<1> HIDE DEF s
<1>6. HasDigit(s) => HasDigit(r)
  BY <1>2, <1>3, <1>4, <1>5 DEF HasDigit
<1>7. InAddress(s) => InAddress(r)
  <2> DEFINE at == "@"
             comma == ","
  <2>1. SUFFICES ASSUME NEW k \in 2..Len(s), s[k] = at,
                        \A i \in 1..(k - 1) : s[i] # comma /\ s[i] # at
                 PROVE  \E j \in 2..Len(r) : /\ r[j] = at
                                             /\ \A i \in 1..(j - 1) : r[i] # comma /\ r[i] # at
    BY <1>2, AddressIs
  <2> HIDE DEF at, comma
  <2>2. k \in 2..Len(r) /\ r[k] = at
    BY <1>2, <1>3, <1>4, <2>1
  <2>3. \A i \in 1..(k - 1) : r[i] = s[i]
    BY <1>2, <1>4
  <2> QED BY <2>1, <2>2, <2>3
<1> QED BY <1>1, <1>3, <1>6, <1>7 DEF InTokenContext

\* No run, no token.
LEMMA NothingOffersNone == ~InTokenContext(<<>>) /\ TypedOf(<<>>) = <<>>
<1>1. Len(<<>>) = 0 /\ <<>> \in Text
  BY JoinsTyped DEF Text
<1>2. At(<<>>) \in 0..0
  BY <1>1, LastPlaces DEF Text
<1> QED BY <1>1, <1>2 DEF InTokenContext, TypedOf

\* What the offered tokens continue is no longer than the run and ends it.
LEMMA TypedEndsRun ==
    ASSUME NEW r \in Text
    PROVE  /\ TypedOf(r) \in Text /\ Len(TypedOf(r)) <= Len(r)
           /\ \E q \in Text : r = q \o TypedOf(r)
<1>1. Len(r) \in Nat /\ At(r) \in 0..Len(r)
  BY LastPlaces DEF Text
<1>2. CASE At(r) > 1
  <2>1. TypedOf(r) = SubSeq(r, At(r) + 1, Len(r))
    BY <1>2 DEF TypedOf, DomainOf
  <2>2. TypedOf(r) \in Text /\ Len(TypedOf(r)) = Len(r) - At(r)
    BY <1>1, <2>1, Tails DEF Text
  <2>3. SubSeq(r, 1, At(r)) \in Text /\ r = SubSeq(r, 1, At(r)) \o TypedOf(r)
    BY <1>1, <2>1, CutTyped, Rejoined DEF Text
  <2>4. Len(TypedOf(r)) <= Len(r)
    BY <1>1, <2>2
  <2> QED BY <2>2, <2>3, <2>4, Zenon
<1>3. CASE ~(At(r) > 1)
  <2>1. TypedOf(r) = r
    BY <1>3 DEF TypedOf
  <2>2. <<>> \in Text /\ r = <<>> \o r
    BY JoinsTyped, ConcatEmptySeq DEF Text
  <2>3. Len(TypedOf(r)) <= Len(r)
    BY <1>1, <2>1
  <2> QED BY <2>1, <2>2, <2>3, Zenon
<1> QED BY <1>2, <1>3

\* Every token offered continues what was typed of it.
LEMMA OffersContinue ==
    ASSUME NEW r, NEW seen
    PROVE  \A p \in PillsFor(r, seen) : Continues(p, TypedOf(r))
BY DEF PillsFor, TypedOf

\* What the community modules call a suffix.
LEMMA SuffixIs ==
    ASSUME NEW S, NEW q \in Seq(S), NEW t \in Seq(S)
    PROVE  IsSuffix(t, q \o t)
<1> DEFINE s == q \o t
<1>1. /\ s \in Seq(S) /\ Len(s) = Len(q) + Len(t) /\ Len(q) \in Nat /\ Len(t) \in Nat
      /\ \A i \in 1..(Len(q) + Len(t)) : s[i] = IF i <= Len(q) THEN q[i] ELSE t[i - Len(q)]
  BY ConcatProperties
<1> HIDE DEF s
<1> DEFINE a == Reverse(t)
           b == Reverse(s)
<1>2. /\ a \in Seq(S) /\ Len(a) = Len(t)
      /\ \A i \in 1..Len(t) : a[i] = t[Len(t) - i + 1]
  BY <1>1 DEF Reverse
<1>3. /\ b \in Seq(S) /\ Len(b) = Len(s)
      /\ \A i \in 1..Len(s) : b[i] = s[Len(s) - i + 1]
  BY <1>1 DEF Reverse
<1> HIDE DEF a, b
<1>4. \A i \in 1..Len(t) : b[i] = a[i]
  <2> SUFFICES ASSUME NEW i \in 1..Len(t) PROVE b[i] = a[i]
    OBVIOUS
  <2>1. /\ i \in 1..Len(s) /\ Len(s) - i + 1 \in 1..(Len(q) + Len(t))
        /\ ~(Len(s) - i + 1 <= Len(q)) /\ Len(s) - i + 1 - Len(q) = Len(t) - i + 1
    BY <1>1
  <2>2. b[i] = s[Len(s) - i + 1]
    BY <1>3, <2>1
  <2>3. s[Len(s) - i + 1] = t[Len(s) - i + 1 - Len(q)]
    BY <1>1, <2>1
  <2> QED BY <1>2, <2>1, <2>2, <2>3
<1>5. Len(a) <= Len(b) /\ Len(a) \in 0..Len(b)
  BY <1>1, <1>2, <1>3
<1> DEFINE c == SubSeq(a, 1, Len(a))
           d == SubSeq(b, 1, Len(a))
<1>6. c \in Seq(S) /\ Len(c) = Len(a) /\ \A i \in 1..Len(a) : c[i] = a[i]
  BY <1>1, <1>2, SubSeqProperties
<1>7. d \in Seq(S) /\ Len(d) = Len(a) /\ \A i \in 1..Len(a) : d[i] = b[i]
  BY <1>1, <1>2, <1>3, <1>5, SubSeqProperties
<1> HIDE DEF c, d
<1>8. c = d
  <2>1. \A i \in 1..Len(c) : c[i] = d[i]
    BY <1>2, <1>4, <1>6, <1>7
  <2> QED BY <1>6, <1>7, <2>1, SeqEqual
<1> QED BY <1>5, <1>8 DEF IsSuffix, IsPrefix, a, b, c, d, s

-----------------------------------------------------------------------------
(* The bar's steps.                                                        *)

\* What is on the bar is what its refreshes make of the run and the mirror.
BarFits ==
    /\ bar.kind = "words" =>
         (Uses("chordBehindSpace") \/ bar.text = ctx \o word) /\ ~InTokenContext(raw)
    /\ bar.pills # {} => bar.kind = "tokens"
    /\ bar.kind = "tokens" /\ KeepsTokens =>
         /\ tokenPills # {} /\ bar.pills = tokenPills /\ typedRun = TypedOf(raw)
         /\ \A p \in tokenPills : Continues(p, typedRun)

\* The length of a joined text.
LEMMA JoinedLength ==
    ASSUME NEW S, NEW q \in Seq(S), NEW t \in Seq(S)
    PROVE  q \o t \in Seq(S) /\ Len(q \o t) = Len(q) + Len(t)
BY ConcatProperties

\* A step of the bar moves the mirror, drops the run, taps a token or leaves the mirror alone.
LEMMA BarSteps ==
    ASSUME [BarNext]_<<typingVars, barVars>>
    PROVE  \/ TypingNext
           \/ Delete
           \/ \E p \in bar.pills : TokenPill(p)
           \/ UNCHANGED typingVars
BY DEF BarNext, BarLetter, BarDigit, BarGlyph, BarMark, BarChord, BarSpace, BarBackspace, Recase, BarReset,
       FocusFlickers, BarPill, BarInsert, ForgetToken, TypingNext, Mark

\* No step changes who is typing.
LEMMA SameUser ==
    ASSUME [BarNext]_<<typingVars, barVars>>
    PROVE  profile' = profile /\ (Tracked' <=> Tracked) /\ (KeepsTokens' <=> KeepsTokens)
           /\ \A k \in KeyKinds : Uses(k)' <=> Uses(k)
<1>1. profile' = profile
  BY BarSteps DEF Delete, TokenPill, typingVars, TypingNext, Mark, EndSentence, Comma, ChordDot, Letter, Digit,
         Glyph, Space, Return, Backspace, OutsideClick, CaretLeaves, ResetContext, Pill, EditPrediction,
         InsertSnippet, InsertSpoken
<1> QED BY <1>1 DEF Tracked, KeepsTokens, Uses, Roomy

\* Every step keeps the mirror true.
LEMMA BarMirrors ==
    ASSUME BarTyped, MirrorInv, [BarNext]_<<typingVars, barVars>>
    PROVE  MirrorInv'
<1>1. CASE TypingNext
  BY <1>1, TypingMirrors DEF BarTyped
<1>2. CASE Delete
  BY <1>2 DEF Delete, MirrorInv, Tracked, Uses, Roomy
<1>3. ASSUME NEW p, TokenPill(p) PROVE MirrorInv'
  <2>1. ~Tracked
    BY <1>3, NoWordlessKeys DEF TokenPill
  <2> QED BY <2>1, SameUser DEF MirrorInv
<1>4. CASE UNCHANGED typingVars
  BY <1>4 DEF typingVars, MirrorInv, Tracked, Uses, Roomy
<1> QED BY <1>1, <1>2, <1>3, <1>4, BarSteps

\* A tapped token replaces what was typed of it, on screen and in the run.
LEMMA TokenKeepsRun ==
    ASSUME BarTyped, RunStands, RunMirrored, BarFits, NEW p \in bar.pills, TokenPill(p)
    PROVE  RunStands' /\ (profile' = profile => RunMirrored')
<1> DEFINE n == Len(typedRun)
           whole == DropLast(raw, n) \o p
           base == DropLast(screen, n) \o p
           trailing == IF whole \in FieldValues THEN <<>> ELSE <<"sp">>
           onScreen == IF trailing = <<>> THEN <<>> ELSE <<"own">>
<1>1. /\ screen \in Seq(Signs) /\ raw \in Text /\ raw \in Seq(Signs) /\ typedRun \in Text /\ n \in Nat
      /\ ctx \in Text /\ word \in Text /\ p \in Text /\ p \in Seq(Signs) /\ EndsIn(screen, raw)
  BY PartsTyped, ConstantsTyped DEF BarTyped, BarShape, RunStands, Text
<1>2. /\ DropLast(screen, n) \in Seq(Signs) /\ DropLast(raw, n) \in Seq(Signs) /\ DropLast(raw, n) \in Text
      /\ EndsIn(DropLast(screen, n), DropLast(raw, n))
  BY <1>1, DropTyped, RunErased DEF Text
<1>3. EndsIn(base, whole) /\ base \in Seq(Signs) /\ whole \in Text
  BY <1>1, <1>2, RunJoined, JoinsTyped DEF Text
<1>4. /\ raw' = (IF trailing = <<>> THEN whole ELSE <<>>) /\ auto' = (trailing # <<>>)
      /\ screen' = DropLast(screen, n) \o p \o onScreen /\ word' = <<>>
      /\ ctx' = Completed(p, trailing) /\ Uses("tokenPill") /\ Room(Len(p) - n + 1)
  BY DEF TokenPill
<1>5. trailing = <<>> \/ trailing = <<"sp">>
  OBVIOUS
<1>6. <<"sp">> # <<>> /\ <<"own">> \in Seq(Signs)
  BY Written, JoinsTyped
<1> HIDE DEF whole, base, trailing, n
<1>7. CASE trailing = <<>>
  <2>1. screen' = base /\ raw' = whole /\ auto' = FALSE
    <3>1. base \o <<>> = base
      BY <1>3, ConcatEmptySeq
    <3> QED BY <1>4, <1>7, <3>1 DEF base
  <2>2. RunStands'
    BY <1>3, <2>1 DEF RunStands
  <2>3. ASSUME profile' = profile PROVE RunMirrored'
    <3>1. SUFFICES ASSUME KeepsTokens, Uses("backspace") PROVE Len(raw') <= Len(ctx') + Len(word')
      BY <2>3 DEF RunMirrored, KeepsTokens, Uses, Roomy
    <3>2. bar.kind = "tokens" /\ typedRun = TypedOf(raw)
      BY <3>1 DEF BarFits
    <3>3. n <= Len(raw) /\ Len(raw) <= Len(screen) /\ Len(raw) <= Len(ctx) + Len(word)
      BY <1>1, <3>1, <3>2, TypedEndsRun, RunShorter DEF RunMirrored, n
    <3>4. /\ Len(raw) \in Nat /\ Len(screen) \in Nat /\ Len(ctx) \in Nat /\ Len(word) \in Nat
          /\ Len(p) \in Nat
      BY <1>1 DEF Text
    <3> DEFINE m == ctx \o word
    <3>5. m \in Text /\ Len(m) = Len(ctx) + Len(word)
      BY <1>1, JoinsTyped DEF Text
    <3>6. ctx' = Capped(Chopped(m, n) \o p \o <<>>, profile.cap)
      BY <1>4, <1>7 DEF Completed, n
    <3> HIDE DEF m
    <3>7. Chopped(m, n) = DropLast(m, n)
      BY <1>1, <3>3, <3>4, <3>5 DEF Chopped
    <3>8. DropLast(m, n) \in Text /\ Len(DropLast(m, n)) = Len(m) - n
      <4>1. n \in 0..Len(m) /\ m \in Seq(Chars)
        BY <1>1, <3>3, <3>4, <3>5 DEF Text
      <4> QED BY <4>1, Fronts DEF Text
    <3> DEFINE r == DropLast(m, n) \o p \o <<>>
    <3>9. r \in Text /\ Len(r) = Len(m) - n + Len(p)
      <4>1. <<>> \in Text /\ Len(<<>>) = 0
        BY JoinsTyped DEF Text
      <4>2. DropLast(m, n) \o p \in Text /\ Len(DropLast(m, n) \o p) = Len(m) - n + Len(p)
        <5> DEFINE a == DropLast(m, n)
        <5>1. a \in Seq(Chars) /\ p \in Seq(Chars) /\ Len(a) = Len(m) - n
          BY <1>1, <3>8 DEF Text
        <5> HIDE DEF a
        <5>2. a \o p \in Seq(Chars) /\ Len(a \o p) = Len(a) + Len(p)
          BY <5>1, JoinedLength
        <5> QED BY <5>1, <5>2 DEF a, Text
      <4>3. (DropLast(m, n) \o p) \o <<>> = DropLast(m, n) \o p
        BY <4>2, ConcatEmptySeq DEF Text
      <4> QED BY <4>2, <4>3
    <3>10. Len(whole) = Len(raw) - n + Len(p)
      <4>1. n \in 0..Len(raw) /\ raw \in Seq(Chars)
        BY <1>1, <3>3, <3>4 DEF Text
      <4>2. Len(DropLast(raw, n)) = Len(raw) - n
        BY <4>1, Fronts
      <4>3. Len(whole) = Len(DropLast(raw, n)) + Len(p)
        <5> DEFINE a == DropLast(raw, n)
        <5>1. a \in Seq(Chars) /\ p \in Seq(Chars)
          BY <1>1, <1>2 DEF Text
        <5> HIDE DEF a
        <5>2. Len(a \o p) = Len(a) + Len(p)
          BY <5>1, JoinedLength
        <5> QED BY <5>2 DEF a, whole
      <4> QED BY <4>2, <4>3
    <3>11. Len(whole) \in Nat /\ Len(whole) <= Len(r) /\ Len(whole) <= Len(screen) + (Len(p) - n + 1)
      BY <1>1, <3>3, <3>4, <3>5, <3>9, <3>10
    <3>12. TypingTyped /\ profile \in Profiles
      BY DEF BarTyped, TypingTyped, TypingTypeOK
    <3>13. profile.cap \in Nat /\ profile.room \in Nat /\ profile.room <= profile.cap
      BY <3>1, <3>12, WhoTyped DEF KeepsTokens, Roomy
    <3>14. Len(whole) <= profile.cap
      BY <1>1, <1>4, <3>4, <3>11, <3>13 DEF Room
    <3>15. ctx' = Capped(r, profile.cap)
      BY <3>6, <3>7
    <3> HIDE DEF r
    <3>16. ctx' \in Text /\ Len(whole) <= Len(ctx')
      BY <3>9, <3>11, <3>12, <3>14, <3>15, RoomLeft
    <3>17. Len(word') = 0 /\ Len(ctx') \in Nat
      BY <1>4, <3>16, JoinsTyped DEF Text
    <3> QED BY <2>1, <3>11, <3>16, <3>17
  <2> QED BY <2>2, <2>3
<1>8. CASE trailing # <<>>
  <2>1. raw' = <<>> /\ onScreen = <<"own">>
    BY <1>4, <1>8
  <2>2. screen' \in Seq(Signs)
    BY <1>3, <1>4, <1>6, <2>1, JoinsTyped DEF base
  <2>3. RunStands'
    BY <2>1, <2>2, NoRun DEF RunStands
  <2>4. TypingTyped'
    <3>1. BarTyped'
      BY TokenPillTyped
    <3> QED BY <3>1 DEF BarTyped
  <2>5. Len(raw') = 0 /\ ctx' \in Text /\ word' \in Text
    BY <2>1, <2>4, JoinsTyped DEF TypingTyped, TypingTypeOK
  <2>6. Len(raw') <= Len(ctx') + Len(word')
    <3>1. Len(ctx') \in Nat /\ Len(word') \in Nat
      BY <2>5 DEF Text
    <3> QED BY <2>5, <3>1
  <2> QED BY <2>3, <2>6 DEF RunMirrored
<1> QED BY <1>7, <1>8

\* A refreshed bar fits the run and the mirror.
LEMMA Refreshed ==
    ASSUME RefreshBar \/ AfterMark \/ BlankBar \/ HideBar
    PROVE  BarFits'
<1>1. CASE BlankBar \/ HideBar
  BY <1>1 DEF BlankBar, HideBar, NoBar, BarFits
<1>2. CASE RefreshBar
  <2>1. CASE InTokenContext(raw')
    <3>1. /\ tokenPills' = PillsFor(raw', sightings') /\ typedRun' = TypedOf(raw')
          /\ bar' = IF tokenPills' = {} THEN NoBar
                    ELSE [kind |-> "tokens", text |-> <<>>, pills |-> tokenPills']
      BY <1>2, <2>1 DEF RefreshBar, ShowTokens
    <3>2. \A p \in tokenPills' : Continues(p, typedRun')
      BY <3>1, OffersContinue
    <3>3. /\ bar'.kind # "words"
          /\ bar'.pills # {} => bar'.kind = "tokens"
          /\ bar'.kind = "tokens" => tokenPills' # {} /\ bar'.pills = tokenPills'
      BY <3>1 DEF NoBar
    <3> QED BY <3>1, <3>2, <3>3 DEF BarFits
  <2>2. CASE ~InTokenContext(raw')
    BY <1>2, <2>2 DEF RefreshBar, ShowWords, BarFits
  <2> QED BY <2>1, <2>2
<1> QED BY <1>1, <1>2 DEF AfterMark

\* Erasing from nothing leaves nothing.
LEMMA EmptyErased ==
    ASSUME NEW S, NEW q \in Seq(S), Len(q) = 0
    PROVE  DropLast(q, 1) \in Seq(S) /\ Len(DropLast(q, 1)) = 0
<1>1. 1 \in Nat /\ ~(1 <= Len(q))
  OBVIOUS
<1> QED BY <1>1, DropTyped

\* Backspace with nothing in the mirror leaves nothing in it.
LEMMA NothingErased ==
    ASSUME Backspace, word = <<>>, ctx = <<>>
    PROVE  ctx' = <<>> /\ word' = <<>>
<1> DEFINE c == DropLast(ctx, 1)
<1>1. Rehydrate(c)
  BY DEF Backspace
<1>2. c \in Seq(Chars) /\ Len(c) = 0
  <2>1. ctx \in Seq(Chars) /\ Len(ctx) = 0
    BY JoinsTyped
  <2> QED BY <2>1, EmptyErased
<1> HIDE DEF c
<1>3. SpaceAt(c) = 0
  <2>1. SpaceAt(c) \in 0..Len(c)
    BY <1>2, LastPlaces
  <2> QED BY <1>2, <2>1
<1>4. /\ SubSeq(c, 1, 0) \in Seq(Chars) /\ Len(SubSeq(c, 1, 0)) = 0
      /\ SubSeq(c, 0 + 1, Len(c)) \in Seq(Chars)
  <2>1. 0 \in 0..Len(c)
    BY <1>2
  <2> QED BY <1>2, <2>1, CutTyped
<1>5. Len(SubSeq(c, 0 + 1, Len(c))) = 0
  <2>1. 0 \in 0..Len(c)
    BY <1>2
  <2>2. Len(SubSeq(c, 0 + 1, Len(c))) = Len(c) - 0
    BY <1>2, <2>1, Tails
  <2> QED BY <1>2, <2>2
<1>6. SubSeq(c, 1, 0) = <<>> /\ SubSeq(c, 0 + 1, Len(c)) = <<>>
  BY <1>4, <1>5, EmptySeq
<1> QED BY <1>1, <1>3, <1>6 DEF Rehydrate

\* A bar that stays up while the run is left alone stays right.
LEMMA BarLeft ==
    ASSUME BarFits, UNCHANGED <<bar, tokenPills, typedRun>>, raw' = raw, profile' = profile,
           Uses("chordBehindSpace") \/ ctx' \o word' = ctx \o word
    PROVE  BarFits'
BY DEF BarFits, KeepsTokens, Uses, Roomy

\* Backspace refreshes the bar, or had nothing to erase.
LEMMA BackspaceFits ==
    ASSUME BarTyped, RunMirrored, BarFits, BarBackspace
    PROVE  BarFits'
<1>1. CASE RefreshBar
  BY <1>1, Refreshed
<1>2. CASE word = <<>> /\ ctx = <<>> /\ UNCHANGED <<bar, tokenPills, typedRun>>
  <2>1. /\ ctx' \o word' = ctx \o word /\ raw' = DropLast(raw, 1) /\ profile' = profile
        /\ Uses("backspace")
    BY <1>2, NothingErased DEF BarBackspace, Backspace
  <2>2. raw \in Text /\ Len(ctx) = 0 /\ Len(word) = 0
    BY <1>2, PartsTyped, JoinsTyped DEF BarTyped
  <2>3. ~InTokenContext(raw) => ~InTokenContext(raw')
    BY <2>1, <2>2, ShorterOffersNone
  <2>4. KeepsTokens => raw' = raw
    <3>1. SUFFICES ASSUME KeepsTokens PROVE raw' = raw
      OBVIOUS
    <3>2. Len(raw) = 0 /\ raw \in Seq(Chars)
      <4>1. Len(raw) <= Len(ctx) + Len(word) /\ Len(raw) \in Nat /\ raw \in Seq(Chars)
        BY <2>1, <2>2, <3>1 DEF RunMirrored, Text
      <4> QED BY <2>2, <4>1
    <3>3. DropLast(raw, 1) \in Seq(Chars) /\ Len(DropLast(raw, 1)) = 0
      <4>1. 1 \in Nat /\ ~(1 <= Len(raw))
        BY <3>2
      <4> QED BY <3>2, <4>1, DropTyped
    <3>4. DropLast(raw, 1) = <<>> /\ raw = <<>>
      BY <3>2, <3>3, EmptySeq
    <3> QED BY <2>1, <3>4
  <2>5. KeepsTokens' <=> KeepsTokens
    BY <2>1 DEF KeepsTokens, Uses, Roomy
  <2>6. bar' = bar /\ tokenPills' = tokenPills /\ typedRun' = typedRun
    BY <1>2
  <2>7. bar'.kind = "words" => (Uses("chordBehindSpace")' \/ bar'.text = ctx' \o word') /\ ~InTokenContext(raw')
    BY <2>1, <2>3, <2>6 DEF BarFits, Uses
  <2>8. bar'.pills # {} => bar'.kind = "tokens"
    BY <2>6 DEF BarFits
  <2>9. bar'.kind = "tokens" /\ KeepsTokens' =>
          /\ tokenPills' # {} /\ bar'.pills = tokenPills' /\ typedRun' = TypedOf(raw')
          /\ \A p \in tokenPills' : Continues(p, typedRun')
    BY <2>4, <2>5, <2>6 DEF BarFits
  <2> QED BY <2>7, <2>8, <2>9 DEF BarFits
<1> QED BY <1>1, <1>2 DEF BarBackspace

\* Delete drops the pills of the run it drops.
LEMMA DeleteFits ==
    ASSUME BarFits, Delete
    PROVE  BarFits'
<1>1. CASE RefreshBar
  BY <1>1, Refreshed
<1>2. CASE tokenPills = {} /\ UNCHANGED <<bar, tokenPills, typedRun>>
  <2>1. raw' = <<>> /\ profile' = profile /\ ctx' = ctx /\ word' = word
    BY DEF Delete
  <2> QED BY <1>2, <2>1, NothingOffersNone DEF BarFits, KeepsTokens, Uses, Roomy
<1> QED BY <1>1, <1>2 DEF Delete

\* Every step leaves a bar that fits.
LEMMA BarStepFits ==
    ASSUME BarTyped, RunStands, RunMirrored, BarFits, [BarNext]_<<typingVars, barVars>>
    PROVE  BarFits'
<1>1. ASSUME RefreshBar \/ AfterMark \/ BlankBar \/ HideBar PROVE BarFits'
  BY <1>1, Refreshed
<1>2. CASE (\E c \in Letters : BarLetter(c)) \/ BarDigit \/ BarMark \/ (\E g \in Glyphs : BarGlyph(g))
           \/ BarSpace \/ BarReset \/ FocusFlickers \/ BarInsert
  BY <1>1, <1>2 DEF BarLetter, BarDigit, BarMark, BarGlyph, BarSpace, BarReset, FocusFlickers, BarInsert
<1>3. CASE BarChord
  <2>1. /\ UNCHANGED <<bar, tokenPills, typedRun>> /\ raw' = raw /\ profile' = profile /\ word' = word
        /\ ctx' = Kept(ctx) /\ Uses(IF Elides THEN "chordBehindSpace" ELSE "chord")
    BY <1>3 DEF BarChord, ChordDot, barVars
  <2> QED BY <2>1, BarLeft DEF Kept
<1>4. CASE BarBackspace
  BY <1>4, BackspaceFits
<1>5. CASE Delete
  BY <1>5, DeleteFits
<1>6. CASE Recase
  BY <1>6 DEF Recase, ShowWords, BarFits, typingVars
<1>7. CASE BarPill
  <2>1. raw' = <<>> /\ bar' = [kind |-> "words", text |-> ctx' \o word', pills |-> {}]
    BY <1>7 DEF BarPill, Pill, EditPrediction
  <2> QED BY <2>1, NothingOffersNone DEF BarFits
<1>8. ASSUME NEW p \in bar.pills, TokenPill(p) PROVE BarFits'
  BY <1>1, <1>8 DEF TokenPill
<1>9. CASE (\E t \in Tokens : ForgetToken(t)) \/ UNCHANGED <<typingVars, barVars>>
  BY <1>9, BarLeft DEF ForgetToken, typingVars, barVars
<1> QED BY <1>2, <1>3, <1>4, <1>5, <1>6, <1>7, <1>8, <1>9 DEF BarNext

\* Every step keeps the run at the end of the text and of the mirror.
LEMMA BarKeepsRun ==
    ASSUME BarTyped, RunStands, RunMirrored, BarFits, [BarNext]_<<typingVars, barVars>>
    PROVE  RunStands' /\ RunMirrored'
<1>1. CASE TypingNext
  BY <1>1, TypingKeepsRun, TypingKeepsMirror DEF BarTyped
<1>2. CASE Delete
  <2>1. raw' = <<>> /\ screen' = screen /\ ctx' = ctx /\ word' = word
    BY <1>2 DEF Delete
  <2>2. RunStands'
    BY <2>1, PartsTyped, NoRun DEF RunStands, BarTyped
  <2>3. Len(raw') = 0 /\ Len(ctx') \in Nat /\ Len(word') \in Nat
    BY <2>1, PartsTyped, JoinsTyped DEF BarTyped, Text
  <2> QED BY <2>2, <2>3 DEF RunMirrored
<1>3. ASSUME NEW p \in bar.pills, TokenPill(p) PROVE RunStands' /\ RunMirrored'
  BY <1>3, TokenKeepsRun, SameUser
<1>4. CASE UNCHANGED typingVars
  BY <1>4 DEF typingVars, RunStands, RunMirrored, KeepsTokens, Uses, Roomy
<1> QED BY <1>1, <1>2, <1>3, <1>4, BarSteps

-----------------------------------------------------------------------------
(* The theorems.                                                           *)

\* What was there before the last character.
LEMMA FrontOfAppended ==
    ASSUME NEW S, NEW q \in Seq(S), NEW c \in S
    PROVE  Front(Append(q, c)) = q
<1> DEFINE s == Append(q, c)
<1>1. /\ s \in Seq(S) /\ Len(s) = Len(q) + 1 /\ Len(q) \in Nat
      /\ \A i \in 1..Len(q) : s[i] = q[i]
  OBVIOUS
<1> HIDE DEF s
<1>2. Len(s) - 1 = Len(q) /\ Len(q) \in 0..Len(s)
  BY <1>1
<1>3. Front(s) = SubSeq(s, 1, Len(q))
  BY <1>2 DEF Front
<1>4. /\ SubSeq(s, 1, Len(q)) \in Seq(S) /\ Len(SubSeq(s, 1, Len(q))) = Len(q)
      /\ \A i \in 1..Len(q) : SubSeq(s, 1, Len(q))[i] = s[i]
  BY <1>1, <1>2, SubSeqProperties
<1>5. SubSeq(s, 1, Len(q)) = q
  BY <1>1, <1>4, SeqEqual
<1> QED BY <1>3, <1>5 DEF s

BarInv == BarTyped /\ MirrorInv /\ RunStands /\ RunMirrored /\ BarFits

\* The bridge starts with nothing anywhere.
LEMMA BarInitHolds ==
    ASSUME BarInit
    PROVE  BarInv
<1>1. /\ profile \in Profiles /\ screen = <<>> /\ word = <<>> /\ ctx = <<>> /\ raw = <<>>
      /\ auto = FALSE /\ deferred = "none" /\ lost = FALSE /\ taught = "nothing"
      /\ bar = NoBar /\ tokenPills = {} /\ typedRun = <<>> /\ noted = <<>>
      /\ sightings = [t \in Tokens |-> 0]
  BY DEF BarInit, TypingInit
<1>2. <<>> \in Text /\ <<>> \in Seq(Signs) /\ <<>> \in Seq(Plain) /\ Len(<<>>) = 0
  BY JoinsTyped DEF Text
<1>3. profile.cap \in Nat /\ profile.room \in Nat
  BY <1>1, WhoTyped
<1>4. BarTyped
  <2>1. Len(ctx) <= profile.cap /\ Len(ctx) <= profile.cap + 1 /\ MaxSightings \in Nat
    BY <1>1, <1>2, <1>3, BarConstants
  <2>2. sightings \in [Tokens -> 0..MaxSightings]
    BY <1>1, <2>1
  <2> QED BY <1>1, <1>2, <2>1, <2>2 DEF BarTyped, TypingTyped, TypingTypeOK, BarShape, StoreShape, NoBar
<1>5. MirrorInv
  <2>1. RunOf(screen) = <<>> /\ SeenOf(screen) = <<>>
    BY <1>1, <1>2, RunOfNone, SeenPlain
  <2>2. ctx \o word = <<>>
    BY <1>1, <1>2, ConcatEmptySeq
  <2>3. Len(screen) <= profile.room
    BY <1>1, <1>2, <1>3
  <2> QED BY <1>1, <1>2, <2>1, <2>2, <2>3 DEF MirrorInv
<1>6. RunStands
  BY <1>1, <1>2, NoRun DEF RunStands
<1>7. RunMirrored
  <2>1. Len(raw) <= Len(ctx) + Len(word)
    BY <1>1, <1>2
  <2> QED BY <2>1 DEF RunMirrored
<1>8. BarFits
  BY <1>1 DEF BarFits, NoBar
<1> QED BY <1>4, <1>5, <1>6, <1>7, <1>8 DEF BarInv

\* The invariant, and its induction.
LEMMA BarInvHolds == BarSpec => []BarInv
<1>1. BarInit => BarInv
  BY BarInitHolds
<1>2. BarInv /\ [BarNext]_<<typingVars, barVars>> => BarInv'
  BY BarStepTyped, BarMirrors, BarKeepsRun, BarStepFits DEF BarInv
<1> QED BY <1>1, <1>2, PTL DEF BarSpec

\* Whatever is typed, tapped and reset, the mirror and the bar keep their
\* types: the buffer stays within its cut, with one deferred space on top.
THEOREM TypingTypeCorrect == BarSpec => [](TypingTypeOK /\ BarTypeOK)
<1>1. BarInv => TypingTypeOK /\ BarTypeOK
  BY DEF BarInv, BarTyped, TypingTyped, BarShape, StoreShape, BarTypeOK
<1> QED BY <1>1, BarInvHolds, PTL

\* For every length of text, every cut of the buffer and every word: the
\* current word is the whole word at the caret, or the bridge knows its
\* opening was cut away.
THEOREM TheWordIsAtTheCaret == BarSpec => []WordAtCaret
<1>1. BarInv => WordAtCaret
  <2>1. SUFFICES ASSUME BarInv, Tracked PROVE word = RunOf(Shown) \/ lost
    BY DEF WordAtCaret, WordIsAtCaret
  <2>2. screen \in Seq(Signs)
    BY <2>1, PartsTyped DEF BarInv, BarTyped
  <2>3. RunOf(Shown) = RunOf(screen)
    BY <2>2, ShownIsSeen, SeenRun
  <2> QED BY <2>1, <2>3 DEF BarInv, MirrorInv
<1> QED BY <1>1, BarInvHolds, PTL

\* The learner is never told the tail of a word.
THEOREM NoFragmentIsTaught == BarSpec => []FragmentsNeverTaught
<1>1. BarInv => FragmentsNeverTaught
  BY DEF BarInv, MirrorInv, FragmentsNeverTaught, NoFragmentTaught
<1> QED BY <1>1, BarInvHolds, PTL

\* The words on the bar answer for the text in the mirror, and the tokens on
\* it continue the run that stands on screen.
THEOREM TheBarIsForTheText == BarSpec => []BarIsForTheText
<1>1. BarInv => BarIsForTheText
  <2>1. SUFFICES ASSUME BarInv PROVE BarIsForTheText
    OBVIOUS
  <2>2. raw \in Text /\ raw \in Seq(Signs) /\ EndsIn(screen, raw)
    BY <2>1, PartsTyped DEF BarInv, BarTyped, RunStands
  <2>3. PICK q \in Text : raw = q \o TypedOf(raw)
    BY <2>2, TypedEndsRun
  <2>4. IsSuffix(TypedOf(raw), raw)
    <3> DEFINE t == TypedOf(raw)
    <3>1. t \in Seq(Chars) /\ q \in Seq(Chars) /\ raw = q \o t
      BY <2>2, <2>3, TypedEndsRun DEF Text
    <3> HIDE DEF t
    <3>2. IsSuffix(t, q \o t)
      BY <3>1, SuffixIs
    <3> QED BY <3>1, <3>2 DEF t
  <2>5. IsSuffix(raw, Shown)
    <3>1. PICK s \in Seq(Signs) : screen = s \o raw
      BY <2>2 DEF EndsIn
    <3>2. Shown = SeenOf(s) \o raw
      BY <2>2, <3>1, ShownIsSeen, SeenConcat, SeenPlain
    <3> QED BY <2>2, <3>1, <3>2, SeenTyped, SuffixIs
  <2> QED BY <2>1, <2>4, <2>5 DEF BarInv, BarFits, BarIsForTheText, KeepsTokens
<1> QED BY <1>1, BarInvHolds, PTL

\* A tapped pill leaves exactly its word at the caret.
THEOREM ThePillIsTheWord == BarSpec => PillIsTheWord
<1> DEFINE Taps == \A p \in PillWords : Pill(p) /\ ~lost /\ Tracked => RunOf(Front(screen')) = p
<1>1. BarInv => Taps
  <2>1. SUFFICES ASSUME BarInv, NEW p \in PillWords, Pill(p), ~lost, Tracked
                 PROVE  RunOf(Front(screen')) = p
    OBVIOUS
  <2>2. PICK text \in PillText(p) : screen' = Append(text, "own")
    BY <2>1 DEF Pill
  <2>3. text \in Seq(Signs) /\ RunOf(text) = p
    BY <2>1, PillTyped, PillRun DEF BarInv, BarTyped
  <2>4. Front(screen') = text
    BY <2>2, <2>3, Written, FrontOfAppended
  <2> QED BY <2>3, <2>4
<1> QED BY <1>1, BarInvHolds, PTL DEF PillIsTheWord

=============================================================================
