# Alpha-OSK, specified

Alpha-OSK is an on-screen keyboard for people who type with a pointer, a switch
or their voice. It sends synthesised keystrokes to whatever application has
focus, suggests words, learns from what is typed, and can take dictation. It
never sees the text it types into: everything it knows about the other side of
the screen it keeps itself, as a mirror, a flag or a cached reading. Most of
what can go wrong in it is one of those copies disagreeing with what it copies.
The specifications here are about that: what the keyboard believes against what
is so, in every order in which its threads, timers, subprocesses and the user
can act.

Contents: [inventory](#1-inventory) - [modules](#2-modules-and-code) -
[runs](#3-runs) - [fairness](#4-fairness) - [proofs](#5-proofs) -
[what the code does that its documentation does not say](#6-divergences) -
[plan](#7-plan) - [not modelled](#8-not-modelled).

## 1. Inventory

Paths are relative to `src/`. `KB` is `src/keyboard_bridge.py`.

| Component | Code | State | Operations | Correct when |
|---|---|---|---|---|
| Sticky modifiers | `KB` `toggleX`, `lockModifier`, `_release_sticky_modifiers`, `_without_held_modifiers`, `shutdown`; `platform/*.py` hold and release | `_m_active`, `_m_locked`, `_win_chorded`, Caps Lock; the OS's own key state | tap, right-click, every keystroke and insert, edit mode, trials, quit, restart | a lit keycap and an OS hold are the same thing, whatever call raises |
| Serial injector | `platform/serial_injector.py`, `platform/windows.py` | queue, worker handle, delivery lock, predicted modifiers | inline and queued bursts, cancel, shutdown | one queue of whole keystrokes, in order, nothing left down |
| Typing context | `KB` `_press_char`, `pressSpecialKey`, `pressPrediction`, `insertSnippet`, `_reset_typing_context`; `text_patterns.py` | `_current_word`, `_context_buffer`, `_raw_token`, one withheld space, two auto-space flags | each key, pill, insert, click and focus change | the mirror is what stands before the caret; only whole words are taught |
| Focus and privacy | `platform/focus_probe.py`, `platform/password_detect.py`, `KB` password checks | latest reading, sequence watermark, `_privacy_mode`, manual override | probe thread, keystroke with a bounded wait, 200 ms timer, queued signal, shield | nothing typed into a password field is learned; privacy mode follows focus |
| Vocabulary | `prediction/ngram_predictor.py`, `KB` `_sentence_buffer` | counts, merged counts, total, candidate pool, decay clock | learn, retract, boost, tap, decay, sweep, load | an unknown word is learned only on its third sighting or on request |
| Dictation | `dictation/controller.py`, `providers.py`, `audio.py`, `claude.py` | run state, microphone, socket, two timers, collected text, HTTP request | click, phrase, timeout, failure, polish, cancel | no phrase lost or typed twice; the microphone always has something to close it |
| Dictation history, settings | `dictation/history.py`, `config.py` | index, audio files, size limit | add, prune, delete, load | index and files agree after a crash |
| Engine loader | `prediction/loader.py` | job, worker thread, interpreter settings | start, cancel, publish, retry | an engine is handed over once or destroyed; settings restored |
| Context counts | `prediction/ngram_predictor.py` pairs and triples | merged table and the user's share | learn, decay, save, reseed, import | the shipped and the user's share add up |
| Lookup | `ngram_predictor.py` `predict_with_scores`; `prefix_beam.py`, `symspell.py`, `packed_*.py`, `fuzzy_recognizer.py` | sorted lists, deletion and prefix indexes with overlays | predict, add a word, change layout | a shortcut or a kept-up index answers as the full one |
| Ranking | `prediction/hybrid_predictor.py` | removed words, demotions, strategy | merge, demote, remove | a word marked bad does not rise |
| Application update | `updater.py`, `_update_relauncher.py`, `update_stage.py`, `update_signals.py` | staged helper, marker files, lock file, named event, phases | check, download, verify, install, relaunch, retry | the user is never left without a keyboard |
| Study | `study/*`, `study_bridge.py` | session position, trial capture, learning freeze | begin, submit, abandon, withdraw | a trial neither types nor teaches; the freeze is undone |
| Suggestion bar and token store | `KB` `_refresh_predictions`, `_update_token_bar`, `_learn_raw_token`; `prediction/token_predictor.py` | pills shown, the run they were offered for, sightings | every keystroke, pill, reset | the bar is about the text on screen; a token is counted once |
| Caret and click polling | `KB` `_check_foreground_window`, `_check_external_click` | last window, caret and element tokens, busy and grace flags | 50 ms and 250 ms polls | a moved caret drops the mirror, the user's own typing does not |
| Snippets | `snippets.py`, `KB` offers, `SnippetsWindow.qml` | list, file, ledger, toast, open sheet | edit, offer, import, move | an editor acts on the snippet it was opened for |
| Key actions, glyphs | `key_actions.py`, `glyphs.py` | tables | rebind, insert | out of scope (section 8) |
| Persistence, packs | `atomic_write.py`, `data_export.py`, `prediction/vocabulary_pack.py` | files, archives, packs | save, clear, export, rescue, import | what was saved can be had back; what was cleared stays away |
| Analytics, telemetry | `analytics.py`, `telemetry*.py`, `backend/cf-worker` | counters, consent, token | count, submit, forget | nothing leaves without consent |
| Windows, shell, QML, build | `platform/*_window.py`, `keyboard_app.py`, `qml/`, `build/`, `scripts/` | the window server's | geometry, layout | out of scope (section 8) |

How they meet. QML calls slots of `KeyboardBridge` on the UI thread; the bridge
calls the synthesiser (`_synth`), which on Windows hands bursts to the injector
and its worker thread; it calls the predictor to suggest and to learn; it reads
the focus probe, a thread of its own, before each character. Dictation calls
back into the bridge with phrases to insert, and the bridge cancels dictation on
entering privacy mode. The study replaces `_synth` under all of them. Qt timers
(privacy 200 ms, polling, dictation's silence and ceiling) fire between any two
slots, never inside one.

The hard behaviours are therefore: two threads and a lock (injector); a
reading begun before the focus moved (privacy); a mirror kept without feedback
(typing, vocabulary); an OS call that raises between two others (modifiers);
asynchronous answers after a cancel (dictation, engine loader); polls that
compare two readings of a desktop the keyboard itself changes (caret); indexes
kept up beside what they index (prediction); processes that die between two files
or two steps (update, study, user data, history). The `hazards` of `PROJECT.json` name each at its line.

## 2. Modules and code

Every definition that stands for code is in the `map` of `PROJECT.json` with its
lines. A slot that runs to completion on the UI thread is one action, with all
the calls it makes; a thread's step is what it does between two points at which
another thread can see or block it. Some definitions, most
of them marked "(Slip)", are plausible bugs that no specification uses; a mutant
of `PROJECT.json` puts each in the place of the right one. Each module has a type
invariant, which documents its variables; those of the sticky modifiers, the
injector, typing with the bar, focus, and the loader with the study are theorems.

### Keys

**`StickyModifiers`** - `active`, `locked` and `caps` are the bridge's flags;
`held` is what the desktop really has down on our account. Each handler calls
the OS for several modifiers in the order of `_MODIFIERS` and any call may raise
(`OSFails`): `Done(S)` is the set of prefixes it may get through. `Guarded` is
`_without_held_modifiers`, whose `finally` may fail too. `SwapSynth` puts a
trial's recorder in the place of the desktop, under whatever is held; `Crash`,
`Shutdown` and `Start` are the process's life, over which `held` persists. `stray`
records the modifiers the last text output was sent under without being meant to,
`astride` those that were lit when a trial began and no reset has released since.

**`SerialInjector`**, over **`TypingQueue`** - the threads, the delivery lock and
the queue, at the grain of one `SendInput`. A lock that a worker still holds
after giving up its handle is a state of its own ("old"). `TypingQueue` is what
the callers are promised: one queue of units, whole, in order, from which a
cancel drops text and nothing else. A burst may have as many units as the injector's `MaxUnits`
(`Lengths`). `ImplementsTypingQueue` is the refinement; its mapping, `Backlog`,
concatenates what the UI thread, the worker and the queue still owe.

### What is typed, and where

**`TypingContext`** - `screen` is the text that keystrokes really produced, in
classes of character; `word`, `ctx`, `raw`, `deferred` and the auto-space flags
are the bridge's. What a pill erases, which space a full stop takes back and
what is taught are computed from the mirror, as the code does.

**`SuggestionBar`** extends it: each keystroke of `TypingContext` is conjoined
with what it leaves on the bar - words for a text, token pills for the run in
progress, or nothing - and with what the token store counts, a run whose withheld
space comes with the next letter, pill or insert (`FinishedRun`) included. A word
bar is the text it answers, since the engine's answer is another module's matter.

**`MCTypingContext`** composes the two. A profile says which keys its typist
uses: the invariants that the code breaks for some keys state for which typists
they hold, so that the condition is checked and not assumed away.

**`FocusPrivacy`** - the probe thread reads the window and then the element;
either may have changed since. Its readings reach the bridge on a keystroke (a
25 ms wait), on the timer and as queued signals. Sequence numbers are kept
relative to the watermark, so the probe reads for ever in a finite state space.
Any wait may run out, the one of a key that ends a word included, and focus may
move with a password's characters still in the word. `tainted`, `carried` and
`slips` are history: such a character entered the word in progress, its field was
left before a reading protected it, and how such a word reached the learner - on
an answer, on none, or carried out of its field.

**`CaretPolls`** - the 50 ms and the 250 ms poll over a desktop of windows,
fields and caret positions, some of which publish a caret rectangle or an
element identity and some not. Time is in ticks. A key, a dictated insert, a
click, a command and a switch change the desktop; the polls see tokens of it and
decide by the flags of the code - keystroke since the last poll, insert busy,
settle after a click, grace after a character - whether the context goes.
History: `calm` (nobody but the typist has moved the caret) and for how long a
left-behind context has been kept.

**`MCFocus`** puts the last two on one set of constants. They read the desktop
through different calls and share no variable, so a behaviour runs one of them.

### The prediction engine

**`VocabularyGate`** - the predictor's three unigram tables and its total, with
decay, ageing and reload, and the part of the bridge that decides what
`learn()` gets and when: `sentence` and `context`, which a cleared engine leaves
as they are.

**`ContextCounts`** - pairs and triples as edges, each with the user's share in
parts of one typing and the merged count every reader sees; learning, decay with
its least share, rounding when saved, the seeds put in anew at each launch,
import and clearing; `Blend` is the row probability with its pseudo-count, in
whole numbers over a common denominator.

**`WordIndexes`**, over **`Spelling`** - words are sequences of letters. The
prefix index (a packed base, live overlays, overridden rows) and the deletion
index are kept up by `Learn` and compared with a rebuilt one; `Protect` is
`_protect_exact_completions` over the beam's scores.

**`NextWords`** - `predict_with_scores`: scoring every word, against the pruned
list found by bisection in sorted lists that are built on demand and kept until
the base counts change.

**`Ranking`** - the lists, their filters, the short-prefix rescue, four merge
strategies compared as whole numbers (products in place of sums of logarithms),
demotion and the removal and return of words.

**`MCPrediction`** runs one of the five per behaviour: they meet in tables that
are a variable of each, and their product adds states and no interaction. The
properties named `Run...` are those of the module, checked in its slice only.

### Dictation

**`Dictation`** - the controller's states, its microphone, socket, timers and
request, with the bridge's privacy mode and settings around it. Phrases are
counted: `heard` is what the provider sent, `out` what became of it (typed,
shown, drafted, kept in history). `ModeOf` is decided once per run, as in
`start()`; settings may change at any later moment.

### Processes, files and the study

**`UpdateHandoff`** - the keyboard and its install worker, the elevated
installer, and the helper with its phases, which meet only through the files of
the helper's stage (a lock, "launched" and "cancel" markers), the hand-off file,
the keyboard's named event and the executable itself. Any process may die
between two steps (`KeyboardDies`, `HelperDies`, and the installer's own abort),
a probe or the splash may raise, a marker may fail to be written, and the user
may start a keyboard by hand. `Tick` is one round of `UpdateFlow`, with what the
helper can see of the others (`Busy`, `NewExeReady`, `ParentAlive`,
`KeyboardShown`) and nothing else.

**`EngineLoader`** - each build's worker at the grain of what the UI thread can
see: enter build settings, build, look at the job and hand over or destroy,
restore settings, mark done, emit. Cancel, publish, failure and retry, a bridge
that goes away and another that starts its own build while the first still runs.

**`StudySession`** extends it: the plan, the session and its cursor, the log,
the state file and the bundle, capture and freeze. A study waits for the engine,
a trial records the keys, and a quit, crash, withdrawal or new release comes at
any point. The write of a trial and that of its cursor are two steps, so are those
of the bundle and of its mark, and those that remove log and state on a
withdrawal: either may fail, or be the last of the process. `missing` is history:
the steps whose trial was taken but could not be logged, or was withdrawn.

**`UserData`** - the two model files and the packs as sets of words; load, save,
clear, export, rescue and import, one file at a time. Beside them the running
`sentence` of the bridge, which each space hands to the learner whole, which an
import empties and a clear does not; and what the engine forgets by itself, by a
Backspace into a word, an un-preferred suggestion, or a decay that takes a count
to nothing (`Forget`, `Fading`). **`DictationHistory`** - the
list in memory, the index and the recordings, each call's disk work in order
(`todo`), budgets and a rejected index. **`Snippets`** - the list and its file,
offers with their ledger and toast, and the window, whose sheet remembers an
index into a list that changes. A crash may come between any two writes; a
failed read or write spends one of a bounded number of faults. `earned`,
`cleared`, `kept`, `gone` and the sheet's `identity` are history.

**`MCStores`** runs one of the three stores per behaviour (they share nothing),
the first in three slices: imports without packs, packs with one archive, and
typing and forgetting with one archive and no packs.

### Proofs

Section 5 says what they show. **`BridgeProofs`** is about the slots of the UI
thread, the modifiers and then typing with the bar; **`SerialInjectorProofs`**,
**`DictationProofs`** and **`UpdateProofs`** about the modules they are named for;
**`FocusProofs`** about privacy mode and the caret polls; **`StudyProofs`** about the loader and the study together;
**`PredictionProofs`** about the vocabulary gate, the pair and triple counts, the
next-word lists, the indexes of words and the fused list;
**`StoresProofs`** about the user data, the dictation history and the snippets.

## 3. Runs

| Run | Question | Bounds and why they are enough |
|---|---|---|
| `sticky_steady` | do keycaps, locks and OS holds agree over every handler, crash and restart, when the OS obeys? | all four modifiers; the state is finite as it is. The macOS backend: all four may be held, and start-up resets them |
| `sticky_trials` | what can a trial begun over held modifiers leave down, with OS calls that raise and crashes? | all four modifiers, and any number of trials, one over what another left. The Linux backend: Super is never held down, and start-up resets the others. Without locks, whose failing unlock is in section 6 |
| `injector` | is the injector one queue, with nothing left down and no wait for ever? | 5 bursts of 1 or 2 characters, 2 modifiers: enough for one burst inline, one in delivery, two queued and a cancel among them, and for a second modifier's hold to overtake; a two-character burst is past the inline budget |
| `typing` | do mirror, bar, pills and what is taught agree with the screen, for six typists? | 5 or 6 characters on screen, two letters, a digit and five marks: a word, a mark, its space, a second word and its deletion. The buffer's caps are 12/10 (never reached) and 4/3 (reached at once), for the code's 200/100. One sighting of a token makes it offered |
| `typing_counts` | divergence 1 | one typist, an address, its pill and a comma: 7 characters |
| `focus` | is a password ever learned, does privacy mode come right; do the polls keep and drop the context as they should? | privacy: 2 windows, 3 moves of focus, 3 keys, 1 queued signal: a reading in flight over a move, another queued behind it, a key between them, and a move back. Polls: 4 places in 2 windows, 2 deeds besides typing (a click followed by a command, a switch and back); poll 2, settle 2 and grace 4 ticks for the code's 5, 4 and 20 of 50 ms: scaled down in the proportions `PollsAssumption` asks for, above all a grace that outlasts the churn, a reading and a poll |
| `prediction` | five questions of the engine, one per slice | gate: one base and one unknown word, threshold 3 (the code's), sentences of 2 words, decay every 3 calls. Pairs and triples: 3 words, a share of 8 parts to a typing and at most 8 parts, so that decay, the least share, the rounding of a save and the prior's floor all bite. Indexes: 4 words over 3 letters with beginnings in common, 9 typings, 2 layouts at 2 addresses. Shortcut: 5 words, a bar of 2, so that the pruned list is full and cuts. Ranking: 4 words, 4 situations with lists of at most 4 candidates, 3 bar sizes, all four strategies |
| `dictation` | is speech ever lost or typed twice, does a password field silence it, does a run end? | 2 phrases per run, runs without end, builds with and without network support: one phrase is typed, or held back, before the failure and one after |
| `update` | does the update screen end, is it true, does it start nothing into an install? | 2 attempts, so that the first one's helper and stage are still there beside the second's; any 2 faults in the course of the first. The second attempt is what a first one may disturb; faults of its own are left out to keep the run short, and are those of a first attempt when `MaxAttempts` is 1 |
| `study` | are engine, keys, learning and the log left as they should be? | 2 builds (two overlap), a block of 1 practice and 1 scored phrase in each condition, 2 releases, 2 crashes or failed writes or removals: one that fails, and a crash behind it |
| `stores` | does what was reported saved or deleted stay so? | 2 archives, 2 imports (an import of the rescue of an import), 1 failure in each store; one word that is typed and one that only an import brings, so that a clear finds one of them in the running sentence or not; 3 recordings in a list of 2 with a budget and an index cap that are both exceeded; 3 snippets, 2 values, a ledger of 1, so that an answer is forgotten and asked again |
| `stores_rescue` | divergence 2 | as `stores` |

`CHECK_DEADLOCK FALSE` is said where a bound or the end of the process leaves
nothing to do; `StickyModifiers` and `Dictation` are checked for deadlock.
Every property of a passing run has a mutant in `PROJECT.json`: a plausible slip
in the code's place that breaks it in the same run.

What they show, in a sentence each. Sticky: with an OS that obeys, lit and held
are equal through every handler and any crash. Injector: with its lock and
handle the two threads are one queue, a cancel cannot split a keystroke or
swallow a release, and the predicted modifiers a burst is built for are those it
meets. Trials: one strands at the desktop what was lit when it began and nothing
else. Typing: mirror and bar are right except behind keys the code does not
record, which each invariant names. Focus: whichever waits run out, a word with a
password's characters is not learned on the answer for its field; it is if no
answer for that field came before the word's end (section 6), and the run says so.
A reading older than the one applied never unprotects; typing alone never costs the context, and a click, a
switch or a command does within two polls unless the text was typed on.
Prediction: the tables agree, a seen word never becomes less likely for being
seen, the kept-up indexes and the shortcut answer as the full ones. Dictation:
every phrase is accounted for. Update: whoever dies, the screen ends, leaves or
fails in a way the user can act on. Study: whatever ends a trial,
the keys go to the desktop again, and learning goes on once its session is gone; a
new process starts with both; and the log has every trial before the saved cursor,
but for those whose own write failed and those of a withdrawal that was cut short. Stores: a saved word is on disk, in memory or in an archive until
the engine itself forgets it or the user clears it; and what was cleared, the words
of the running sentence apart, is in none of what the program reads by itself until
it is typed, taught or imported again.

## 4. Fairness

Only liveness uses it, and it is weak throughout. `SerialInjector` (`Drains`): the
worker and the UI thread, once in a delivery or a bounded wait, are scheduled by
the OS; handing in bursts, cancelling and quitting are the user's, and not fair.
`FocusPrivacy`, in `MCFocus` (`PrivacyCatchesUp`): the probe thread loops, Qt
delivers queued signals, a waiting keystroke sees its answer, and
`GetForegroundWindow` stops returning 0 when an activation ends. The timer needs
none: a signal always follows. `Dictation` (`EveryRunEnds`): single-shot Qt
timers that were started fire (the ceiling, the provider's connect and flush
timers, Claude's request timeout, in which the failure is one possible answer).
Sound, phrases, acknowledgements and answers need never come. `UpdateHandoff`
(`ScreenSettles`): threads and processes under way are scheduled - the install
worker, the thread that stages the helper, the installer, a helper that is
starting, a keyboard that is coming up - and the helper's timer ticks, which
includes that its bounded phases time out. The answer to the elevation prompt,
the buttons and every fault need never come.

The others state no liveness. Typing, prediction, the stores and the sticky
modifiers react and wait for nothing; a study waits for its participant. What
`CaretPolls` must do in time is said with its ticks: a tick of the clock is
enabled only when the poll that is due has been made (`untilPoll`), so `LeftBehindIsDropped`
is a bounded promise and an invariant.

## 5. Proofs

TLAPS checks each of these for every value of the constants that the module's
named assumptions allow: any number of modifiers, bursts, words, fields, builds,
attempts, recordings and failures, and texts of any length. Where a theorem
assumes more, the table says so and the text below why.

| Theorem | States | Inductive invariant |
|---|---|---|
| *`BridgeProofs`, modifiers:* `TypeCorrect` | types; `held` never contains a `NeverHeld` modifier | itself |
| `TrialsStrandLittle` | `TrialsStrandOnlyTheLit`, under `Trusted` | `IInv`: what is held is lit or was when a trial began; in a trial only the latter; and a dead process has left nothing else down which the next start will not reset |
| `KeycapsAreHonest`, `NothingRidesAlong` | `HeldIsLit`, `NoStrayModifier`, under `Trusted` and without trials | `IInv` |
| `KeycapsAreReal` | `LitIsHeld`, under `Steady` | `SteadyInv` |
| `LocksLast` | `LocksSurviveKeystrokes`, when no OS call fails | `LocksAreLit`: a lock is lit, or a release could take its hold and leave it |
| *`BridgeProofs`, typing and bar:* `TypingTypeCorrect`, `TheWordIsAtTheCaret`, `NoFragmentIsTaught`, `TheBarIsForTheText`, `ThePillIsTheWord` | types, `WordAtCaret`, `FragmentsNeverTaught`, `BarIsForTheText`, `PillIsTheWord` | `BarInv`, below |
| *`SerialInjectorProofs`:* `TypeCorrect`, `KeysComeUp`, `TextMeetsItsModifiers` | types, `NoKeyLeftDown`, `BuiltForWhatIsDown` | `Inv`, below |
| `InjectorIsOneQueue` | `ImplementsTypingQueue`: the threads refine `TypingQueue` | `Inv` and `Numbered`, below |
| *`FocusProofs`:* `TypeCorrect`, `AnsweredStaySecret` | types; `AnsweredSecretsStay` | `Inv`: a reading begun since focus last moved is true (`YoungIsTrue`), the one a key waits for is of the field it goes to (`AnswerIsTrue`), the newest queued reading is the latest (`LatestIsNewest`), and a tainted word is unprotected, and still in its field unless it was carried out of it (`TaintIsHere`) |
| `OnlyNewerUndoes` | `OlderNeverUndoes` | `Inv`, for its types |
| `LeftBehindGoes`, `TypingStays` | `LeftBehindIsDropped`, `TypingIsNoMove` | `PollsInv`, below |
| *`StudyProofs`:* `TypeCorrect`, `EnginesHaveOwners`, `SettingsRestored`, `TrialStaysContained`, `LogKeepsUp` | types, `EnginesAccountedFor`, `InterpreterRestored`, `TrialIsContained`, `LogCoversCursor` | `Inv`: who holds each engine (`JobsMatch`), that the count of builds is the number of workers inside and what the first changed is what the last restores (`SettingsMatch`), that session, state file and freeze agree (`SessionMatches`); and, for the log, that each scored step before either cursor is in it or `missing` |
| `ReductionIsSafe` | the same with workers and slots in any order | as above |
| *`UpdateProofs`:* `OldNeverAnnounces`, `LaunchesStaySafe` | `ToastIsTrue`, `LaunchesAreSafe` | `Inv`: whose keyboard is alive (`ParentKnown`), what the executable can be while the installer is where it is (`ExeKnown`), and that an old keyboard, a hand-off and a confirmation exclude each other (`OldIsOld`) |
| *`StoresProofs`:* `SavedWorkIsSafe`, `ClearingLasts` | `SavedWorkIsRecoverable`, `ClearedStaysCleared` | `Inv`: `Recoverable` - a word on disk alone is safe only if the engine knows it too and no import is under way; `NothingReturns` - and no word of the running sentence counts as cleared, for the next space learns it |
| `HistoryIsTrue` | `HistoryAsReported` | `HistoryInv`: ids are given once (`Recorded`), a kept run is in index, list and recordings and no removal is owed for it (`KeptIsKept`), a gone one in none (`GoneIsGone`), and a call reports what its remaining disk work will make true (`Promised`) |
| `SheetFollows` | `SheetIsOnItsSnippet` | itself |
| *`PredictionProofs`:* `NoWordOnBothSides`, `ShippedCountsSurvive` | `CandidatesAreUnknown`, `MergedCoversUser` | `TablesAgree`: both at once, for a retraction may subtract from `merged` only because it covers `user` |
| `CountsAddUp`, `CountsAddUpInTheEngine` | `SharesAddUp` in `ContextCounts`, `RunSharesAddUp` in `MCPrediction` | `SharesInv` |
| `SightingsHelp` | `SightingHelps`, for finite tables | `ScoresInv`: the merged count is never below the typings, even where tables were seeded twice |
| `ShortcutLosesNothing`, `ShortcutLosesNothingInTheEngine` | `PruningLosesNothing`, `RunPruningLosesNothing` | `NextWordsInv`: a list built earlier is the list that would be built now (`ListsAreCurrent`) |
| `IndexKeepsUp`, `IndexKeepsUpInTheEngine` | `IndexIsAsRebuilt`, `RunIndexIsAsRebuilt` | `IndexFits`: the base and its overlays together say what the dictionary says, and a row without an overlay has not moved |
| `TypedLettersComeFirst`, `TypedLettersComeFirstInTheEngine` | `TypedLettersWin`, `RunTypedLettersWin` | `IndexFits` |
| `DemotionOnlyLowers`, `DemotionOnlyLowersInTheEngine` | `DemotionNeverRaises`, `RunDemotionNeverRaises` | `RankingTyped`: types only; the argument is about the order |
| *`DictationProofs`:* `MicBounded`, `PrivacySilences`, `TypedOnce`, `NoSpeechLost` | a microphone that is open has a ceiling in a live state; `PrivacyIsSilent`, `WordsOnce`, `NothingLost` | `Inv`, below |

**What is assumed.** `Trusted` excludes what refutes honest keycaps in the code:
an unlock that fails, and a process killed on a backend without a reset (section
6). Trials refute them too; with them `TrialsStrandLittle` says what is left, and
`sticky_trials` is a run of it in which OS calls raise. `Steady` excludes failing calls and trials: a press
that half fails leaves a lit keycap without a hold. `LocksLast` needs no failing
call for the same reason. The theorems on focus assume nothing of which waits run
out. The typing theorems assume of the constants only that words are made of letters,
corrections are not empty, and the cut of a pill is no longer than the buffer's.

**Typing and bar.** `BarInv` has five parts. `BarTyped`: types, and a space is
owed for a mark only to a buffer that was cut. `MirrorInv`: where the typist's
keys are `Tracked`, the current word is the run of word characters on screen, or
its beginning is known to be lost; a deferred space leaves no current word; and
for a typist who erases, the buffer and the word together are what is shown, or
its end. `RunStands`: the unbroken run ends the text on screen, and is empty
behind an automatic space. `RunMirrored`: it is no longer than what the mirror
holds, so that Backspace reaches its end in both at once. `BarFits`: the bar is
what its last refresh makes of run and mirror, and both stand. Each is proved
for each keystroke from what the sequence lemmas of the module say of the last
run of a text and of its cut.

**Injector.** Which modifiers a queued burst meets is decided by the bursts in
front of it, so `QueueFits` says that a course of modifier sets leads through the
queue, from those down now to those predicted, meeting each text burst at the set
it was built for (`Leads`). A cancel takes out bursts that change no set, so the
same course leads through what is left. `Handles` and `Steps` relate the lock,
the worker's handle and what each thread is about to do; `KeyIsHeld` says that a
key is down only while a deliverer is in the middle of its unit. For the
refinement `Numbered` adds that bursts are queued in the order of their numbers,
and that none of them has been cancelled. Handing in appends to `Backlog`; a unit
sent is its head; taking a burst off the queue leaves it as it was
(`PopOwesTheSame`); a cancel is `Cancel` of the queue with or without the unit in
flight. Every other step is a stutter.

**Caret polls.** A context that was left is bounded in time only because something
the code holds speaks against it, and `Pending` says what: the window in front is
not the one last seen (`BySwitch`), a press or its settling is under way over a
caret that is not where it was (`ByClick`), or the element in focus is not the one
last seen, and is read already or will be in time for the second poll
(`ByCommand`). Each comes with the ticks it may still take; the poll that makes the
last of them drops the context. In the other direction, as long as only typing goes
on the polls have nothing against the context (`AtPeace`), and an element's new name
is excused by the time since the last key (`RenamesExcused`): a name that appears
`ChurnTicks` after a key is read `ProbeTicks` later and looked at `PollTicks` after
that, all of it within `GraceTicks`, as `PollsAssumption` asks of the code's
second of grace.

**Dictation.** While a run is under way its text is all that was heard, and what
is typed is all of it or, if the run is held back, none (`Accounted`); a
polished, written or untyped run is held back (`HeldBack`); each waiting state has
exactly the resource it waits for (`StatesMatch`, `StreamWhole`). The steps are
grouped by how a run ends (`EndRun`, `Stop`, `FinishRun`, `Cancel`), each a lemma
used by several actions.

**Study.** `EngineLoader` and `StudySession` share few variables, and the run lets
the workers come to rest before a slot runs (`WorkersQuiet`) to keep its states
few. `ReductionIsSafe` proves the invariants of `AnyOrder`, which has no such
guard: what the run leaves out holds no violation.

**Chances.** The blended chance of a continuation is a fraction of sums over its
row. A sum over a finite set is a recursive function (`SumExists`), and it moves with
the one term that changes (`SumMoves`). What is shipped for an edge is the merged
count less the typings, and no step moves it but one that reads the tables in for
other words or over themselves (`StepKeepsBase`); so a sighting adds the same to
numerator and denominator of a fraction of at most one, and cannot lower it
(`Mediant`).

**Orders and ranks.** A list of the best few of a set is defined by what comes
first (`FirstBy`): in a strict total order those are the elements with fewer than
so many before them (`RankIsTaken`, `FirstsAgree`), and one outside them has at
least so many before it (`LateHasRank`). So a shortcut that looks at a part of the
candidates loses nothing when each candidate it leaves out has that many in front
of it that it keeps, and a row of the index that is updated in place is the row
that would be built again when its order and its words are the same (`RowKeptUp`).
A fused score is a fraction once demotions divide it, and comparing fractions is
transitive (`FractionsCompare`); whatever the strategy scores, more demotions put a
word behind no fewer than before, and leave the order of the others
(`BadGoesBack`, `MovedBack`).

**The beam.** It carries the best state of each prefix through the letters. A clean
hit costs nothing and is always among the keys within reach, so the prefix typed so
far is among the states at every letter (`PathsCarry`); the words it begins are
reached, and what strayed and beats them is moved, all by the same step, to just
below the best of them (`StraysArePutBelow`).

**Recursion.** The modules proved about define sequences by recursive functions
(`Uncancellable`, `FlattenSeq`, `Switches`), and sums over sets, products and the
paths of the recogniser as well (`SumExists`, `ProductIsNat`, `CarriedExists`). That such a function is there, and what
it returns, is proved by induction on the index, which is brought to first order:
the set of naturals up to which a claim holds, and the library's fact that a
nonempty set of naturals has a least element (`WFMin`, `NatLessThanWellFounded`).

**What the proofs changed in the models.** `TypingQueue` let a burst have as many
units as there are bursts, which refutes the refinement when `MaxUnits` is larger;
it has a constant of its own now. `Tracked` and the condition on token bars were
too wide for buffers cut more often than a run can, and were narrowed to the
keys they really hold for; `UserData`'s export, `DictationHistory`'s deletion and
the installer's start in `UpdateHandoff` were corrected where an invariant that
should have been inductive was not. In `CaretPolls` the history `left` charged the
polls with a caret that a physical key takes away and a click brings back within
one tick, which no poll can see: a third deed violates `LeftBehindIsDropped` so,
where the run has two. The click that ends there does not count now
(`BroughtBack`), and section 6 lists it. The totals of `NextWords` are the library's
sums, the paths of `WordIndexes` a recursive function on the letters, and `Ranking`'s
products one on their factors, where all were folds; and what their constants
are - words of letters, prices of whole numbers that a clean hit does not pay,
frequencies up to a greatest one, candidates with probabilities - is assumed by name.

**Model-checked only.** Every liveness property (`Drains`, `PrivacyCatchesUp`,
`EveryRunEnds`, `ScreenSettles`): TLAPS has no ENABLED. And the two violations.
Every other property of a passing run is a theorem.

## 6. Divergences

Two runs exhibit a disagreement between the code and what it says of itself:

1. `typing_counts` - the flag that says a run has been counted is cleared by
   every character, the mark that ends the run included (`KB:2067`), so an
   address completed by its pill is counted again by the comma behind it,
   against "One user action must not count as two sightings" (`KB:4157`).
2. `stores_rescue` - `importUserData` rescues the files on disk without saving
   the engine first, as `exportUserData` does (`KB:4546`): what was typed since
   the last save is in no archive (`docs/WHITEPAPER.md:480`).

Met while modelling, without a run of their own. *Modifiers and keys:*

- a right-click unlock clears its flags before the key-up, which may raise
  (`KB:2843`), against `_release_held`'s order (`KB:2791`);
- a trial begun while a modifier is held strands it at the desktop
  (`begin_study_capture` swaps the synthesiser first, `KB:1395`), and
  `_key_hold_seconds` is not told of a trial (`KB:5781`);
- the Windows backend inherits an empty `reset_modifier_state`, so the defensive
  reset at start-up (`KB:828`) does nothing there;
- a withheld space is sent before the letter under a held Ctrl (`KB:1948`), which
  `KB:1500` rules out; Ctrl+"." behind an automatic space also takes it back,
  and leaves the word pills of the old context on the bar.

*Text, bar and learning:*

- a word ended by a full stop never enters `_context_buffer` (`KB:2107`), so
  Backspace cannot return to it; a second space, an empty Return, an inserted
  glyph or snippet and a Space behind a token pill are not mirrored
  (`KB:2320`, `KB:1645`); a cut buffer, or Backspace over a comma, can leave a
  current word that is not the word at the caret (`KB:4206`);
- a second click inside a word clears the flag that says its beginning is missing,
  and the tail is learned, as is one retyped (`KB:1481`), one behind a dictated
  phrase, which drops the word in progress (`KB:4965`), one behind a phone or
  e-mail pill, and one typed after an import in mid-word;
- one typing of a word is counted again at each later space of its sentence
  (`KB:2355`, against `ngram_predictor.py:1359`), and a corrected word that was
  retracted returns that way;
- a token pill tapped on a run that contains a full stop corrupts the mirror
  (`KB:4118`); and the token pills themselves go stale when such a run is
  deleted: with word and context empty Backspace leaves the bar as it is
  (`KB:2374`);
- the release of a one-shot Shift does not recase the bar (`KB:2640`); forgetting
  a token, clearing the learned data and the explicit filter leave the bar as it
  was; `editPrediction` neither takes a deferred space nor sets the auto-space
  flag, and `pressPrediction` emits words past `_on_predictions_ready`;
- a password is learned when the wait for a reading runs out at the end of a word
  whose characters went out on waits that had run out too: the word goes to the
  learner unprotected (`KB:6198`). It is also when focus leaves the field for an
  ordinary one before a reading of the field was applied, and the word is ended
  there. `AnsweredSecretsStay` says that there is no third way.

*Caret polls:*

- a 250 ms poll between a key's send and the app's handling of it consumes the
  flag that excuses the caret's move, and the next poll drops a good context
  (`KB:5890`); one that comes between the end of a long insert and its last
  characters does the same (`KB:5929`, `platform/windows.py:1349`);
- a key in the tick of the app's late caret move takes the moved caret for its
  own and keeps a stale context; a caret left by the physical keyboard in the
  same period as a key is masked likewise; a command within 250 ms of the first
  letter, before the element is known, is never seen; a click that brings the caret
  back, within a tick, to where the last poll read it and a physical key had taken
  it from, is no move (`KB:6045`); what is typed in a new window before its switch
  is seen is wiped.

*Prediction:*

- the merged count of a word keeps what decay takes from the user's share of it;
  un-preferring after a decay can
  subtract organic counts; a retraction leaves the candidate's last-seen time;
- each launch adds a copy of the base dictionary's counts to the stored unigrams;
  words of a pack switched off stay there (`docs/WHITEPAPER.md:174`, `:742`);
  `reload_from_disk` reseeds even when the imported file was given up
  (`hybrid_predictor.py:1258`);
- the short-prefix rescue depends on the bar's size when a listed word is removed
  (`hybrid_predictor.py:367`); removed words take places of the 2n list, so the
  bar may be short; ties of the loglinear merge follow the order of a set; the
  optional refinement by a language model is reached by nothing;
- a grid may go stale when a new spatial model has the `id()` of the old
  (`fuzzy_recognizer.py:549`); `_protect_exact_completions` promises more than it
  keeps against completions it did not clamp; SymSpell misses words at distance
  2 that share no letter.

*Dictation and its history:*

- in a build without QtWebSockets a click opens the microphone after the run has
  already failed: only the ceiling and its own failure close it, and entering a
  password field does not (`dictation/controller.py:14` promises two automatic
  stops);
- a socket that closes after interim text only ends the run with no words, no
  audio kept and no message (`dictation/controller.py:466`); a microphone lost
  before the first final discards the recording;
- cancelling a live run, or its failure, aborts an unrelated reprocess;
  switching cleanup off does not abort one; `errorRaised` is documented as
  paired with a return to idle, which a capture failure with words in hand is
  not; a phrase delivered in edit mode is dropped though `runFinished` announces
  it; `toggleDictation` does not take the synchronous password check;
- `update_result` saves without pruning (`dictation/history.py:57`); after a
  rejected index the next recording and launch sweep the old recordings.

*Update and study:*

- a failed later check empties `_update_info` while the banner stays (`KB:4618`,
  `qml/Main.qml:1861`), and `installUpdate` has no guard against one in flight;
  overlapping check workers may answer out of order;
- after "parent stuck" the failure screen never learns of the parent's death;
  after "not approved" and Start the helper leaves though the prompt may still be
  accepted; a half-written executable passes `_new_exe_looks_fresh`; a stage
  whose process cannot be started is left behind;
- a withdrawal removes the log, then the state file, and swallows a failure of
  either (`study/config.py:262`, against its "real deletion"): one that is cut
  short between them leaves a cursor over an empty log, and the next process
  resumes a session whose earlier trials are gone;
- a resumed session's bundle lacks its earlier trials (`study_bridge.py:173`), and
  is not deleted by a withdrawal; a session reopened after its completion, and
  one ended for now, leave learning frozen until the program quits
  (`study_bridge.py:183`, `docs/STUDY_HARNESS.md:12`); consent once given is
  recorded for no later version; the workload's answers are lost on resumption.

*Files:*

- `NgramPredictor.load` merges capitalizations, so a previous user's survive an
  import (`data_export.py:44`); an unreadable model is taken for an empty one and
  overwritten at quit; a half-failed import leaves files partly replaced and the
  memory as it was; Clear Learned Data leaves the running sentence and the context
  buffer (`KB:5499`; an import empties both, `KB:4568`), so the words typed just
  before it are learned again, and saved, at the next space (`KB:2355`); a pack
  imported again, half way, loses the old copy; rescue
  archives outlive Clear Learned Data; which packs are on is kept nowhere;
- `SnippetStore.save` swallows a failed write, so an edit reported done may be
  gone at the next start.

## 7. Plan

Order: the most consequential copies first, then processes, then algorithms.

1. Done: sticky modifiers, injector with its abstract queue, typing context and
   suggestion bar, focus and privacy, caret polls, vocabulary gate, pair and
   triple counts, word indexes, lookup, ranking, dictation, update, engine
   loader with the study, user data, dictation history, snippets; proofs of the
   safety of all of them.
2. Proofs to add: of more that `NextWords` and `Ranking` promise, as properties of
   theirs are added; the lemmas on ranks are there for them.
3. To model, if the code moves there: autocorrect's decision over the lists of
   `Ranking`, telemetry's submission guard, dictation's settings.

## 8. Not modelled

Of the modelled components: what the password detector answers for a field, which
is taken to be right; what a tapped pill learns of the pairs its context makes;
key timing, auto-repeat and layouts; auto-capital
and casing of pills; compatibility mode's retyping in place of a selection, and
the per-app modes a user sets by hand; the order, number and eviction of token
pills; the plausibility filter (what is plausible is a choice of the step);
SymSpell's ranking of its candidates; the provider's wire format; where an OS key
goes; signatures and versions of an update, which are good or bad; the study's
measures and phrases; colours and pages of the snippets window.

Whole components:

- dictation's settings and prompts: files read at start and written on change,
  with no state between them; what a changed setting does to a run is in
  `Dictation`;
- key actions and glyphs: tables of what a rebound key types;
- autocorrect and the pointer model: thresholds on floating-point scores and
  Gaussian geometry, whose requirement is the examples of their tests;
- PPM and the transformer: floating-point escape probabilities, weighted zero in
  the merge, and an optional external model; PPM's file is in `UserData`;
- analytics and telemetry: counters and an opt-in submission nothing waits for;
  the telemetry worker keeps no state;
- platform backends and window placement: native calls; what they leave is the
  window server's state;
- the application shell, QML layout, build and packaging: the slots QML calls are
  the models' actions, the single-instance lock and the installer's part in an
  update are in `UpdateHandoff`.
