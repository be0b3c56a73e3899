---------------------------- MODULE FocusPrivacy ----------------------------
(***************************************************************************)
(* Password fields.  A probe thread reads what has focus and publishes its *)
(* readings; the UI thread applies them on a timer, on a queued signal and *)
(* on every keystroke, where it waits a bounded time for a fresh one.      *)
(* While privacy mode is on nothing typed reaches the word in progress or  *)
(* the learner.                                                            *)
(*                                                                         *)
(* Sequence numbers are kept relative, so the probe may read for ever: a   *)
(* reading is "new" while its seq is above _focus_applied_seq, and a       *)
(* keystroke counts the readings that must still complete before its own.  *)
(* A reading is "young" until _FOCUS_READING_FRESH_S has passed; the user  *)
(* moves focus or the shield no faster than that, and not while a key of   *)
(* theirs is still being sent.                                             *)
(***************************************************************************)
EXTENDS Integers, Sequences, SequencesExt

CONSTANTS
    Windows,    \* top-level windows
    MaxMoves,   \* bound: what the user and the desktop do to focus
    MaxKeys,    \* bound: keystrokes
    MaxSignals  \* bound: readings queued for an idle UI thread

ASSUME ConstantsAssumption ==
    /\ 0 \notin Windows
    /\ MaxMoves \in Nat /\ MaxKeys \in Nat /\ MaxSignals \in Nat \ {0}

VARIABLES
    window,    \* the window the user is in
    blank,     \* GetForegroundWindow reads 0 just now
    secret,    \* is the focused element a password field?
    probe,     \* where the probe thread is in its reading, and what it has
    latest,    \* _latest
    signals,   \* readings on their way to _on_focus_reading
    key,       \* the keystroke waiting for a reading: "none", "char" or "end"
    want,      \* readings that must complete before the one it waits for
    privacy,   \* _privacy_mode
    manual,    \* _privacy_mode_manual
    tainted,   \* does _current_word hold characters of a password?
    carried,   \* has their field been left unprotected?
    slips,     \* how such words reached the learner
    moves, keys

desktop == <<window, blank, secret, moves>>
bridge == <<privacy, manual, tainted, carried, slips>>
vars == <<desktop, probe, latest, signals, key, want, bridge, keys>>

Hwnds == Windows \cup {0}
Readings == [hwnd: Hwnds, secret: BOOLEAN, new: BOOLEAN]
Latests == [hwnd: Hwnds, secret: BOOLEAN, new: BOOLEAN, young: BOOLEAN]
Probes == [at: {"idle", "begun", "located", "read"},
           hwnd: Hwnds, secret: BOOLEAN, young: BOOLEAN]

\* In particular privacy chosen by hand stays on, and readings queue up no
\* further than two for each keystroke that waits.
TypeOK ==
    /\ window \in Windows /\ blank \in BOOLEAN /\ secret \in BOOLEAN
    /\ probe \in Probes /\ latest \in Latests
    /\ signals \in Seq(Readings) /\ Len(signals) <= MaxSignals + 2 * MaxKeys
    /\ key \in {"none", "char", "end"} /\ want \in 0..2
    /\ privacy \in BOOLEAN /\ manual \in BOOLEAN
    /\ tainted \in BOOLEAN /\ carried \in BOOLEAN
    /\ slips \subseteq {"answered", "unanswered", "carried"}
    /\ moves \in 0..MaxMoves /\ keys \in 0..MaxKeys
    /\ manual => privacy

\* start_focus_probe, and the first reading of an ordinary field.
Init ==
    /\ window \in Windows /\ blank = FALSE /\ secret = FALSE
    /\ probe = [at |-> "idle", hwnd |-> window, secret |-> FALSE, young |-> FALSE]
    /\ latest = [hwnd |-> window, secret |-> FALSE, new |-> FALSE, young |-> FALSE]
    /\ signals = <<>>
    /\ key = "none" /\ want = 0
    /\ privacy = FALSE /\ manual = FALSE
    /\ tainted = FALSE /\ carried = FALSE /\ slips = {}
    /\ moves = 0 /\ keys = 0

UIFree == key = "none"

\* _get_foreground_window_id
Foreground == IF blank THEN 0 ELSE window

-----------------------------------------------------------------------------
(* The user and the desktop.                                               *)

\* Time for every reading so far to grow old.
AllAge ==
    /\ probe' = [probe EXCEPT !.young = FALSE]
    /\ latest' = [latest EXCEPT !.young = FALSE]

\* Focus moves to a field of window w.
MoveFocus(w, s) ==
    /\ UIFree /\ moves < MaxMoves /\ <<w, s>> # <<window, secret>>
    /\ window' = w /\ secret' = s /\ moves' = moves + 1
    /\ blank' \in {blank, w # window}
    /\ carried' = (tainted /\ ~privacy)
    /\ AllAge
    /\ UNCHANGED <<signals, key, want, privacy, manual, tainted, slips, keys>>

\* The foreground goes blank for an instant with focus where it is.
ForegroundBlanks ==
    /\ UIFree /\ ~blank /\ moves < MaxMoves
    /\ blank' = TRUE /\ moves' = moves + 1
    /\ UNCHANGED <<window, secret, probe, latest, signals, key, want, bridge, keys>>

ForegroundReturns ==
    /\ blank
    /\ blank' = FALSE
    /\ UNCHANGED <<window, secret, moves, probe, latest, signals, key, want, bridge, keys>>

\* _FOCUS_READING_FRESH_S passes.
ReadingAges ==
    /\ latest.young
    /\ latest' = [latest EXCEPT !.young = FALSE]
    /\ UNCHANGED <<desktop, probe, signals, key, want, bridge, keys>>

-----------------------------------------------------------------------------
(* The probe thread: _take, in its order.                                  *)

ReadBegins ==
    /\ probe.at = "idle" /\ (Len(signals) < MaxSignals \/ want > 0)
    /\ probe' = [probe EXCEPT !.at = "begun", !.young = TRUE]
    /\ UNCHANGED <<desktop, latest, signals, key, want, bridge, keys>>

WindowIsRead ==
    /\ probe.at = "begun"
    /\ probe' = [probe EXCEPT !.at = "located", !.hwnd = Foreground]
    /\ UNCHANGED <<desktop, latest, signals, key, want, bridge, keys>>

ElementIsRead ==
    /\ probe.at = "located"
    /\ probe' = [probe EXCEPT !.at = "read", !.secret = secret]
    /\ UNCHANGED <<desktop, latest, signals, key, want, bridge, keys>>

ReadCompletes ==
    /\ probe.at = "read"
    /\ LET r == [hwnd |-> probe.hwnd, secret |-> probe.secret, new |-> TRUE] IN
         /\ latest' = [hwnd |-> r.hwnd, secret |-> r.secret, new |-> TRUE,
                       young |-> probe.young]
         /\ signals' = Append(signals, r)
    /\ want' = IF want > 0 THEN want - 1 ELSE 0
    /\ probe' = [probe EXCEPT !.at = "idle"]
    /\ UNCHANGED <<desktop, key, bridge, keys>>

-----------------------------------------------------------------------------
(* The UI thread.                                                          *)

AppliesAnyOrder(r) == r.hwnd = Foreground

\* _apply_focus_reading: neither overtaken nor about another window.
Applies(r) == r.new /\ r.hwnd = Foreground

\* Which readings move _focus_applied_seq up to their own.
MovesWatermark(r) == Applies(r)

KeepsWord(r) == tainted

\* _apply_password_state, and _enter_privacy_mode's wipe.
PrivacyAfter(r) == IF Applies(r) THEN r.secret ELSE privacy
TaintedAfter(r) == tainted /\ ~(PrivacyAfter(r) /\ ~privacy)

Overtaken(q) == [i \in DOMAIN q |-> [q[i] EXCEPT !.new = FALSE]]

\* The latest reading is applied, or dropped.
ApplyLatest ==
    /\ privacy' = PrivacyAfter(latest)
    /\ IF MovesWatermark(latest)
       THEN latest' = [latest EXCEPT !.new = FALSE] /\ signals' = Overtaken(signals)
       ELSE UNCHANGED <<latest, signals>>

\* The keystroke k goes out with privacy p, its own reading come or not (how),
\* and the word in progress tainted if t: a character joins it, the end of a
\* word hands it to the learner.
Type(k, p, t, how) ==
    /\ tainted' = (k = "char" /\ (t \/ (secret /\ ~p)))
    /\ carried' = (k = "char" /\ t /\ carried)
    /\ slips' = IF k = "end" /\ ~p /\ t
                THEN slips \cup {IF carried THEN "carried" ELSE how} ELSE slips

TypeOnLatest(k) ==
    ApplyLatest /\ Type(k, privacy', TaintedAfter(latest), "answered")

TypeAsItIs(k) ==
    Type(k, privacy, tainted, "unanswered") /\ UNCHANGED <<privacy, latest, signals>>

\* FocusProbe.request waits for a reading that begins after it.
NextToBegin == IF probe.at = "idle" THEN 1 ELSE 2

\* _check_password_field_sync: use a young reading of this window, or ask.
\* An activation change is over before the user goes on typing.
KeyArrives(k) ==
    /\ UIFree /\ keys < MaxKeys /\ ~blank
    /\ keys' = keys + 1
    /\ IF manual
       THEN TypeAsItIs(k) /\ UNCHANGED <<key, want>>
       ELSE IF latest.young /\ latest.hwnd = Foreground
       THEN TypeOnLatest(k) /\ UNCHANGED <<key, want>>
       ELSE /\ key' = k /\ want' = NextToBegin
            /\ UNCHANGED <<privacy, latest, signals, tainted, carried, slips>>
    /\ UNCHANGED <<desktop, probe, manual>>

AnswerArrives ==
    /\ key # "none" /\ want = 0
    /\ TypeOnLatest(key)
    /\ key' = "none"
    /\ UNCHANGED <<desktop, probe, want, manual, keys>>

\* _FOCUS_REQUEST_TIMEOUT_S runs out: the key goes out on what was known.
WaitTimesOut ==
    /\ want > 0
    /\ TypeAsItIs(key)
    /\ key' = "none" /\ want' = 0
    /\ UNCHANGED <<desktop, probe, manual, keys>>

ListensInTheClear == ~privacy

\* Does automatic detection have a say?
Listening == ~manual

\* _on_focus_reading.
SignalArrives ==
    /\ UIFree /\ signals # <<>>
    /\ LET r == Head(signals) IN
       IF Listening
       THEN /\ privacy' = PrivacyAfter(r) /\ tainted' = TaintedAfter(r)
            /\ carried' = (carried /\ tainted')
            /\ latest' = IF MovesWatermark(r) /\ Len(signals) = 1
                         THEN [latest EXCEPT !.new = FALSE] ELSE latest
       ELSE UNCHANGED <<privacy, tainted, carried, latest>>
    /\ signals' = Tail(signals)
    /\ UNCHANGED <<desktop, probe, key, want, manual, slips, keys>>

\* The 200 ms timer, _check_password_field.
TimerChecks ==
    /\ UIFree /\ Listening
    /\ ApplyLatest
    /\ tainted' = TaintedAfter(latest) /\ carried' = (carried /\ tainted')
    /\ UNCHANGED <<desktop, probe, key, want, manual, slips, keys>>

\* _reset_typing_context, when a poll, a click or Tab finds the caret elsewhere.
ContextIsReset ==
    /\ UIFree /\ tainted
    /\ tainted' = FALSE /\ carried' = FALSE
    /\ UNCHANGED <<desktop, probe, latest, signals, key, want, privacy, manual, slips, keys>>

\* setPrivacyMode, the user's own choice.
SetPrivacyMode(on) ==
    /\ UIFree /\ on # privacy /\ moves < MaxMoves
    /\ manual' = on /\ privacy' = on
    /\ tainted' = (tainted /\ ~on) /\ carried' = (carried /\ ~on)
    /\ moves' = moves + 1
    /\ AllAge
    /\ UNCHANGED <<window, blank, secret, signals, key, want, slips, keys>>

-----------------------------------------------------------------------------

Probe == ReadBegins \/ WindowIsRead \/ ElementIsRead \/ ReadCompletes

Next ==
    \/ \E w \in Windows, s \in BOOLEAN : MoveFocus(w, s)
    \/ ForegroundBlanks \/ ForegroundReturns
    \/ ReadingAges
    \/ Probe
    \/ \E k \in {"char", "end"} : KeyArrives(k)
    \/ AnswerArrives \/ WaitTimesOut
    \/ SignalArrives \/ TimerChecks \/ ContextIsReset
    \/ \E on \in BOOLEAN : SetPrivacyMode(on)

\* The probe loops, the event loop runs, and an activation change ends.
Fairness ==
    /\ WF_vars(Probe)
    /\ WF_vars(AnswerArrives)
    /\ WF_vars(SignalArrives)
    /\ WF_vars(ForegroundReturns)

Spec == Init /\ [][Next]_vars /\ Fairness

-----------------------------------------------------------------------------
(* Properties.                                                             *)

\* A word with characters of a password reaches the learner only where nothing
\* answered for their field: the bounded wait of its last key ran out as those
\* of the characters had, or the field was left before a reading of it was
\* applied.  The key's own reading, or a late one, is never too late otherwise
\* (_check_password_field_sync, _on_focus_reading).
AnsweredSecretsStay == "answered" \notin slips

\* A reading no newer than the last applied one never switches protection
\* off: only a newer reading of this very window does, or the user.
OlderNeverUndoes ==
    [][privacy /\ ~privacy' =>
         \/ SetPrivacyMode(FALSE)
         \/ \E r \in {latest} \cup ToSet(signals) :
              r.new /\ r.hwnd = Foreground /\ ~r.secret]_vars

\* Once focus rests, privacy mode is right and stays right.
PrivacyCatchesUp == <>[](manual \/ privacy = secret)

=============================================================================
