----------------------------- MODULE Dictation -----------------------------
(***************************************************************************)
(* DictationController: one run at a time, from a click on the microphone  *)
(* button to the words in the application, through the microphone, the     *)
(* provider's stream, two automatic stops and, if wanted, Claude.  Phrases *)
(* are counted, not spelled; interim text is kept only as the fact that    *)
(* something came back.                                                    *)
(***************************************************************************)
EXTENDS Integers

CONSTANTS
    MaxPhrases,   \* bound: finals of one run
    Networked     \* subset of BOOLEAN: may a build lack QtWebSockets?

ASSUME ConstantsAssumption == MaxPhrases \in Nat /\ Networked \subseteq BOOLEAN

VARIABLES
    state,      \* _state
    mic,        \* is MicrophoneCapture running?
    stream,     \* _stream: NoStream, or the socket's condition
    silence,    \* is _silence_timer running?
    ceiling,    \* is _max_timer running?
    mode,       \* what start() decided for the run
    text,       \* phrases in _run_text
    got,        \* _got_transcript
    audio,      \* _pcm: 0 none, 1 under a second, 2 enough to keep
    request,    \* _request: "none", or the purpose it serves
    reprocess,  \* _reprocess_request is under way
    settings,   \* the live DictationConfig
    privacy,    \* the bridge's _privacy_mode
    networked,  \* does the build have network support?
    heard,      \* finals the provider sent in this run
    out,        \* what became of the run's words
    cancelled   \* has the user, or privacy mode, cancelled the run?

run == <<mode, text, got, audio>>
timers == <<silence, ceiling>>
world == <<settings, privacy, networked>>
vars == <<state, mic, stream, timers, run, request, reprocess, world, heard, out, cancelled>>

NoStream == [open |-> FALSE, up |-> FALSE, finishing |-> FALSE, asked |-> FALSE,
             acked |-> FALSE]
Opening == [NoStream EXCEPT !.open = TRUE]

Streams == [open : BOOLEAN, up : BOOLEAN, finishing : BOOLEAN, asked : BOOLEAN,
            acked : BOOLEAN]
Purposes == {"dictate", "write"}
Settings == [cleanup : BOOLEAN, inserts : BOOLEAN, types : BOOLEAN, history : BOOLEAN]
Modes == [purpose : Purposes, polish : BOOLEAN, accumulate : BOOLEAN, types : BOOLEAN,
          records : BOOLEAN]
Outcomes == [typed : Nat, shown : BOOLEAN, draft : BOOLEAN, kept : BOOLEAN]
NothingYet == [typed |-> 0, shown |-> FALSE, draft |-> FALSE, kept |-> FALSE]

TypeOK ==
    /\ state \in {"idle", "connecting", "listening", "finishing", "polishing"}
    /\ mic \in BOOLEAN /\ silence \in BOOLEAN /\ ceiling \in BOOLEAN
    /\ stream \in Streams
    /\ mode \in Modes
    /\ text \in 0..MaxPhrases /\ got \in BOOLEAN /\ audio \in 0..2
    /\ request \in Purposes \cup {"none"} /\ reprocess \in BOOLEAN
    /\ settings \in Settings /\ privacy \in BOOLEAN /\ networked \in BOOLEAN
    /\ heard \in 0..MaxPhrases
    /\ out \in Outcomes
    /\ cancelled \in BOOLEAN

\* start(): the mode is read from the settings once.  A run that is polished
\* is held back, and so is one whose words are not typed.
ModeOf(p) ==
    LET polish == p = "write" \/ settings.cleanup
    IN [purpose |-> p, polish |-> polish, types |-> settings.types,
        accumulate |-> polish \/ ~settings.inserts \/ ~settings.types,
        records |-> settings.history]

Init ==
    /\ state = "idle" /\ mic = FALSE /\ stream = NoStream /\ silence = FALSE /\ ceiling = FALSE
    /\ settings \in Settings /\ mode = ModeOf("dictate")
    /\ text = 0 /\ got = FALSE /\ audio = 0
    /\ request = "none" /\ reprocess = FALSE
    /\ privacy = FALSE /\ networked \in Networked
    /\ heard = 0 /\ out = NothingYet /\ cancelled = FALSE

Active == state # "idle"
Live == state \in {"connecting", "listening"}

-----------------------------------------------------------------------------
(* How a run ends.                                                         *)

\* Both timers and the microphone stop.
Quiet == silence' = FALSE /\ ceiling' = FALSE /\ mic' = FALSE

\* The stream is dropped and the run forgotten.
EndRun ==
    /\ Quiet /\ stream' = NoStream
    /\ text' = 0 /\ audio' = 0 /\ UNCHANGED <<mode, got>>
    /\ state' = "idle"

\* DictationHistory.add may refuse.
StoreKeeps == IF mode.records THEN BOOLEAN ELSE {FALSE}

\* _emit_run_finished and _record, after n phrases were typed.
Announce(n) ==
    \E kept \in StoreKeeps :
        out' = [out EXCEPT !.typed = @ + n, !.shown = TRUE, !.kept = kept]

\* _deliver
Deliverable == IF mode.types THEN text ELSE 0

\* The end of a run without Claude: streamed phrases are already typed.
HandOver == Announce(IF mode.accumulate THEN Deliverable ELSE 0)

FinishByLiveSettings ==
    \/ text = 0 /\ EndRun /\ UNCHANGED <<request, out>>
    \/ /\ text > 0 /\ (mode.purpose = "write" \/ settings.cleanup)
       /\ Quiet /\ stream' = NoStream /\ state' = "polishing"
       /\ request' = mode.purpose
       /\ UNCHANGED <<run, out>>
    \/ text > 0 /\ ~(mode.purpose = "write" \/ settings.cleanup) /\ EndRun /\ HandOver
       /\ UNCHANGED request

\* _finish_run: nothing said, words for Claude, or words to hand over now.
FinishRun ==
    \/ text = 0 /\ EndRun /\ UNCHANGED <<request, out>>
    \/ /\ text > 0 /\ mode.polish
       /\ Quiet /\ stream' = NoStream /\ state' = "polishing"
       /\ request' = mode.purpose
       /\ UNCHANGED <<run, out>>
    \/ text > 0 /\ ~mode.polish /\ EndRun /\ HandOver /\ UNCHANGED request

\* cancel(): requests are aborted, and whatever is in flight is dropped.
Cancel ==
    /\ request' = "none" /\ reprocess' = FALSE
    /\ IF Active THEN EndRun ELSE UNCHANGED <<state, mic, stream, timers, run>>

StopForgetsStream ==
    /\ Quiet /\ state' = "finishing"
    /\ UNCHANGED <<stream, run, request, reprocess, out>>

\* stop(): the microphone closes, the socket stays up to be flushed.  A
\* CloseStream on a socket that is not up yet is lost.
Stop ==
    /\ Quiet /\ state' = "finishing"
    /\ stream' = IF stream.finishing THEN stream
                 ELSE [stream EXCEPT !.finishing = TRUE, !.asked = stream.up]
    /\ UNCHANGED <<run, request, reprocess, out>>

-----------------------------------------------------------------------------
(* The user, through the bridge.                                           *)

\* start(), of a build without network support: the stream fails before it
\* exists and tears the run down, and start() goes on to the microphone.
StartWithoutNetwork ==
    /\ ~networked
    /\ reprocess' = FALSE
    /\ state' = "idle" /\ stream' = NoStream /\ silence' = FALSE
    /\ mic' \in BOOLEAN /\ ceiling' = mic'

\* start(), when the microphone opens; or it does not, and the run ends.
StartCapture ==
    /\ networked
    /\ \/ /\ state' = "connecting" /\ stream' = Opening
          /\ mic' = TRUE /\ silence' = TRUE /\ ceiling' = TRUE
          /\ UNCHANGED reprocess
       \/ /\ state' = "idle" /\ UNCHANGED <<stream, mic, timers>>
          /\ reprocess' = FALSE

\* A click on either button, while idle.
Start(p) ==
    /\ state = "idle" /\ ~privacy
    /\ mode' = ModeOf(p) /\ text' = 0 /\ got' = FALSE /\ audio' = 0
    /\ heard' = 0 /\ out' = NothingYet /\ cancelled' = FALSE
    /\ StartWithoutNetwork \/ StartCapture
    /\ UNCHANGED <<request, world>>

\* A click while a run is under way; Claude's turn is not interrupted.
ClickAgain ==
    /\ state \in {"connecting", "listening", "finishing"} /\ ~privacy
    /\ Stop
    /\ UNCHANGED <<world, heard, cancelled>>

PrivacyOnlyStops ==
    /\ ~privacy /\ privacy' = TRUE
    /\ IF state \in {"connecting", "listening", "finishing"} THEN Stop
       ELSE UNCHANGED <<state, mic, stream, timers, run, request, reprocess, out>>
    /\ UNCHANGED <<settings, networked, heard, cancelled>>

\* A password field is focused, or left.
EnterPrivacy ==
    /\ ~privacy /\ privacy' = TRUE
    /\ Cancel /\ cancelled' = TRUE
    /\ UNCHANGED <<settings, networked, heard, out>>
LeavePrivacy ==
    /\ privacy /\ privacy' = FALSE
    /\ UNCHANGED <<state, mic, stream, timers, run, request, reprocess, settings, networked,
                   heard, out, cancelled>>

\* Settings are changed, whatever is under way.
ChangeSettings ==
    /\ settings' \in Settings
    /\ UNCHANGED <<state, mic, stream, timers, run, request, reprocess, privacy, networked,
                   heard, out, cancelled>>

\* Dictation is switched off, a key is cleared, or the application shuts
\* down; of a write run, also when writing is switched off.
SwitchOff ==
    /\ Cancel /\ cancelled' = TRUE
    /\ UNCHANGED <<world, heard, out>>

\* reprocess(): a history entry is sent to be cleaned up again.
Reprocess ==
    /\ ~privacy /\ ~Active /\ ~reprocess /\ settings.cleanup
    /\ reprocess' = TRUE
    /\ UNCHANGED <<state, mic, stream, timers, run, request, world, heard, out, cancelled>>

-----------------------------------------------------------------------------
(* The microphone and the timers.                                          *)

\* _on_chunk, as far as it is recorded: up to _pcm_cap.
Chunk ==
    /\ mic /\ mode.records /\ audio < 2
    /\ audio' = audio + 1
    /\ UNCHANGED <<state, mic, stream, timers, mode, text, got, request, reprocess, world,
                   heard, out, cancelled>>

CaptureFailureCancels ==
    /\ mic /\ Active
    /\ Cancel
    /\ UNCHANGED <<world, heard, out, cancelled>>

\* The device vanishes.  With words in hand that is a stop, else a cancel.
CaptureFails ==
    /\ mic
    /\ \/ text > 0 /\ Stop
       \/ text = 0 /\ Active /\ Cancel /\ UNCHANGED out
       \/ /\ text = 0 /\ ~Active /\ mic' = FALSE /\ request' = "none" /\ reprocess' = FALSE
          /\ UNCHANGED <<state, stream, timers, run, out>>
    /\ UNCHANGED <<world, heard, cancelled>>

\* _on_silence.  (Sound, an interim and a final only put it off.)
SilenceTimeout ==
    /\ silence /\ Live
    /\ Stop
    /\ UNCHANGED <<world, heard, cancelled>>

\* _on_max_duration, which does nothing when no run is under way.
MaxDuration ==
    /\ ceiling
    /\ \/ Active /\ Stop
       \/ /\ ~Active /\ ceiling' = FALSE
          /\ UNCHANGED <<state, mic, stream, silence, run, request, reprocess, out>>
    /\ UNCHANGED <<world, heard, cancelled>>

-----------------------------------------------------------------------------
(* The stream.                                                             *)

\* The socket opens.
Opened ==
    /\ stream.open /\ ~stream.up
    /\ stream' = [stream EXCEPT !.up = TRUE]
    /\ state' = IF state = "connecting" THEN "listening" ELSE state
    /\ UNCHANGED <<mic, timers, run, request, reprocess, world, heard, out, cancelled>>

\* _restart_silence_timer
SilencePutOff == silence' = (silence \/ Live)

\* _on_interim
Interim ==
    /\ stream.up /\ ~stream.acked
    /\ got' = TRUE /\ SilencePutOff
    /\ UNCHANGED <<state, mic, stream, ceiling, mode, text, audio, request, reprocess, world,
                   heard, out, cancelled>>

\* _on_final: typed at once unless the run is held back.
Final ==
    /\ stream.up /\ ~stream.acked /\ heard < MaxPhrases
    /\ got' = TRUE /\ SilencePutOff
    /\ text' = text + 1 /\ heard' = heard + 1
    /\ out' = IF mode.accumulate THEN out ELSE [out EXCEPT !.typed = @ + 1]
    /\ UNCHANGED <<state, mic, stream, ceiling, mode, audio, request, reprocess, world,
                   cancelled>>

\* The provider's summary: the flush is complete.
Acknowledged ==
    /\ stream.up /\ stream.asked /\ ~stream.acked
    /\ stream' = [stream EXCEPT !.acked = TRUE]
    /\ UNCHANGED <<state, mic, timers, run, request, reprocess, world, heard, out, cancelled>>

\* _keep_failed_audio: an entry without words, if there is enough to play.
KeepFailedAudio ==
    \E kept \in IF audio = 2 THEN StoreKeeps ELSE {FALSE} : out' = [out EXCEPT !.kept = kept]

\* A connect timeout, a flush timeout, a socket error, or a socket that
\* closes before it has acknowledged the flush: _on_stream_failed.
StreamFails ==
    /\ stream.open
    /\ \/ text > 0 /\ FinishRun /\ UNCHANGED reprocess
       \/ text = 0 /\ KeepFailedAudio /\ Cancel
    /\ UNCHANGED <<world, heard, cancelled>>

\* The socket closes in good order, or before any flush was asked for:
\* _on_stream_closed, which calls a close before any answer a failure.
StreamCloses ==
    /\ stream.open /\ (stream.finishing => stream.acked)
    /\ \/ /\ state # "finishing" /\ ~got
          /\ KeepFailedAudio /\ EndRun /\ UNCHANGED request
       \/ (state = "finishing" \/ got) /\ FinishRun
    /\ UNCHANGED <<reprocess, world, heard, cancelled>>

-----------------------------------------------------------------------------
(* Claude.                                                                 *)

\* _on_polished
Polished ==
    /\ request # "none" /\ request' = "none"
    /\ EndRun
    /\ \/ request = "write" /\ \E kept \in StoreKeeps :
              out' = [out EXCEPT !.draft = TRUE, !.kept = kept]
       \/ request = "dictate" /\ Announce(Deliverable)
    /\ UNCHANGED <<reprocess, world, heard, cancelled>>

\* _on_polish_failed: the words as spoken; a written request is shown when
\* history did not take it.
PolishFails ==
    /\ request # "none" /\ request' = "none"
    /\ EndRun
    /\ \/ request = "write" /\ \E kept \in StoreKeeps :
              out' = [out EXCEPT !.draft = ~kept, !.kept = kept]
       \/ request = "dictate" /\ Announce(Deliverable)
    /\ UNCHANGED <<reprocess, world, heard, cancelled>>

ReprocessEnds ==
    /\ reprocess /\ reprocess' = FALSE
    /\ UNCHANGED <<state, mic, stream, timers, run, request, world, heard, out, cancelled>>

-----------------------------------------------------------------------------

Next ==
    \/ \E p \in Purposes : Start(p)
    \/ ClickAgain \/ EnterPrivacy \/ LeavePrivacy \/ ChangeSettings \/ SwitchOff \/ Reprocess
    \/ Chunk \/ CaptureFails \/ SilenceTimeout \/ MaxDuration
    \/ Opened \/ Interim \/ Final \/ Acknowledged \/ StreamFails \/ StreamCloses
    \/ Polished \/ PolishFails \/ ReprocessEnds

\* The provider's connect timer runs until the socket is up, its flush timer
\* once it has been asked to finish.
ProviderTimeout == (~stream.up \/ stream.finishing) /\ StreamFails

\* Single-shot Qt timers fire: the ceiling, the provider's two, Claude's.
Fairness ==
    /\ WF_vars(MaxDuration) /\ WF_vars(ProviderTimeout) /\ WF_vars(PolishFails)

Spec == Init /\ [][Next]_vars /\ Fairness

-----------------------------------------------------------------------------
(* Properties.                                                             *)

\* A click that does not register cannot leave the microphone live: while it
\* runs so does the ceiling, in a state whose next end closes it.  (A build
\* without network support opens it with no run to end: see MicHasRun.)
MicIsBounded == networked /\ mic => Live /\ ceiling

\* In a password field nothing is listened to, sent or waited for.
PrivacyIsSilent ==
    privacy => ~Active /\ request = "none" /\ ~reprocess /\ (networked => ~mic)

\* No phrase is typed twice, and none of a draft's or of a run whose words
\* are not to be typed, even if the settings change on the way.
WordsOnce ==
    /\ out.typed <= heard
    /\ out.typed > 0 => mode.types /\ mode.purpose = "dictate"

\* Speech is never lost because of Claude, the socket or the microphone: a
\* run that was not cancelled has typed all it heard, or shown it, or (of a
\* request to write) has a draft or a record to show.
NothingLost ==
    ~Active /\ ~cancelled /\ heard > 0 =>
        IF mode.purpose = "write" THEN out.draft \/ out.kept
        ELSE out.shown /\ (mode.types => out.typed = heard)

\* Every run ends, whatever the provider and Claude do.
EveryRunEnds == Active ~> ~Active

=============================================================================
