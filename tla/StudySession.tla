---------------------------- MODULE StudySession ----------------------------
(***************************************************************************)
(* The research study (study_bridge.py, study/): a plan of typing trials   *)
(* gone through step by step, over several days if need be, with learning  *)
(* frozen for the session and the keyboard typing into a recorder for the  *)
(* length of a trial.  It begins once the engine has been loaded, and any  *)
(* quit or crash must give back a keyboard that types and learns.          *)
(***************************************************************************)
EXTENDS EngineLoader, Sequences

CONSTANTS
    Practice, Scored,   \* phrases of each kind in a block
    MaxVersions,        \* releases with a consent form of their own
    MaxFaults           \* crashes, and writes that fail

ASSUME StudyAssumption ==
    Practice \in Nat /\ Scored \in Nat /\ MaxVersions \in Nat \ {0} /\ MaxFaults \in Nat

VARIABLES
    disk,      \* study.json
    log,       \* study_trials.jsonl: the steps whose trial is there
    bundle,    \* study-bundle.json: the steps it holds
    store,     \* StudyStore.state: what the process believes disk is
    session,   \* the Session, in memory only
    recorder,  \* the RecordingSynthesizer of the trial under way
    synth,     \* what the keyboard's _synth is
    frozen,    \* the engine's _learning_frozen
    window,    \* the study window
    version,   \* CONSENT_VERSION of the running release
    missing,   \* history: steps taken whose trial could not be appended, or was withdrawn
    faults

files == <<disk, log, bundle>>
studyVars == <<files, store, session, recorder, synth, frozen, window, version,
               missing, faults>>
vars == <<loaderVars, studyVars>>

Predictions(condition) == condition = "on"

\* Two conditions: a participant begins with either, by enrolment number.
Order(index) == IF index = 0 THEN <<"on", "off">> ELSE <<"off", "on">>

Steps(kind, condition, n) == [i \in 1 .. n |-> [kind |-> kind, condition |-> condition]]

Block(condition) ==
    Steps("practice", condition, Practice) \o Steps("trial", condition, Scored)
       \o Steps("workload", condition, 1)

Plan(index) ==
    Block(Order(index)[1]) \o Steps("break", Order(index)[1], 1) \o Block(Order(index)[2])

Length == 2 * (Practice + Scored) + 3
Positions == 1 .. Length

\* cursor: steps done.
NoState == [consent |-> 0, index |-> 0, cursor |-> 0]
NoSession == [live |-> FALSE, index |-> 0, cursor |-> 0, trials |-> {}]
NoRecorder == [on |-> FALSE, offers |-> FALSE, offered |-> FALSE]

IsComplete(s) == s.cursor >= Length
Current(s) == Plan(s.index)[s.cursor + 1]
TakesTrial(s) == s.live /\ ~IsComplete(s) /\ Current(s).kind \in {"practice", "trial"}

TypeOK ==
    /\ LoaderTypeOK
    /\ {disk, store} \subseteq [consent : 0 .. MaxVersions, index : {0, 1}, cursor : 0 .. Length]
    /\ log \subseteq Positions /\ bundle \subseteq Positions
    /\ session \in [live : BOOLEAN, index : {0, 1}, cursor : 0 .. Length,
                    trials : SUBSET Positions]
    /\ recorder \in [on : BOOLEAN, offers : BOOLEAN, offered : BOOLEAN]
    /\ synth \in {"desktop", "recorder"} /\ frozen \in BOOLEAN
    /\ window \in {"hidden", "open", "stopped"}
    /\ version \in 1 .. MaxVersions /\ missing \subseteq Positions /\ faults \in 0 .. MaxFaults

Init ==
    /\ LoaderInit
    /\ disk = NoState /\ log = {} /\ bundle = {}
    /\ store = NoState /\ session = NoSession /\ recorder = NoRecorder
    /\ synth = "desktop" /\ frozen = FALSE /\ window = "hidden"
    /\ version = 1 /\ missing = {} /\ faults = 0

----------------------------------------------------------------------------
(* What the slots are made of.                                             *)

Fault == faults < MaxFaults /\ faults' = faults + 1

\* A write that fails is logged, and the process goes on believing it.
Save(state) ==
    /\ store' = state
    /\ \/ disk' = state /\ UNCHANGED faults
       \/ Fault /\ UNCHANGED disk

HasConsented == store.consent = version

\* begin_study_capture: the offers are listened to where they can be seen.
BeginCapture(s) ==
    /\ recorder' = [on |-> TRUE, offers |-> Predictions(Current(s).condition), offered |-> FALSE]
    /\ synth' = "recorder"

EndCapture == recorder' = NoRecorder /\ synth' = "desktop"

\* The view follows the step, and one that takes a trial begins it.
SyncView(s) == IF TakesTrial(s) THEN BeginCapture(s) ELSE EndCapture

Idle == UiFree /\ ~closing

----------------------------------------------------------------------------
(* The slots, at the views that offer them.                                *)

OpenStudy ==
    /\ Idle /\ window = "hidden"
    /\ window' = "open"
    /\ IF HasConsented THEN SyncView(session) ELSE UNCHANGED <<recorder, synth>>
    /\ UNCHANGED <<files, store, session, frozen, version, missing, faults>>

\* record_consent keeps what is there, whatever version it was given to.
AgreeToConsent ==
    /\ Idle /\ window = "open" /\ ~HasConsented
    /\ IF store.consent > 0 THEN UNCHANGED <<disk, store, faults>>
       ELSE \E index \in {0, 1} : Save([consent |-> version, index |-> index, cursor |-> 0])
    /\ UNCHANGED <<log, bundle, session, recorder, synth, frozen, window, version, missing>>

\* Frozen before the session is published; a session resumes at its cursor.
StartSession ==
    /\ Idle /\ window = "open" /\ HasConsented /\ ~session.live
    /\ status = "ready" /\ engine = "real"
    /\ frozen' = TRUE
    /\ session' = [live |-> TRUE, index |-> store.index, cursor |-> store.cursor, trials |-> {}]
    /\ SyncView(session')
    /\ UNCHANGED <<files, store, window, version, missing, faults>>

\* A keystroke of the trial brings a row of suggestions.
NoteOffer ==
    /\ Idle /\ recorder.on /\ recorder.offers
    /\ recorder' = [recorder EXCEPT !.offered = TRUE]
    /\ UNCHANGED <<files, store, session, synth, frozen, window, version, missing, faults>>

\* _emit_progress, and what the view makes of it.
Progress(s) ==
    /\ session' = s
    /\ SyncView(s)
    /\ frozen' = (frozen /\ ~IsComplete(s))

Advanced(s) == [s EXCEPT !.cursor = @ + 1]

Recorded == [Advanced(session) EXCEPT !.trials = @ \cup {session.cursor + 1}]

\* The trial is written before the cursor moves.  Either write may fail, and the
\* slot goes on.
SubmitTrial ==
    /\ Idle /\ window = "open" /\ recorder.on
    /\ LET step == session.cursor + 1
           state == [store EXCEPT !.cursor = step]
       IN  \/ /\ log' = log \cup {step} /\ missing' = missing \ {step}
              /\ Save(state)
           \/ /\ Fault
              /\ missing' = missing \cup {step} /\ UNCHANGED log
              /\ store' = state /\ disk' = state
    /\ Progress(Recorded)
    /\ UNCHANGED <<bundle, window, version>>

\* The answers of a block, or the end of a break.
FinishStep(kind) ==
    /\ Idle /\ window = "open" /\ session.live /\ ~IsComplete(session)
    /\ Current(session).kind = kind
    /\ Save([store EXCEPT !.cursor = session.cursor + 1])
    /\ Progress(Advanced(session))
    /\ UNCHANGED <<log, bundle, window, version, missing>>

RecordWorkload == FinishStep("workload")
SkipStep == FinishStep("break")

\* "Stop", and closing the window in the middle of a trial.
RequestStop ==
    /\ Idle /\ window = "open" /\ recorder.on
    /\ EndCapture
    /\ window' = "stopped"
    /\ UNCHANGED <<files, store, session, frozen, version, missing, faults>>

ResumeFromStop ==
    /\ Idle /\ window = "stopped"
    /\ SyncView(session)
    /\ window' = "open"
    /\ UNCHANGED <<files, store, session, frozen, version, missing, faults>>

EndForNow ==
    /\ Idle /\ window # "hidden"
    /\ EndCapture
    /\ window' = "hidden"
    /\ UNCHANGED <<files, store, session, frozen, version, missing, faults>>

AtReview == window = "open" /\ session.live /\ IsComplete(session)

\* build_bundle has the session's own trials, not the log's.
BundleOf(s) == s.trials

MarkSubmitted == Save(store)

SaveBundle ==
    /\ Idle /\ AtReview
    /\ \/ bundle' = BundleOf(session) /\ MarkSubmitted
       \/ Fault /\ UNCHANGED <<bundle, disk, store>>
    /\ UNCHANGED <<log, session, recorder, synth, frozen, window, version, missing>>

\* Lines that leave the log with a withdrawal.
Withdrawn == missing' = missing \cup (log \ log')

\* The log goes and then the state.  Either may stay, and the process forgets
\* them all the same.
DiscardFiles ==
    /\ store' = NoState
    /\ \/ log' = {} /\ disk' = NoState /\ UNCHANGED faults
       \/ Fault /\ log' \in {{}, log} /\ disk' = disk
       \/ Fault /\ log' = log /\ disk' = NoState
    /\ Withdrawn

\* Capture and freeze end first.
Withdraw ==
    /\ Idle /\ AtReview
    /\ EndCapture /\ frozen' = FALSE /\ session' = NoSession
    /\ DiscardFiles
    /\ UNCHANGED <<bundle, window, version>>

\* (Slip) the quit leaves the study as it is.
QuitCapturing ==
    /\ ShutdownLoader
    /\ UNCHANGED studyVars

\* study.shutdown, then the bridge's.
Quit ==
    /\ ShutdownLoader
    /\ EndCapture /\ frozen' = FALSE
    /\ UNCHANGED <<files, store, session, window, version, missing, faults>>

----------------------------------------------------------------------------
(* The process.                                                            *)

\* What is in memory is made anew from what is on disk.
Reborn ==
    /\ store' = disk' /\ session' = NoSession /\ EndCapture /\ frozen' = FALSE
    /\ window' = "hidden"

\* A new release may have a new consent form.
NewProcess ==
    /\ Reborn
    /\ version' \in {version} \cup {v \in 1 .. MaxVersions : v = version + 1}
    /\ job' = [j \in Jobs |-> IF job[j].worker = "none" THEN NoJob ELSE Ended]
    /\ loader' = 0 /\ joining' = 0 /\ status' = "loading" /\ engine' = "standin"
    /\ closing' = FALSE
    /\ interp' = Normal(TRUE)
    /\ saved' = [active |-> 0, interval |-> "default", paused |-> FALSE]

Relaunch == closing /\ UNCHANGED <<files, missing, faults>> /\ NewProcess

\* (Slip) the cursor is written first.
KilledInSubmitBackwards ==
    disk' = [disk EXCEPT !.cursor = session.cursor + 1] /\ UNCHANGED <<log, bundle>>

\* submitTrial is under way, and only the first of its writes has been done.
KilledInSubmit ==
    log' = log \cup {session.cursor + 1} /\ UNCHANGED <<disk, bundle>>

\* So are saveBundle and withdraw.
KilledAtReview ==
    \/ bundle' = BundleOf(session) /\ UNCHANGED <<disk, log>>
    \/ log' = {} /\ UNCHANGED <<disk, bundle>>

Crash ==
    /\ Fault
    /\ \/ UNCHANGED files
       \/ recorder.on /\ KilledInSubmit
       \/ AtReview /\ KilledAtReview
    /\ Withdrawn
    /\ NewProcess

\* The same, in a process that goes on.
SecondBridge == NewBridge /\ UNCHANGED <<files, version, missing, faults>> /\ Reborn

----------------------------------------------------------------------------
StudyNext ==
    \/ OpenStudy \/ AgreeToConsent \/ StartSession \/ NoteOffer \/ SubmitTrial
    \/ RecordWorkload \/ SkipStep \/ RequestStop \/ ResumeFromStop \/ EndForNow
    \/ SaveBundle \/ Withdraw

\* The study's slots and a worker's steps touch nothing in common, so of their
\* orders only those in which the workers come first are explored.
WorkersQuiet == \A j \in Jobs : job[j].worker \in {"none", "gone"}

Next ==
    \/ LoaderNext /\ UNCHANGED studyVars
    \/ WorkersQuiet /\ StudyNext /\ UNCHANGED loaderVars
    \/ Quit \/ Relaunch \/ Crash \/ SecondBridge

Spec == Init /\ [][Next]_vars

----------------------------------------------------------------------------
(* Properties.                                                             *)

\* A trial neither types nor teaches; and whatever ends it, closing the window,
\* withdrawing, quitting, the keyboard types at the desktop again, and learns
\* once the session is gone.
TrialIsContained ==
    /\ IF recorder.on THEN synth = "recorder" /\ frozen /\ window = "open"
       ELSE synth = "desktop"
    /\ frozen => session.live /\ ~closing

\* "A crash costs the trial in flight and nothing earlier": whenever the process
\* dies, every trial before the cursor on disk is in the log on disk, but for
\* one that could not be written when it was last taken, and for those of a
\* withdrawal that was cut short between the log and the state.
LogCoversCursor ==
    \A p \in 1 .. disk.cursor :
       Plan(disk.index)[p].kind \in {"practice", "trial"} => p \in log \cup missing

=============================================================================
