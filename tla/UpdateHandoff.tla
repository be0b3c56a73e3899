--------------------------- MODULE UpdateHandoff ---------------------------
(***************************************************************************)
(* An update of the keyboard, across the processes that take part in it:   *)
(* the keyboard and its install worker (updater.py), the elevated          *)
(* installer that closes it, and the helper that keeps a screen up in      *)
(* between and starts the new keyboard (_update_relauncher.py).  They meet *)
(* only through marker files in the helper's stage, a hand-off file and a  *)
(* named event, and each of them may die between any two steps.            *)
(***************************************************************************)
EXTENDS Naturals

CONSTANTS
    MaxAttempts,   \* installs the user tries from one keyboard
    MaxFaults      \* processes that crash, probes and splash screens that raise,
                   \* while the first attempt is the last

ASSUME BoundsAssumption == MaxAttempts \in Nat /\ MaxFaults \in Nat

Attempts == 1 .. MaxAttempts

VARIABLES
    info,       \* _update_info is set
    worker,     \* where the install worker thread is
    attempt,    \* the attempt it is at, or the last one
    stage,      \* of each attempt: the helper's files, its lock, the two markers
    kbd,        \* the keyboard process: at most one, by the single-instance lock
    exe,        \* the installed alpha-osk.exe
    installer,  \* the elevated installer of the last accepted attempt
    helper,     \* of each attempt: the helper process and its UpdateFlow
    handoff,    \* update_handoff.json exists
    toast,      \* history: version of the keyboard that announced an update
    faults      \* faults so far

vars == <<info, worker, attempt, stage, kbd, exe, installer, helper, handoff,
          toast, faults>>

NoStage == [files |-> "none", lock |-> FALSE, launched |-> FALSE, cancel |-> FALSE]

\* phase is UpdateFlow's; the headless path goes through the first four.
\* dead: parent_death_time is known.  confirmed, pending, watch: _install_confirmed,
\* _start_pending, _watch_after_failure.  snapshot: --old-exe-mtime was given.
NoHelper == [proc |-> "none", mode |-> "splash", phase |-> "approve", snapshot |-> FALSE,
             dead |-> FALSE, confirmed |-> FALSE, pending |-> FALSE, watch |-> TRUE]

NoKeyboard == [st |-> "none", ver |-> "old", parent |-> FALSE, announced |-> FALSE]

Stages == [files : {"none", "building", "ready", "failed", "taken"},
           lock : BOOLEAN, launched : BOOLEAN, cancel : BOOLEAN]

Helpers ==
    [proc : {"none", "starting", "up", "gone"}, mode : {"splash", "headless"},
     phase : {"approve", "closing", "installing", "starting", "done", "failed", "cancelled"},
     snapshot : BOOLEAN, dead : BOOLEAN, confirmed : BOOLEAN,
     pending : BOOLEAN, watch : BOOLEAN]

Keyboards == [st : {"none", "starting", "shown"}, ver : {"old", "new"},
              parent : BOOLEAN, announced : BOOLEAN]

TypeOK ==
    /\ info \in BOOLEAN
    /\ worker \in {"idle", "download", "pin", "verify", "spawn", "wait", "prompt", "mark", "done", "dead"}
    /\ attempt \in 0 .. MaxAttempts
    /\ stage \in [Attempts -> Stages] /\ helper \in [Attempts -> Helpers]
    /\ kbd \in Keyboards
    /\ exe \in {"old", "missing", "writing", "partial", "new"}
    /\ installer \in {"none", "running", "removing", "writing", "finishing", "done", "aborted"}
    /\ handoff \in BOOLEAN
    /\ toast \in {"none", "old", "new"}
    /\ faults \in 0 .. MaxFaults

Init ==
    /\ info = FALSE
    /\ worker = "idle"
    /\ attempt = 0
    /\ stage = [a \in Attempts |-> NoStage]
    /\ kbd = [st |-> "shown", ver |-> "old", parent |-> TRUE, announced |-> TRUE]
    /\ exe = "old"
    /\ installer = "none"
    /\ helper = [a \in Attempts |-> NoHelper]
    /\ handoff = FALSE
    /\ toast = "none"
    /\ faults = 0

----------------------------------------------------------------------------
(* What the processes can see of one another.                              *)

ParentAlive == kbd.st # "none" /\ kbd.parent

\* The named event is set once a keyboard's window has been drawn, and lives
\* while that keyboard does.
KeyboardShown == kbd.st = "shown" /\ kbd.announced

InstallerAtWork == installer \in {"running", "removing", "writing"}

\* installer_busy: its process is alive or it holds the exe open for writing.
Busy == InstallerAtWork \/ installer = "finishing" \/ exe = "writing"

\* _new_exe_looks_fresh.  A changed mtime that nobody is writing; without the
\* snapshot only an mtime after the parent's death counts, which a finished
\* extraction, stamped with its build's time, never has.
NewExeReady(a) ==
    IF helper[a].snapshot THEN exe \in {"new", "partial"} ELSE exe = "partial"

\* A second keyboard finds the single-instance lock taken and leaves; half a
\* file, or none, does not start.
Starts(k) == k.st = "none" /\ exe \in {"old", "new"}

\* Explorer is asked for the exe, and nothing tells the caller what came of it.
Launched(k) ==
    {k} \cup {[st |-> "starting", ver |-> v, parent |-> FALSE, announced |-> FALSE] :
                 v \in IF Starts(k) THEN {exe} ELSE {}}

WriteHandoff == handoff' = TRUE
ClearHandoff == handoff' = FALSE

\* What goes wrong once.  A second attempt uses up what is left (InstallUpdate),
\* which bounds the runs: the first one's screens and installer are trouble enough.
Fault == faults < MaxFaults /\ faults' = faults + 1

----------------------------------------------------------------------------
(* The keyboard's own part: the check and the install worker.              *)

workerOnly == <<kbd, exe, installer, handoff, toast, faults>>

\* A newer release with a safe asset, or none: the network decides.
Found == BOOLEAN

\* The check's thread publishes what it found.
CheckForUpdate ==
    /\ ParentAlive
    /\ info' \in Found
    /\ UNCHANGED <<worker, attempt, stage, helper>>
    /\ UNCHANGED workerOnly

\* "Later", disabled while an install is under way.
DismissUpdate ==
    /\ ParentAlive /\ worker = "idle" /\ info
    /\ info' = FALSE
    /\ UNCHANGED <<worker, attempt, stage, helper>>
    /\ UNCHANGED workerOnly

\* "Install" or "Retry": staging is begun before the download.
InstallUpdate ==
    /\ ParentAlive /\ worker = "idle" /\ info /\ attempt < MaxAttempts
    /\ worker' = "download"
    /\ attempt' = attempt + 1
    /\ stage' = [stage EXCEPT ![attempt + 1].files = "building"]
    /\ faults' = IF attempt = 0 THEN faults ELSE MaxFaults
    /\ UNCHANGED <<info, helper, kbd, exe, installer, handoff, toast>>

\* A stage is left alone while its lock is held or it is young, and it is young
\* until its helper has had the time to start.
IsLive(b) == stage[b].lock \/ helper[b].proc = "starting"

Sweepable(b) == stage[b].files \in {"failed", "taken"} /\ ~IsLive(b)

\* Every file of the manifest is copied, or the stage is not used.
StageBundle == {"ready", "failed"}

\* The staging thread sweeps old stages, then copies.
StageHelper(a) ==
    /\ worker # "dead"
    /\ stage[a].files = "building"
    /\ \E swept \in SUBSET {b \in Attempts \ {a} : Sweepable(b)}, outcome \in StageBundle :
          stage' = [b \in Attempts |->
                      CASE b = a       -> [stage[a] EXCEPT !.files = outcome]
                        [] b \in swept -> NoStage
                        [] OTHER       -> stage[b]]
    /\ UNCHANGED <<info, worker, attempt, helper>>
    /\ UNCHANGED workerOnly

\* The attempt's helper is there to read a marker.
Listening(a) == helper[a].proc \in {"starting", "up"}

\* Any way out of download_and_install but a launched installer: a helper that
\* was spawned is told to leave, a stage nobody took is removed, and both wait
\* for the staging thread.  The marker may fail to be written.
InstallFailed ==
    /\ stage[attempt].files # "building"
    /\ \E written \in BOOLEAN :
          stage' = [stage EXCEPT ![attempt] =
                      IF Listening(attempt) THEN [@ EXCEPT !.cancel = written]
                      ELSE IF @.files = "taken" THEN @ ELSE NoStage]
    /\ worker' = "idle"

Download ==
    /\ worker = "download"
    /\ \/ worker' = "pin" /\ UNCHANGED stage
       \/ InstallFailed
    /\ UNCHANGED <<info, attempt, helper>>
    /\ UNCHANGED workerOnly

\* The file is pinned, and its digest compared with the downloaded one.
Pin ==
    /\ worker = "pin"
    /\ \/ worker' = "verify" /\ UNCHANGED stage
       \/ InstallFailed
    /\ UNCHANGED <<info, attempt, helper>>
    /\ UNCHANGED workerOnly

\* Its signature, signer and version.
Verify ==
    /\ worker = "verify"
    /\ \/ worker' = "spawn" /\ UNCHANGED stage
       \/ InstallFailed
    /\ UNCHANGED <<info, attempt, helper>>
    /\ UNCHANGED workerOnly

\* The stage is taken (its thread joined) and the helper started from it; a
\* spawn that fails costs the update screen and not the update.
SpawnRelauncher ==
    /\ worker = "spawn"
    /\ stage[attempt].files \in {"ready", "failed"}
    /\ \/ /\ stage[attempt].files = "ready"
          /\ \E snapshot \in BOOLEAN :
                helper' = [helper EXCEPT ![attempt] =
                             [NoHelper EXCEPT !.proc = "starting", !.snapshot = snapshot]]
       \/ UNCHANGED helper
    /\ stage' = [stage EXCEPT ![attempt].files = "taken"]
    /\ worker' = "wait"
    /\ UNCHANGED <<info, attempt>>
    /\ UNCHANGED workerOnly

\* The toast's dwell, then the wait for the helper's window, with a ceiling.
WaitUntilVisible ==
    /\ worker = "wait"
    /\ worker' = "prompt"
    /\ UNCHANGED <<info, attempt, stage, helper>>
    /\ UNCHANGED workerOnly

\* The elevation prompt is answered Yes.
ApprovePrompt ==
    /\ worker = "prompt"
    /\ installer' = "running"
    /\ worker' = "mark"
    /\ UNCHANGED <<info, attempt, stage, helper, kbd, exe, handoff, toast, faults>>

\* It is declined, or ShellExecute fails.
DeclinePrompt ==
    /\ worker = "prompt"
    /\ InstallFailed
    /\ UNCHANGED <<info, attempt, helper>>
    /\ UNCHANGED workerOnly

\* The launch returned: the helper's time-outs may run.
MarkLaunched ==
    /\ worker = "mark"
    /\ \E written \in BOOLEAN :
          stage' = [stage EXCEPT ![attempt].launched = written /\ Listening(attempt)]
    /\ worker' = "done"
    /\ UNCHANGED <<info, attempt, helper>>
    /\ UNCHANGED workerOnly

----------------------------------------------------------------------------
(* The installer.  It may give up at every step.                           *)

installerOnly == <<info, attempt, stage, helper, handoff, toast, faults>>

NextStage == [running |-> "removing", removing |-> "writing", writing |-> "finishing",
              finishing |-> "done"]

\* Closes every keyboard, by asking and then by force; the worker goes with it.
InstallerCloses ==
    /\ installer = "running"
    /\ installer' = "removing"
    /\ kbd' = NoKeyboard
    /\ worker' = IF kbd.st # "none" /\ kbd.parent THEN "dead" ELSE worker
    /\ UNCHANGED exe
    /\ UNCHANGED installerOnly

\* Removes the old files, writes the new ones with the exe last, closes it,
\* and has Explorer start it in case nothing else does.  The exe of a running
\* keyboard cannot be replaced: with one started by hand there is only giving up.
InstallerProceeds ==
    /\ installer \in {"removing", "writing", "finishing"}
    /\ installer = "removing" => kbd.st = "none"
    /\ installer' = IF installer = "removing" /\ exe # "missing" THEN "removing"
                    ELSE NextStage[installer]
    /\ exe' = CASE installer = "removing"  -> IF exe = "missing" THEN "writing" ELSE "missing"
                [] installer = "writing"   -> "new"
                [] installer = "finishing" -> exe
    /\ kbd' \in IF installer = "finishing" THEN Launched(kbd) ELSE {kbd}
    /\ UNCHANGED worker
    /\ UNCHANGED installerOnly

InstallerAborts ==
    /\ installer \in {"running", "removing", "writing", "finishing"}
    /\ installer' = "aborted"
    /\ exe' = IF exe = "writing" THEN "partial" ELSE exe
    /\ UNCHANGED <<kbd, worker>>
    /\ UNCHANGED installerOnly

----------------------------------------------------------------------------
(* Keyboards.                                                              *)

keyboardOnly == <<info, attempt, stage, exe, installer, helper>>

\* Its window has been drawn, and it sets the event, which may fail.
Drawn == {[kbd EXCEPT !.st = "shown", !.announced = announced] : announced \in BOOLEAN}

\* The new keyboard reads the hand-off once and removes it.  One over five
\* minutes old is not announced.
KeyboardAppears ==
    /\ kbd.st = "starting"
    /\ kbd' \in Drawn
    /\ toast' \in IF handoff THEN {kbd.ver, toast} ELSE {toast}
    /\ handoff' = FALSE
    /\ UNCHANGED <<worker, faults>>
    /\ UNCHANGED keyboardOnly

\* The prompt of a keyboard that dies goes with it.
KeyboardDies ==
    /\ kbd.st # "none"
    /\ Fault
    /\ kbd' = NoKeyboard
    /\ worker' = IF kbd.parent THEN "dead" ELSE worker
    /\ UNCHANGED <<handoff, toast>>
    /\ UNCHANGED keyboardOnly

UserStartsKeyboard ==
    /\ kbd.st = "none"
    /\ kbd' \in Launched(kbd)
    /\ UNCHANGED <<worker, handoff, toast, faults>>
    /\ UNCHANGED keyboardOnly

----------------------------------------------------------------------------
(* The helper.  A tick is one call of UpdateFlow.step, which acts on what  *)
(* it sees and looks at its deadline only if that was nothing.             *)

helperOnly == <<info, worker, attempt, exe, installer, toast>>

Up(a, mode) == helper[a].proc = "up" /\ helper[a].mode = mode

\* Taking the lock may fail, and costs only the protection from a sweep.
HoldLock == BOOLEAN

\* The helper takes its stage's lock, and shows its window or goes on without.
HelperStarts(a) ==
    /\ helper[a].proc = "starting"
    /\ \E locked \in HoldLock : stage' = [stage EXCEPT ![a].lock = locked]
    /\ \E mode \in {"splash", "headless"} :
          helper' = [helper EXCEPT ![a].proc = "up", ![a].mode = mode]
    /\ UNCHANGED <<kbd, handoff, faults>>
    /\ UNCHANGED helperOnly

\* The process ends, however it ends: the system drops its lock, and what the
\* process knew and the markers only it would read no longer matter.
Leave(a) ==
    /\ helper' = [helper EXCEPT ![a] = [NoHelper EXCEPT !.proc = "gone"]]
    /\ stage' = [stage EXCEPT ![a] = [NoStage EXCEPT !.files = stage[a].files]]

Become(a, phase) == helper' = [helper EXCEPT ![a].phase = phase] /\ UNCHANGED stage

\* A failure stays on screen; without a screen it is an exit code.
Fail(a) ==
    IF helper[a].mode = "splash"
    THEN Become(a, "failed") /\ ClearHandoff
    ELSE /\ Leave(a)
         /\ handoff' = (handoff /\ helper[a].phase # "starting")

Cancelled(a) == stage[a].cancel
InstallerLaunched(a) == stage[a].launched \/ ~ParentAlive

\* Approve: the cancel first; a parent that vanished counts as launched.
TickApprove(a) ==
    /\ helper[a].proc = "up" /\ helper[a].phase = "approve"
    /\ \/ Cancelled(a) /\ IF helper[a].mode = "splash" THEN Become(a, "cancelled") ELSE Leave(a)
       \/ /\ ~Cancelled(a) /\ InstallerLaunched(a)
          /\ helper' = [helper EXCEPT
                          ![a].phase = IF ParentAlive THEN "closing" ELSE "installing",
                          ![a].dead = ~ParentAlive]
          /\ UNCHANGED stage
    /\ UNCHANGED <<kbd, handoff, faults>>
    /\ UNCHANGED helperOnly

TickClosing(a) ==
    /\ helper[a].proc = "up" /\ helper[a].phase = "closing"
    /\ ~ParentAlive
    /\ helper' = [helper EXCEPT ![a].phase = "installing", ![a].dead = TRUE]
    /\ UNCHANGED <<stage, kbd, handoff, faults>>
    /\ UNCHANGED helperOnly

\* _enter_starting: nothing is launched over a keyboard that is there already,
\* and the hand-off is written before the launch and taken back if it fails.
TickInstalling(a) ==
    /\ helper[a].proc = "up" /\ helper[a].phase = "installing"
    /\ NewExeReady(a)
    /\ \/ /\ helper[a].mode = "splash" /\ KeyboardShown
          /\ helper' = [helper EXCEPT ![a].phase = "done", ![a].confirmed = TRUE]
          /\ UNCHANGED <<stage, kbd, handoff>>
       \/ /\ helper[a].mode = "headless" \/ ~KeyboardShown
          /\ \/ /\ kbd' \in Launched(kbd)
                /\ WriteHandoff
                /\ helper' = [helper EXCEPT ![a].phase = "starting", ![a].confirmed = TRUE]
                /\ UNCHANGED stage
             \/ /\ ClearHandoff
                /\ IF helper[a].mode = "splash"
                   THEN /\ helper' = [helper EXCEPT ![a].phase = "failed", ![a].confirmed = TRUE]
                        /\ UNCHANGED stage
                   ELSE Leave(a)
                /\ UNCHANGED kbd
    /\ UNCHANGED faults
    /\ UNCHANGED helperOnly

\* On screen for the splash; for the headless path the process is enough.
TickStarting(a) ==
    /\ helper[a].proc = "up" /\ helper[a].phase = "starting"
    /\ \/ Up(a, "splash") /\ KeyboardShown /\ Become(a, "done")
       \/ Up(a, "headless") /\ kbd.st # "none" /\ Leave(a)
    /\ UNCHANGED <<kbd, handoff, faults>>
    /\ UNCHANGED helperOnly

\* (Slip) the parent's exit is waited for without a deadline.
TimeOutButClosing(a) ==
    /\ helper[a].proc = "up"
    /\ \/ helper[a].phase = "approve" /\ ~Cancelled(a) /\ ~InstallerLaunched(a)
       \/ helper[a].phase = "installing" /\ ~NewExeReady(a) /\ installer # "running"
       \/ helper[a].phase = "starting"
            /\ IF helper[a].mode = "splash" THEN ~KeyboardShown ELSE kbd.st = "none"
    /\ Fail(a)
    /\ UNCHANGED <<kbd, faults>>
    /\ UNCHANGED helperOnly

\* The deadline of a phase passes with nothing to see.  The installer, which
\* forces the keyboard closed after ten seconds, is never still at that when
\* the three minutes allowed for the new exe are over.
TimeOut(a) ==
    /\ helper[a].proc = "up"
    /\ \/ helper[a].phase = "approve" /\ ~Cancelled(a) /\ ~InstallerLaunched(a)
       \/ helper[a].phase = "closing" /\ ParentAlive
       \/ helper[a].phase = "installing" /\ ~NewExeReady(a) /\ installer # "running"
       \/ helper[a].phase = "starting"
            /\ IF helper[a].mode = "splash" THEN ~KeyboardShown ELSE kbd.st = "none"
    /\ Fail(a)
    /\ UNCHANGED <<kbd, faults>>
    /\ UNCHANGED helperOnly

\* (Slip) every launch is announced.
RetryLaunchAnnounced(a) ==
    \/ /\ KeyboardShown
       /\ helper' = [helper EXCEPT ![a].phase = "done", ![a].pending = FALSE]
       /\ UNCHANGED <<kbd, handoff>>
    \/ /\ ~KeyboardShown
       /\ kbd' \in Launched(kbd)
       /\ handoff' = TRUE
       /\ helper' = [helper EXCEPT ![a].phase = "starting", ![a].pending = FALSE]

\* retry_launch: an update that never installed is not announced.
RetryLaunch(a) ==
    \/ /\ KeyboardShown
       /\ helper' = [helper EXCEPT ![a].phase = "done", ![a].pending = FALSE]
       /\ UNCHANGED <<kbd, handoff>>
    \/ /\ ~KeyboardShown
       /\ \/ /\ kbd' \in Launched(kbd)
             /\ handoff' = (handoff \/ helper[a].confirmed)
             /\ helper' = [helper EXCEPT ![a].phase = "starting", ![a].pending = FALSE]
          \/ /\ UNCHANGED kbd
             /\ handoff' = (handoff /\ ~helper[a].confirmed)
             /\ helper' = [helper EXCEPT ![a].pending = FALSE]

\* (Slip) Start means start.
PressStartAtOnce(a) ==
    /\ Up(a, "splash") /\ helper[a].phase = "failed"
    /\ RetryLaunch(a)
    /\ UNCHANGED <<stage, faults>>
    /\ UNCHANGED helperOnly

\* The Start button: held back, and remembered, while an install is going on.
PressStart(a) ==
    /\ Up(a, "splash") /\ helper[a].phase = "failed"
    /\ \/ /\ Busy
          /\ helper' = [helper EXCEPT ![a].pending = TRUE]
          /\ UNCHANGED <<kbd, handoff>>
       \/ ~Busy /\ RetryLaunch(a)
    /\ UNCHANGED <<stage, faults>>
    /\ UNCHANGED helperOnly

\* A failure screen ticks on: for a start held back, and for a keyboard that
\* turns up after all, once the old one is known to be gone.
TickFailed(a) ==
    /\ Up(a, "splash") /\ helper[a].phase = "failed"
    /\ \/ helper[a].pending /\ ~Busy /\ RetryLaunch(a)
       \/ /\ ~(helper[a].pending /\ ~Busy)
          /\ helper[a].watch /\ helper[a].dead /\ KeyboardShown
          /\ helper' = [helper EXCEPT ![a].phase = "done"]
          /\ UNCHANGED <<kbd, handoff>>
    /\ UNCHANGED <<stage, faults>>
    /\ UNCHANGED helperOnly

\* Done and cancelled end the process; Close on a failure screen does too.
HelperEnds(a) ==
    /\ helper[a].proc = "up" /\ helper[a].phase \in {"done", "cancelled"}
    /\ Leave(a)
    /\ UNCHANGED <<kbd, handoff, faults>>
    /\ UNCHANGED helperOnly

PressClose(a) ==
    /\ Up(a, "splash") /\ helper[a].phase = "failed"
    /\ Leave(a)
    /\ UNCHANGED <<kbd, handoff, faults>>
    /\ UNCHANGED helperOnly

HelperDies(a) ==
    /\ helper[a].proc \in {"starting", "up"}
    /\ Fault
    /\ Leave(a)
    /\ UNCHANGED <<kbd, handoff>>
    /\ UNCHANGED helperOnly

\* A probe raises: a failure the user can act on, and no more watching.
ProbeRaises(a) ==
    /\ Up(a, "splash")
    /\ helper[a].phase \in {"approve", "closing", "installing", "starting", "failed"}
    /\ Fault
    /\ helper' = [helper EXCEPT ![a].phase = "failed", ![a].watch = FALSE]
    /\ ClearHandoff
    /\ UNCHANGED <<stage, kbd>>
    /\ UNCHANGED helperOnly

\* The splash raises: the headless path begins from the approval.
SplashRaises(a) ==
    /\ Up(a, "splash") /\ helper[a].phase \in {"approve", "closing", "installing", "starting"}
    /\ Fault
    /\ helper' = [helper EXCEPT ![a] = [NoHelper EXCEPT !.proc = "up", !.mode = "headless",
                                                        !.snapshot = helper[a].snapshot]]
    /\ UNCHANGED <<stage, kbd, handoff>>
    /\ UNCHANGED helperOnly

----------------------------------------------------------------------------
WorkerStep == Download \/ Pin \/ Verify \/ SpawnRelauncher \/ WaitUntilVisible \/ MarkLaunched

Installer == InstallerCloses \/ InstallerProceeds \/ InstallerAborts

Tick(a) ==
    \/ TickApprove(a) \/ TickClosing(a) \/ TickInstalling(a) \/ TickStarting(a)
    \/ TickFailed(a) \/ TimeOut(a) \/ HelperEnds(a)

Next ==
    \/ CheckForUpdate \/ DismissUpdate \/ InstallUpdate
    \/ \E a \in Attempts : StageHelper(a)
    \/ WorkerStep \/ ApprovePrompt \/ DeclinePrompt
    \/ Installer
    \/ KeyboardAppears \/ KeyboardDies \/ UserStartsKeyboard
    \/ \E a \in Attempts :
          \/ HelperStarts(a) \/ Tick(a) \/ PressStart(a) \/ PressClose(a)
          \/ HelperDies(a) \/ ProbeRaises(a) \/ SplashRaises(a)

\* Threads and processes under way are scheduled and their timers fire; users,
\* and faults, need not come.
Fairness ==
    /\ WF_vars(WorkerStep) /\ WF_vars(Installer) /\ WF_vars(KeyboardAppears)
    /\ \A a \in Attempts :
          WF_vars(StageHelper(a)) /\ WF_vars(HelperStarts(a)) /\ WF_vars(Tick(a))

Spec == Init /\ [][Next]_vars /\ Fairness

----------------------------------------------------------------------------
(* Properties.                                                             *)

\* Whether by itself or at the press of Start, the helper never has a keyboard
\* started in the middle of an install, nor from a file still being written.
LaunchesAreSafe ==
    [][\A a \in Attempts :
          helper[a].phase # "starting" /\ helper'[a].phase = "starting"
             => exe # "writing" /\ (InstallerAtWork => exe = "new")]_vars

\* The "Updated" toast is flashed by the updated keyboard only: a hand-off
\* written for a launch that failed is not there for an old one to read.
ToastIsTrue == toast # "old"

\* No phase waits for ever: an update screen ends in Done, leaves, or shows a
\* failure the user can act on, whoever died on the way.
ScreenSettles ==
    \A a \in Attempts :
       (helper[a].proc = "up") ~> (helper[a].proc # "up" \/ helper[a].phase = "failed")

=============================================================================
