---------------------------- MODULE UpdateProofs ----------------------------
(***************************************************************************)
(* The update, for any number of attempts, crashes and probes that raise:  *)
(* no keyboard is started into an install or from half a file, and the old *)
(* one never says it is updated.                                           *)
(***************************************************************************)
EXTENDS UpdateHandoff, TLAPS

\* The install worker lives while the keyboard it belongs to does, and the
\* exe is not touched before the installer has closed that keyboard.
ParentKnown ==
    /\ ParentAlive <=> worker # "dead"
    /\ worker \notin {"idle", "dead"} => attempt \in Attempts
    /\ ParentAlive => exe = "old" /\ installer \in {"none", "running", "aborted"}

\* Where the installer is tells what the exe can be.
ExeKnown ==
    /\ exe = "writing" <=> installer = "writing"
    /\ exe = "partial" => installer = "aborted"
    /\ installer = "finishing" => exe = "new"

\* An old keyboard can only run while the exe is the old one, and from then on
\* nothing is ever announced.
OldIsOld ==
    /\ kbd.st # "none" /\ kbd.ver = "old" => exe = "old"
    /\ handoff => exe # "old"
    /\ \A a \in Attempts : helper[a].confirmed => exe # "old"

Inv == TypeOK /\ ParentKnown /\ ExeKnown /\ OldIsOld /\ ToastIsTrue

LEMMA NoHelperType ==
    NoHelper \in Helpers /\ ~NoHelper.confirmed /\ NoHelper.proc = "none"
    /\ NoHelper.phase = "approve"
BY DEF NoHelper, Helpers

LEMMA NoStageType == NoStage \in Stages
BY DEF NoStage, Stages

LEMMA NoKeyboardType ==
    NoKeyboard \in Keyboards /\ NoKeyboard.st = "none" /\ ~NoKeyboard.parent
BY DEF NoKeyboard, Keyboards

LEMMA InitInv == Init => Inv
<1> SUFFICES ASSUME Init
             PROVE  Inv
  OBVIOUS
<1> USE DEF Init
<1>1. kbd \in Keyboards /\ kbd.ver = "old" /\ kbd.st = "shown" /\ kbd.parent
  BY DEF Keyboards
<1>2. TypeOK
  <2>1. stage \in [Attempts -> Stages] /\ helper \in [Attempts -> Helpers]
    <3> HIDE DEF Init
    <3>1. stage = [a \in Attempts |-> NoStage] /\ helper = [a \in Attempts |-> NoHelper]
      BY DEF Init
    <3> QED BY <3>1, NoHelperType, NoStageType
  <2>2. attempt \in 0 .. MaxAttempts /\ faults \in 0 .. MaxFaults
    BY BoundsAssumption
  <2> QED BY <1>1, <2>1, <2>2 DEF TypeOK
<1>3. ParentKnown /\ ExeKnown /\ OldIsOld /\ ToastIsTrue
  BY <1>1, NoHelperType DEF ParentKnown, ParentAlive, ExeKnown, OldIsOld, ToastIsTrue
<1> QED BY <1>2, <1>3 DEF Inv

\* A launch brings up the keyboard of an exe that is whole, or none.
LEMMA LaunchedFacts ==
    ASSUME kbd \in Keyboards, exe \in {"old", "missing", "writing", "partial", "new"},
           NEW k \in Launched(kbd)
    PROVE  /\ k \in Keyboards
           /\ k = kbd \/ /\ kbd.st = "none" /\ k.st = "starting" /\ ~k.parent
                         /\ k.ver = exe /\ exe \in {"old", "new"}
<1>1. CASE k = kbd
  BY <1>1
<1>2. CASE k # kbd
  <2>1. PICK v \in IF Starts(kbd) THEN {exe} ELSE {} :
          k = [st |-> "starting", ver |-> v, parent |-> FALSE, announced |-> FALSE]
    BY <1>2 DEF Launched
  <2> QED BY <2>1 DEF Starts, Keyboards
<1> QED BY <1>1, <1>2

LEMMA FaultType ==
    ASSUME TypeOK, Fault
    PROVE  faults' \in 0 .. MaxFaults
BY BoundsAssumption DEF TypeOK, Fault

-----------------------------------------------------------------------------
(* The keyboard's own part.                                                *)

\* A step of the worker, or of its threads.
LEMMA OwnStepKeepsInv ==
    ASSUME Inv, UNCHANGED <<kbd, exe, installer, handoff, toast>>,
           info' \in BOOLEAN, attempt' \in 0 .. MaxAttempts, faults' \in 0 .. MaxFaults,
           worker' \in {"idle", "download", "pin", "verify", "spawn", "wait", "prompt",
                        "mark", "done", "dead"},
           stage' \in [Attempts -> Stages], helper' \in [Attempts -> Helpers],
           worker' = "dead" <=> worker = "dead",
           worker' \notin {"idle", "dead"} => attempt' \in Attempts,
           \A a \in Attempts : helper'[a].confirmed => helper[a].confirmed
    PROVE  Inv'
<1>1. TypeOK'
  BY DEF Inv, TypeOK
<1>2. ParentKnown' /\ ExeKnown' /\ OldIsOld' /\ ToastIsTrue'
  BY DEF Inv, ParentKnown, ParentAlive, ExeKnown, OldIsOld, ToastIsTrue
<1> QED BY <1>1, <1>2 DEF Inv

LEMMA CheckKeepsInv ==
    ASSUME Inv, CheckForUpdate \/ DismissUpdate \/ InstallUpdate
    PROVE  Inv'
<1> USE DEF Inv, TypeOK
<1>1. CASE CheckForUpdate \/ DismissUpdate
  BY <1>1, OwnStepKeepsInv DEF CheckForUpdate, DismissUpdate, Found, workerOnly, ParentKnown
<1>2. CASE InstallUpdate
  <2>1. attempt + 1 \in Attempts /\ attempt' = attempt + 1
    BY <1>2, BoundsAssumption DEF InstallUpdate, Attempts
  <2>2. stage' \in [Attempts -> Stages]
    BY <1>2, <2>1 DEF InstallUpdate, Stages
  <2>3. faults' \in 0 .. MaxFaults /\ attempt' \in 0 .. MaxAttempts
    BY <1>2, <2>1, BoundsAssumption DEF InstallUpdate, Attempts
  <2> QED BY <1>2, <2>1, <2>2, <2>3, OwnStepKeepsInv DEF InstallUpdate
<1> QED BY <1>1, <1>2

LEMMA StagingKeepsInv ==
    ASSUME Inv, NEW a \in Attempts, StageHelper(a)
    PROVE  Inv'
<1> USE DEF StageHelper, workerOnly
<1>1. PICK swept \in SUBSET {b \in Attempts \ {a} : Sweepable(b)}, outcome \in StageBundle :
        stage' = [b \in Attempts |->
                    CASE b = a       -> [stage[a] EXCEPT !.files = outcome]
                      [] b \in swept -> NoStage
                      [] OTHER       -> stage[b]]
  OBVIOUS
<1>2. stage \in [Attempts -> Stages]
  BY DEF Inv, TypeOK
<1>3. [stage[a] EXCEPT !.files = outcome] \in Stages
  BY <1>2 DEF Stages, StageBundle
<1>4. stage' \in [Attempts -> Stages]
  BY <1>1, <1>2, <1>3, NoStageType
<1> QED BY <1>4, OwnStepKeepsInv DEF Inv, TypeOK, ParentKnown

\* Giving up on an attempt leaves its stage in order.
LEMMA FailedType ==
    ASSUME TypeOK, InstallFailed
    PROVE  stage' \in [Attempts -> Stages] /\ worker' = "idle"
<1> USE DEF TypeOK
<1>1. PICK written \in BOOLEAN :
        stage' = [stage EXCEPT ![attempt] =
                    IF Listening(attempt) THEN [stage[attempt] EXCEPT !.cancel = written]
                    ELSE IF stage[attempt].files = "taken" THEN stage[attempt] ELSE NoStage]
  BY DEF InstallFailed
<1>2. CASE attempt \in Attempts
  <2>1. [stage[attempt] EXCEPT !.cancel = written] \in Stages /\ stage[attempt] \in Stages
    BY <1>2 DEF Stages
  <2> QED BY <1>1, <1>2, <2>1, NoStageType DEF InstallFailed
<1>3. CASE attempt \notin Attempts
  BY <1>1, <1>3 DEF InstallFailed
<1> QED BY <1>2, <1>3

LEMMA WorkerKeepsInv ==
    ASSUME Inv, WorkerStep \/ DeclinePrompt
    PROVE  Inv'
<1> USE DEF workerOnly
<1>0. TypeOK /\ (worker \notin {"idle", "dead"} => attempt \in Attempts)
  BY DEF Inv, ParentKnown
<1>1. CASE Download \/ Pin \/ Verify \/ DeclinePrompt
  <2>1. stage' \in [Attempts -> Stages]
    BY <1>0, <1>1, FailedType DEF Download, Pin, Verify, DeclinePrompt, TypeOK
  <2>2. worker \notin {"idle", "dead"} /\ worker' \in {"idle", "pin", "verify", "spawn"}
    BY <1>1 DEF Download, Pin, Verify, DeclinePrompt, InstallFailed
  <2>3. UNCHANGED <<info, attempt, helper, kbd, exe, installer, handoff, toast, faults>>
    BY <1>1 DEF Download, Pin, Verify, DeclinePrompt
  <2> QED BY <1>0, <2>1, <2>2, <2>3, OwnStepKeepsInv DEF TypeOK
<1>2. CASE SpawnRelauncher
  <2> USE <1>2 DEF SpawnRelauncher, TypeOK
  <2>1. attempt \in Attempts
    BY <1>0
  <2>2. stage' \in [Attempts -> Stages]
    BY <1>0, <2>1 DEF Stages
  <2>3. /\ helper' \in [Attempts -> Helpers]
        /\ \A a \in Attempts : helper'[a].confirmed => helper[a].confirmed
    <3>1. CASE UNCHANGED helper
      BY <1>0, <3>1
    <3>2. CASE \E snapshot \in BOOLEAN :
                 helper' = [helper EXCEPT ![attempt] =
                              [NoHelper EXCEPT !.proc = "starting", !.snapshot = snapshot]]
      <4>1. PICK snapshot \in BOOLEAN :
              helper' = [helper EXCEPT ![attempt] =
                           [NoHelper EXCEPT !.proc = "starting", !.snapshot = snapshot]]
        BY <3>2
      <4> DEFINE h == [NoHelper EXCEPT !.proc = "starting", !.snapshot = snapshot]
      <4>2. h \in Helpers /\ ~h.confirmed
        BY DEF NoHelper, Helpers
      <4> HIDE DEF h
      <4>3. helper' = [helper EXCEPT ![attempt] = h]
        BY <4>1 DEF h
      <4> QED BY <1>0, <2>1, <4>2, <4>3
    <3> QED BY <3>1, <3>2
  <2> QED BY <1>0, <2>1, <2>2, <2>3, OwnStepKeepsInv
<1>3. CASE WaitUntilVisible
  BY <1>0, <1>3, OwnStepKeepsInv DEF WaitUntilVisible, TypeOK
<1>4. CASE MarkLaunched
  <2>1. attempt \in Attempts
    BY <1>0, <1>4 DEF MarkLaunched
  <2>2. PICK b \in BOOLEAN : stage' = [stage EXCEPT ![attempt].launched = b]
    <3>1. PICK written \in BOOLEAN :
            stage' = [stage EXCEPT ![attempt].launched = written /\ Listening(attempt)]
      BY <1>4 DEF MarkLaunched
    <3>2. CASE written /\ Listening(attempt)
      <4>1. (written /\ Listening(attempt)) = TRUE
        BY <3>2
      <4> QED BY <3>1, <4>1
    <3>3. CASE ~(written /\ Listening(attempt))
      <4>1. (written /\ Listening(attempt)) = FALSE
        BY <3>3
      <4> QED BY <3>1, <4>1
    <3> QED BY <3>2, <3>3
  <2>3. stage' \in [Attempts -> Stages]
    BY <1>0, <2>1, <2>2 DEF TypeOK, Stages
  <2> QED BY <1>0, <1>4, <2>1, <2>3, OwnStepKeepsInv DEF MarkLaunched, TypeOK
<1> QED BY <1>1, <1>2, <1>3, <1>4 DEF WorkerStep

\* A prompt is only up beside the keyboard that asked, whose exe is the old one.
LEMMA ApproveKeepsInv ==
    ASSUME Inv, ApprovePrompt
    PROVE  Inv'
<1> USE DEF ApprovePrompt, Inv
<1>1. ParentAlive /\ exe = "old" /\ installer \in {"none", "aborted", "running"}
  BY DEF ParentKnown
<1>2. TypeOK'
  BY DEF TypeOK
<1>3. ParentKnown' /\ ExeKnown' /\ OldIsOld' /\ ToastIsTrue'
  BY <1>1 DEF ParentKnown, ParentAlive, ExeKnown, OldIsOld, ToastIsTrue
<1> QED BY <1>2, <1>3

-----------------------------------------------------------------------------
(* The installer and the keyboards.                                        *)

LEMMA InstallerKeepsInv ==
    ASSUME Inv, Installer
    PROVE  Inv'
<1> USE DEF Inv, installerOnly
<1>0. kbd \in Keyboards /\ exe \in {"old", "missing", "writing", "partial", "new"}
  BY DEF TypeOK
<1>1. CASE InstallerCloses
  <2> USE <1>1, NoKeyboardType DEF InstallerCloses
  <2>1. TypeOK'
    BY DEF TypeOK
  <2>2. ~ParentAlive' /\ worker' = "dead"
    BY DEF ParentKnown, ParentAlive
  <2>3. ParentKnown' /\ ExeKnown' /\ OldIsOld' /\ ToastIsTrue'
    BY <2>2 DEF ParentKnown, ExeKnown, OldIsOld, ToastIsTrue
  <2> QED BY <2>1, <2>3
<1>2. CASE InstallerProceeds
  <2> USE <1>2 DEF InstallerProceeds
  <2>1. kbd' \in Launched(kbd)
    BY DEF Launched
  <2>2. /\ kbd' \in Keyboards
        /\ kbd' = kbd \/ (kbd'.st = "starting" /\ ~kbd'.parent /\ kbd'.ver = exe)
    BY <1>0, <2>1, LaunchedFacts
  <2>3. ~ParentAlive /\ ~ParentAlive'
    BY <2>2 DEF ParentKnown, ParentAlive
  <2>4. \/ /\ installer = "removing" /\ exe = "missing" /\ kbd.st = "none" /\ kbd' = kbd
           /\ installer' = "writing" /\ exe' = "writing"
        \/ /\ installer = "removing" /\ exe # "missing" /\ kbd.st = "none" /\ kbd' = kbd
           /\ installer' = "removing" /\ exe' = "missing"
        \/ /\ installer = "writing" /\ exe = "writing" /\ kbd' = kbd
           /\ installer' = "finishing" /\ exe' = "new"
        \/ installer = "finishing" /\ installer' = "done" /\ exe' = exe /\ exe = "new"
    BY DEF NextStage, ExeKnown
  <2>5. TypeOK'
    BY <2>2, <2>4 DEF TypeOK
  <2>6. ParentKnown' /\ ExeKnown'
    BY <2>3, <2>4 DEF ParentKnown, ExeKnown
  <2>7. OldIsOld' /\ ToastIsTrue'
    BY <2>2, <2>4 DEF OldIsOld, ToastIsTrue
  <2> QED BY <2>5, <2>6, <2>7
<1>3. CASE InstallerAborts
  <2> USE <1>3 DEF InstallerAborts
  <2>1. TypeOK'
    BY DEF TypeOK
  <2>2. ParentKnown' /\ ExeKnown' /\ OldIsOld' /\ ToastIsTrue'
    BY DEF ParentKnown, ParentAlive, ExeKnown, OldIsOld, ToastIsTrue
  <2> QED BY <2>1, <2>2
<1> QED BY <1>1, <1>2, <1>3 DEF Installer

\* The hand-off is there for a keyboard of the new exe, and is gone once read.
LEMMA KeyboardsKeepInv ==
    ASSUME Inv, KeyboardAppears \/ KeyboardDies \/ UserStartsKeyboard
    PROVE  Inv'
<1> USE DEF Inv, keyboardOnly
<1>0. kbd \in Keyboards /\ exe \in {"old", "missing", "writing", "partial", "new"}
  BY DEF TypeOK
<1>1. CASE KeyboardAppears
  <2> USE <1>1 DEF KeyboardAppears
  <2>1. PICK announced \in BOOLEAN :
          kbd' = [kbd EXCEPT !.st = "shown", !.announced = announced]
    BY DEF Drawn
  <2>2. kbd' \in Keyboards /\ kbd'.st = "shown" /\ kbd'.ver = kbd.ver
        /\ kbd'.parent = kbd.parent
    BY <1>0, <2>1 DEF Keyboards
  <2>3. handoff => kbd.ver = "new"
    BY <1>0 DEF OldIsOld, Keyboards
  <2>4. toast' \in {"none", "new"}
    BY <2>3 DEF TypeOK, ToastIsTrue
  <2>5. TypeOK'
    BY <2>2, <2>4 DEF TypeOK
  <2>6. ParentKnown' /\ ExeKnown' /\ OldIsOld' /\ ToastIsTrue'
    BY <2>2, <2>4 DEF ParentKnown, ParentAlive, ExeKnown, OldIsOld, ToastIsTrue
  <2> QED BY <2>5, <2>6
<1>2. CASE KeyboardDies
  <2> USE <1>2, NoKeyboardType DEF KeyboardDies
  <2>1. TypeOK'
    BY FaultType DEF TypeOK
  <2>2. ParentKnown' /\ ExeKnown' /\ OldIsOld' /\ ToastIsTrue'
    BY DEF ParentKnown, ParentAlive, ExeKnown, OldIsOld, ToastIsTrue
  <2> QED BY <2>1, <2>2
<1>3. CASE UserStartsKeyboard
  <2> USE <1>3 DEF UserStartsKeyboard
  <2>1. /\ kbd' \in Keyboards
        /\ kbd' = kbd \/ (~kbd'.parent /\ kbd'.ver = exe)
    BY <1>0, LaunchedFacts
  <2>2. TypeOK'
    BY <2>1 DEF TypeOK
  <2>3. ParentKnown' /\ ExeKnown' /\ OldIsOld' /\ ToastIsTrue'
    BY <2>1 DEF ParentKnown, ParentAlive, ExeKnown, OldIsOld, ToastIsTrue
  <2> QED BY <2>2, <2>3
<1> QED BY <1>1, <1>2, <1>3

-----------------------------------------------------------------------------
(* The helper.                                                             *)

\* What every step of a helper comes to: it launches at most a keyboard, writes
\* or has confirmed an install only once the exe is no longer the old one, and
\* starts only what is whole and left alone.
HelperStep(a) ==
    /\ UNCHANGED helperOnly
    /\ stage' \in [Attempts -> Stages] /\ helper' \in [Attempts -> Helpers]
    /\ \A b \in Attempts \ {a} : helper'[b] = helper[b]
    /\ helper'[a].confirmed => exe # "old"
    /\ handoff' \in BOOLEAN /\ (handoff' => exe # "old")
    /\ kbd' \in Launched(kbd)
    /\ faults' \in 0 .. MaxFaults
    /\ helper'[a].phase = "starting" /\ helper[a].phase # "starting"
         => exe # "writing" /\ (InstallerAtWork => exe = "new")

LEMMA HelperStepKeepsInv ==
    ASSUME Inv, NEW a \in Attempts, HelperStep(a)
    PROVE  Inv'
<1> USE DEF Inv, HelperStep, helperOnly
<1>1. /\ kbd' \in Keyboards
      /\ kbd' = kbd \/ (kbd.st = "none" /\ ~kbd'.parent /\ kbd'.ver = exe)
  BY LaunchedFacts DEF TypeOK
<1>2. TypeOK'
  BY <1>1 DEF TypeOK
<1>3. ParentKnown' /\ ExeKnown' /\ ToastIsTrue'
  BY <1>1 DEF ParentKnown, ParentAlive, ExeKnown, ToastIsTrue
<1>4. OldIsOld'
  BY <1>1 DEF OldIsOld
<1> QED BY <1>2, <1>3, <1>4

\* The helper is given the record h.
LEMMA HelperSet ==
    ASSUME TypeOK, NEW a \in Attempts, NEW h \in Helpers, helper' = [helper EXCEPT ![a] = h]
    PROVE  /\ helper' \in [Attempts -> Helpers] /\ helper'[a] = h
           /\ \A b \in Attempts \ {a} : helper'[b] = helper[b]
BY DEF TypeOK

\* Both files of a helper that leaves.
LEMMA LeaveFacts ==
    ASSUME TypeOK, NEW a \in Attempts, Leave(a)
    PROVE  /\ helper' \in [Attempts -> Helpers] /\ stage' \in [Attempts -> Stages]
           /\ \A b \in Attempts \ {a} : helper'[b] = helper[b]
           /\ ~helper'[a].confirmed /\ helper'[a].phase = "approve"
<1> DEFINE h == [NoHelper EXCEPT !.proc = "gone"]
           t == [NoStage EXCEPT !.files = stage[a].files]
<1>1. h \in Helpers /\ ~h.confirmed /\ h.phase = "approve"
  BY DEF NoHelper, Helpers
<1>2. t \in Stages
  BY DEF NoStage, Stages, TypeOK
<1>3. helper' = [helper EXCEPT ![a] = h] /\ stage' = [stage EXCEPT ![a] = t]
  BY DEF Leave
<1> HIDE DEF h, t
<1> QED BY <1>1, <1>2, <1>3, HelperSet DEF TypeOK

LEMMA BecomeFacts ==
    ASSUME TypeOK, NEW a \in Attempts, NEW phase, Become(a, phase),
           phase \in {"approve", "closing", "installing", "starting", "done", "failed",
                      "cancelled"}
    PROVE  /\ helper' \in [Attempts -> Helpers] /\ stage' \in [Attempts -> Stages]
           /\ \A b \in Attempts \ {a} : helper'[b] = helper[b]
           /\ helper'[a].confirmed <=> helper[a].confirmed
           /\ helper'[a].phase = phase
<1> DEFINE h == [helper[a] EXCEPT !.phase = phase]
<1>1. h \in Helpers /\ (h.confirmed <=> helper[a].confirmed) /\ h.phase = phase
  BY DEF Helpers, TypeOK
<1>2. helper' = [helper EXCEPT ![a] = h] /\ stage' = stage
  BY DEF Become, TypeOK
<1> HIDE DEF h
<1> QED BY <1>1, <1>2, HelperSet DEF TypeOK

\* Everything but the helper's record and its stage as it was.
LEMMA QuietStep ==
    ASSUME Inv, NEW a \in Attempts, UNCHANGED helperOnly, UNCHANGED <<kbd, faults>>,
           stage' \in [Attempts -> Stages], helper' \in [Attempts -> Helpers],
           \A b \in Attempts \ {a} : helper'[b] = helper[b],
           helper'[a].confirmed => helper[a].confirmed,
           handoff' \in BOOLEAN, handoff' => handoff,
           helper'[a].phase # "starting"
    PROVE  HelperStep(a)
BY DEF HelperStep, Inv, TypeOK, OldIsOld, Launched

LEMMA HelperStartsStep ==
    ASSUME Inv, NEW a \in Attempts, HelperStarts(a)
    PROVE  HelperStep(a)
<1> USE DEF HelperStarts
<1>0. TypeOK
  BY DEF Inv
<1>1. PICK locked \in BOOLEAN : stage' = [stage EXCEPT ![a].lock = locked]
  BY DEF HoldLock
<1>2. stage' \in [Attempts -> Stages]
  BY <1>0, <1>1 DEF TypeOK, Stages
<1>3. PICK mode \in {"splash", "headless"} :
        helper' = [helper EXCEPT ![a].proc = "up", ![a].mode = mode]
  OBVIOUS
<1> DEFINE h == [helper[a] EXCEPT !.proc = "up", !.mode = mode]
<1>4. /\ h \in Helpers /\ h.phase = helper[a].phase
      /\ h.confirmed <=> helper[a].confirmed
  <2>1. helper[a] \in Helpers
    BY <1>0 DEF TypeOK
  <2>2. h \in Helpers
    BY <2>1 DEF Helpers
  <2>3. h.phase = helper[a].phase /\ (h.confirmed <=> helper[a].confirmed)
    BY <2>1 DEF Helpers
  <2> QED BY <2>2, <2>3
<1>5. helper' = [helper EXCEPT ![a] = h]
  BY <1>0, <1>3 DEF TypeOK
<1> HIDE DEF h
<1>6. /\ helper' \in [Attempts -> Helpers] /\ helper'[a] = h
      /\ \A b \in Attempts \ {a} : helper'[b] = helper[b]
  BY <1>0, <1>4, <1>5, HelperSet
<1> QED BY <1>0, <1>2, <1>4, <1>6 DEF HelperStep, Inv, TypeOK, OldIsOld, Launched

LEMMA TickApproveStep ==
    ASSUME Inv, NEW a \in Attempts, TickApprove(a)
    PROVE  HelperStep(a)
<1> USE DEF TickApprove
<1>0. TypeOK
  BY DEF Inv
<1>1. UNCHANGED helperOnly /\ UNCHANGED <<kbd, faults>> /\ handoff' = handoff
      /\ handoff \in BOOLEAN
  BY <1>0 DEF TypeOK
<1>2. CASE Leave(a)
  BY <1>0, <1>1, <1>2, LeaveFacts, QuietStep
<1>3. CASE Become(a, "cancelled")
  BY <1>0, <1>1, <1>3, BecomeFacts, QuietStep
<1>4. CASE /\ helper' = [helper EXCEPT
                          ![a].phase = IF ParentAlive THEN "closing" ELSE "installing",
                          ![a].dead = ~ParentAlive]
           /\ UNCHANGED stage
  <2>1. PICK phase \in {"closing", "installing"}, d \in BOOLEAN :
          helper' = [helper EXCEPT ![a].phase = phase, ![a].dead = d]
    <3>1. CASE ParentAlive
      <4>1. (~ParentAlive) = FALSE
        BY <3>1
      <4> QED BY <1>4, <3>1, <4>1
    <3>2. CASE ~ParentAlive
      <4>1. (~ParentAlive) = TRUE
        BY <3>2
      <4> QED BY <1>4, <3>2, <4>1
    <3> QED BY <3>1, <3>2
  <2> DEFINE h == [helper[a] EXCEPT !.phase = phase, !.dead = d]
  <2>2. h \in Helpers /\ (h.confirmed <=> helper[a].confirmed) /\ h.phase # "starting"
    BY <1>0 DEF TypeOK, Helpers
  <2>3. helper' = [helper EXCEPT ![a] = h]
    BY <1>0, <2>1 DEF TypeOK
  <2> HIDE DEF h
  <2>4. stage' \in [Attempts -> Stages]
    BY <1>0, <1>4 DEF TypeOK
  <2>5. /\ helper' \in [Attempts -> Helpers] /\ helper'[a] = h
        /\ \A b \in Attempts \ {a} : helper'[b] = helper[b]
    BY <1>0, <2>2, <2>3, HelperSet
  <2> HIDE DEF TickApprove
  <2> QED BY <1>1, <2>2, <2>4, <2>5, QuietStep
<1> QED BY <1>2, <1>3, <1>4

LEMMA TickClosingStep ==
    ASSUME Inv, NEW a \in Attempts, TickClosing(a)
    PROVE  HelperStep(a)
<1> USE DEF TickClosing
<1>0. TypeOK
  BY DEF Inv
<1> DEFINE h == [helper[a] EXCEPT !.phase = "installing", !.dead = TRUE]
<1>1. h \in Helpers /\ (h.confirmed <=> helper[a].confirmed) /\ h.phase # "starting"
  BY <1>0 DEF TypeOK, Helpers
<1>2. helper' = [helper EXCEPT ![a] = h]
  BY <1>0 DEF TypeOK
<1> HIDE DEF h
<1> QED BY <1>0, <1>1, <1>2, HelperSet, QuietStep DEF TypeOK

\* The launch of a keyboard from the failure screen waits for the installer.
LEMMA RetryLaunchStep ==
    ASSUME Inv, NEW a \in Attempts, RetryLaunch(a), ~Busy,
           helper[a].phase = "failed",
           UNCHANGED <<stage, faults>>, UNCHANGED helperOnly
    PROVE  HelperStep(a)
<1>0. TypeOK /\ kbd \in Launched(kbd) /\ stage' \in [Attempts -> Stages]
      /\ faults' \in 0 .. MaxFaults
  BY DEF Inv, TypeOK, Launched
<1>1. exe # "writing" /\ ~InstallerAtWork
  BY DEF Busy
<1>2. (helper[a].confirmed => exe # "old") /\ (handoff => exe # "old")
  BY DEF Inv, OldIsOld
<1>3. PICK phase \in {"done", "starting", "failed"}, p \in BOOLEAN :
        helper' = [helper EXCEPT ![a].phase = phase, ![a].pending = p]
  <2>1. CASE helper' = [helper EXCEPT ![a].pending = FALSE]
    <3>1. helper' = [helper EXCEPT ![a].phase = "failed", ![a].pending = FALSE]
      BY <1>0, <2>1 DEF TypeOK, Helpers
    <3> QED BY <3>1
  <2> QED BY <2>1 DEF RetryLaunch
<1> DEFINE h == [helper[a] EXCEPT !.phase = phase, !.pending = p]
<1>4. h \in Helpers /\ (h.confirmed <=> helper[a].confirmed)
  BY <1>0 DEF TypeOK, Helpers
<1>5. helper' = [helper EXCEPT ![a] = h]
  BY <1>0, <1>3 DEF TypeOK
<1> HIDE DEF h
<1>6. /\ helper' \in [Attempts -> Helpers] /\ helper'[a] = h
      /\ \A b \in Attempts \ {a} : helper'[b] = helper[b]
  BY <1>0, <1>4, <1>5, HelperSet
<1>7. kbd' \in Launched(kbd)
  BY <1>0 DEF RetryLaunch
<1>8. handoff' \in BOOLEAN /\ (handoff' => handoff \/ helper[a].confirmed)
  <2>1. handoff \in BOOLEAN /\ helper[a].confirmed \in BOOLEAN
    BY <1>0 DEF TypeOK, Helpers
  <2>2. \/ handoff' = handoff \/ handoff' = (handoff \/ helper[a].confirmed)
        \/ handoff' = (handoff /\ ~helper[a].confirmed)
    BY DEF RetryLaunch
  <2>3. CASE helper[a].confirmed
    <3>1. (handoff \/ helper[a].confirmed) = TRUE /\ (handoff /\ ~helper[a].confirmed) = FALSE
      BY <2>3
    <3> QED BY <2>1, <2>2, <2>3, <3>1
  <2>4. CASE ~helper[a].confirmed
    <3>1. /\ (handoff \/ helper[a].confirmed) = handoff
          /\ (handoff /\ ~helper[a].confirmed) = handoff
      BY <2>1, <2>4
    <3> QED BY <2>1, <2>2, <3>1
  <2> QED BY <2>3, <2>4
<1> QED BY <1>0, <1>1, <1>2, <1>4, <1>6, <1>7, <1>8 DEF HelperStep

LEMMA TickInstallingStep ==
    ASSUME Inv, NEW a \in Attempts, TickInstalling(a)
    PROVE  HelperStep(a)
<1>0. TypeOK /\ kbd \in Launched(kbd) /\ handoff \in BOOLEAN
      /\ UNCHANGED helperOnly /\ faults' \in 0 .. MaxFaults
  BY DEF Inv, TypeOK, Launched, TickInstalling
<1>1. exe \in {"new", "partial"}
  BY DEF TickInstalling, NewExeReady
<1>2. InstallerAtWork => exe = "new"
  BY <1>1 DEF Inv, ExeKnown, InstallerAtWork
<1>3. kbd' \in Launched(kbd)
  BY <1>0 DEF TickInstalling
<1>4. handoff' \in BOOLEAN
  BY <1>0 DEF TickInstalling, WriteHandoff, ClearHandoff
<1>5. CASE Leave(a)
  BY <1>0, <1>1, <1>3, <1>4, <1>5, LeaveFacts DEF HelperStep
<1>6. CASE ~Leave(a)
  <2>1. PICK phase \in {"done", "starting", "failed"} :
          helper' = [helper EXCEPT ![a].phase = phase, ![a].confirmed = TRUE]
    BY <1>6 DEF TickInstalling
  <2>2. stage' \in [Attempts -> Stages]
    BY <1>0, <1>6 DEF TickInstalling, TypeOK
  <2> DEFINE h == [helper[a] EXCEPT !.phase = phase, !.confirmed = TRUE]
  <2>3. h \in Helpers
    <3>1. helper[a] \in Helpers
      BY <1>0 DEF TypeOK
    <3> QED BY <3>1 DEF Helpers
  <2>4. helper' = [helper EXCEPT ![a] = h]
    BY <1>0, <2>1 DEF TypeOK
  <2> HIDE DEF h
  <2>5. /\ helper' \in [Attempts -> Helpers]
        /\ \A b \in Attempts \ {a} : helper'[b] = helper[b]
    BY <1>0, <2>3, <2>4, HelperSet
  <2> QED BY <1>0, <1>1, <1>2, <1>3, <1>4, <2>2, <2>5 DEF HelperStep
<1> QED BY <1>5, <1>6

LEMMA TickStartingStep ==
    ASSUME Inv, NEW a \in Attempts, TickStarting(a)
    PROVE  HelperStep(a)
<1>0. TypeOK /\ handoff' = handoff /\ handoff \in BOOLEAN
      /\ UNCHANGED helperOnly /\ UNCHANGED <<kbd, faults>>
  BY DEF Inv, TypeOK, TickStarting
<1>1. CASE Leave(a)
  BY <1>0, <1>1, LeaveFacts, QuietStep
<1>2. CASE Become(a, "done")
  BY <1>0, <1>2, BecomeFacts, QuietStep
<1> QED BY <1>1, <1>2 DEF TickStarting

LEMMA TimeOutStep ==
    ASSUME Inv, NEW a \in Attempts, TimeOut(a)
    PROVE  HelperStep(a)
<1>0. TypeOK /\ handoff \in BOOLEAN /\ UNCHANGED helperOnly /\ UNCHANGED <<kbd, faults>>
      /\ Fail(a)
  BY DEF Inv, TypeOK, TimeOut
<1>1. CASE helper[a].mode = "splash"
  <2>1. Become(a, "failed") /\ handoff' = FALSE
    BY <1>0, <1>1 DEF Fail, ClearHandoff
  <2>2. /\ helper' \in [Attempts -> Helpers] /\ stage' \in [Attempts -> Stages]
        /\ \A b \in Attempts \ {a} : helper'[b] = helper[b]
        /\ helper'[a].confirmed <=> helper[a].confirmed
        /\ helper'[a].phase = "failed"
    BY <1>0, <2>1, BecomeFacts
  <2> QED BY <1>0, <2>1, <2>2, QuietStep
<1>2. CASE helper[a].mode # "splash"
  <2>1. Leave(a) /\ handoff' = (handoff /\ helper[a].phase # "starting")
    BY <1>0, <1>2 DEF Fail
  <2>2. handoff' \in BOOLEAN /\ (handoff' => handoff)
    BY <1>0, <2>1
  <2> QED BY <1>0, <2>1, <2>2, LeaveFacts, QuietStep
<1> QED BY <1>1, <1>2

LEMMA FailureScreenStep ==
    ASSUME Inv, NEW a \in Attempts, PressStart(a) \/ TickFailed(a)
    PROVE  HelperStep(a)
<1>0. TypeOK /\ handoff \in BOOLEAN /\ stage' = stage /\ stage \in [Attempts -> Stages]
      /\ UNCHANGED helperOnly /\ faults' = faults /\ helper[a].phase = "failed"
  BY DEF Inv, TypeOK, PressStart, TickFailed
<1>1. CASE ~Busy /\ RetryLaunch(a)
  BY <1>0, <1>1, RetryLaunchStep
<1>2. CASE ~(~Busy /\ RetryLaunch(a))
  <2>1. UNCHANGED <<kbd, handoff>>
    BY <1>2 DEF PressStart, TickFailed
  <2>2. PICK h \in Helpers :
          /\ helper' = [helper EXCEPT ![a] = h]
          /\ h.phase # "starting"
          /\ h.confirmed <=> helper[a].confirmed
    <3>1. CASE helper' = [helper EXCEPT ![a].pending = TRUE]
      <4> DEFINE h == [helper[a] EXCEPT !.pending = TRUE]
      <4>1. /\ h \in Helpers /\ h.phase # "starting"
            /\ h.confirmed <=> helper[a].confirmed
        BY <1>0 DEF TypeOK, Helpers
      <4>2. helper' = [helper EXCEPT ![a] = h]
        BY <1>0, <3>1 DEF TypeOK
      <4> QED BY <4>1, <4>2
    <3>2. CASE helper' = [helper EXCEPT ![a].phase = "done"]
      <4> DEFINE h == [helper[a] EXCEPT !.phase = "done"]
      <4>1. /\ h \in Helpers /\ h.phase # "starting"
            /\ h.confirmed <=> helper[a].confirmed
        BY <1>0 DEF TypeOK, Helpers
      <4>2. helper' = [helper EXCEPT ![a] = h]
        BY <1>0, <3>2 DEF TypeOK
      <4> QED BY <4>1, <4>2
    <3> QED BY <1>2, <3>1, <3>2 DEF PressStart, TickFailed
  <2>3. /\ helper' \in [Attempts -> Helpers] /\ helper'[a] = h
        /\ \A b \in Attempts \ {a} : helper'[b] = helper[b]
    BY <1>0, <2>2 DEF TypeOK
  <2>4. helper'[a].phase # "starting" /\ (helper'[a].confirmed => helper[a].confirmed)
    BY <2>2, <2>3
  <2> QED BY <1>0, <2>1, <2>3, <2>4, QuietStep
<1> QED BY <1>1, <1>2

LEMMA HelperGoneStep ==
    ASSUME Inv, NEW a \in Attempts, HelperEnds(a) \/ PressClose(a) \/ HelperDies(a)
    PROVE  HelperStep(a)
<1>1. /\ TypeOK /\ handoff' = handoff /\ handoff \in BOOLEAN /\ kbd' = kbd
      /\ UNCHANGED helperOnly /\ Leave(a) /\ (handoff => exe # "old")
  BY DEF Inv, TypeOK, OldIsOld, HelperEnds, PressClose, HelperDies
<1>2. faults' \in 0 .. MaxFaults
  BY <1>1, FaultType DEF HelperEnds, PressClose, HelperDies, TypeOK
<1> QED BY <1>1, <1>2, LeaveFacts DEF HelperStep, Launched

LEMMA HelperRaisesStep ==
    ASSUME Inv, NEW a \in Attempts, ProbeRaises(a) \/ SplashRaises(a)
    PROVE  HelperStep(a)
<1>1. /\ TypeOK /\ kbd' = kbd /\ stage' = stage /\ stage \in [Attempts -> Stages]
      /\ UNCHANGED helperOnly /\ Fault
      /\ (handoff => exe # "old") /\ (helper[a].confirmed => exe # "old")
  BY DEF Inv, TypeOK, OldIsOld, ProbeRaises, SplashRaises
<1>2. faults' \in 0 .. MaxFaults /\ kbd' \in Launched(kbd)
  BY <1>1, FaultType DEF Launched
<1>3. handoff' \in BOOLEAN /\ (handoff' => exe # "old")
  <2>1. handoff \in BOOLEAN
    BY <1>1 DEF TypeOK
  <2>2. handoff' = handoff \/ handoff' = FALSE
    BY DEF ProbeRaises, SplashRaises, ClearHandoff
  <2>3. CASE handoff' = handoff
    BY <1>1, <2>1, <2>3
  <2>4. CASE handoff' = FALSE
    BY <2>4
  <2> QED BY <2>2, <2>3, <2>4
<1>4. CASE ProbeRaises(a)
  <2> DEFINE h == [helper[a] EXCEPT !.phase = "failed", !.watch = FALSE]
  <2>1. h \in Helpers /\ (h.confirmed <=> helper[a].confirmed) /\ h.phase # "starting"
    BY <1>1 DEF TypeOK, Helpers
  <2>2. helper' = [helper EXCEPT ![a] = h]
    BY <1>1, <1>4 DEF TypeOK, ProbeRaises
  <2> HIDE DEF h
  <2>3. /\ helper' \in [Attempts -> Helpers] /\ helper'[a] = h
        /\ \A b \in Attempts \ {a} : helper'[b] = helper[b]
    BY <1>1, <2>1, <2>2, HelperSet
  <2> QED BY <1>1, <1>2, <1>3, <2>1, <2>3 DEF HelperStep
<1>5. CASE SplashRaises(a)
  <2> DEFINE h == [NoHelper EXCEPT !.proc = "up", !.mode = "headless",
                                   !.snapshot = helper[a].snapshot]
  <2>1. h \in Helpers /\ ~h.confirmed /\ h.phase # "starting"
    BY <1>1 DEF TypeOK, Helpers, NoHelper
  <2>2. helper' = [helper EXCEPT ![a] = h]
    BY <1>5 DEF SplashRaises
  <2> HIDE DEF h
  <2>3. /\ helper' \in [Attempts -> Helpers] /\ helper'[a] = h
        /\ \A b \in Attempts \ {a} : helper'[b] = helper[b]
    BY <1>1, <2>1, <2>2, HelperSet
  <2> QED BY <1>1, <1>2, <1>3, <2>1, <2>3 DEF HelperStep
<1> QED BY <1>4, <1>5

\* The helper's part of Next.
Helping(a) == HelperStarts(a) \/ Tick(a) \/ PressStart(a) \/ PressClose(a)
              \/ HelperDies(a) \/ ProbeRaises(a) \/ SplashRaises(a)

LEMMA HelpingStep ==
    ASSUME Inv, NEW a \in Attempts, Helping(a)
    PROVE  HelperStep(a)
BY HelperStartsStep, TickApproveStep, TickClosingStep, TickInstallingStep,
   TickStartingStep, TimeOutStep, FailureScreenStep, HelperGoneStep, HelperRaisesStep
   DEF Helping, Tick

-----------------------------------------------------------------------------
(* The theorems.                                                           *)

LEMMA NextInv == Inv /\ [Next]_vars => Inv'
<1> SUFFICES ASSUME Inv, [Next]_vars
             PROVE  Inv'
  OBVIOUS
<1>1. CASE CheckForUpdate \/ DismissUpdate \/ InstallUpdate
  BY <1>1, CheckKeepsInv
<1>2. CASE \E a \in Attempts : StageHelper(a)
  BY <1>2, StagingKeepsInv
<1>3. CASE WorkerStep \/ DeclinePrompt
  BY <1>3, WorkerKeepsInv
<1>4. CASE ApprovePrompt
  BY <1>4, ApproveKeepsInv
<1>5. CASE Installer
  BY <1>5, InstallerKeepsInv
<1>6. CASE KeyboardAppears \/ KeyboardDies \/ UserStartsKeyboard
  BY <1>6, KeyboardsKeepInv
<1>7. CASE \E a \in Attempts : Helping(a)
  BY <1>7, HelpingStep, HelperStepKeepsInv
<1>8. CASE UNCHANGED vars
  BY <1>8 DEF vars, Inv, TypeOK, ParentKnown, ParentAlive, ExeKnown, OldIsOld, ToastIsTrue
<1> QED BY <1>1, <1>2, <1>3, <1>4, <1>5, <1>6, <1>7, <1>8 DEF Next, Helping

\* Whatever runs, fails, dies or raises, and in whatever order: the worker, the
\* keyboard, the exe and the hand-off keep telling one story.
THEOREM InvHolds == Spec => []Inv
<1> QED BY InitInv, NextInv, PTL DEF Spec

\* The old keyboard, restarted after an install that failed or that it closed
\* for, never flashes "Updated" (_consume_update_handoff): a hand-off is only
\* ever there while the exe is no longer the old one.
THEOREM OldNeverAnnounces == Spec => []ToastIsTrue
<1>1. Inv => ToastIsTrue
  BY DEF Inv
<1> QED BY <1>1, InvHolds, PTL

\* Every launch the helper asks for (_enter_starting, retry_launch), of any
\* attempt and from any screen, is of an exe nobody is writing, and never into
\* an install that has not written its own.
THEOREM LaunchesStaySafe == Spec => LaunchesAreSafe
<1> DEFINE Safe == \A a \in Attempts :
                     helper[a].phase # "starting" /\ helper'[a].phase = "starting"
                        => exe # "writing" /\ (InstallerAtWork => exe = "new")
<1>1. Inv /\ [Next]_vars => [Safe]_vars
  <2> SUFFICES ASSUME Inv, Next, NEW a \in Attempts,
                      helper[a].phase # "starting", helper'[a].phase = "starting"
               PROVE  exe # "writing" /\ (InstallerAtWork => exe = "new")
    BY DEF vars
  <2>1. helper' # helper
    OBVIOUS
  <2>2. CASE \E b \in Attempts : Helping(b)
    <3>1. PICK b \in Attempts : Helping(b)
      BY <2>2
    <3>2. HelperStep(b)
      BY <3>1, HelpingStep
    <3>3. b = a
      BY <3>2 DEF HelperStep
    <3> QED BY <3>2, <3>3 DEF HelperStep
  <2>3. CASE SpawnRelauncher
    <3>1. TypeOK /\ attempt \in Attempts
      BY <2>3 DEF Inv, ParentKnown, SpawnRelauncher
    <3>2. PICK snapshot \in BOOLEAN :
            helper' = [helper EXCEPT ![attempt] =
                         [NoHelper EXCEPT !.proc = "starting", !.snapshot = snapshot]]
      BY <2>1, <2>3 DEF SpawnRelauncher
    <3> DEFINE h == [NoHelper EXCEPT !.proc = "starting", !.snapshot = snapshot]
    <3>3. h \in Helpers /\ h.phase = "approve"
      BY DEF NoHelper, Helpers
    <3> HIDE DEF h
    <3>4. helper' = [helper EXCEPT ![attempt] = h]
      BY <3>2 DEF h
    <3> QED BY <3>1, <3>3, <3>4 DEF TypeOK
  <2>4. UNCHANGED helper \/ SpawnRelauncher \/ \E b \in Attempts : Helping(b)
    BY DEF Next, Helping, CheckForUpdate, DismissUpdate, InstallUpdate, StageHelper,
           WorkerStep, Download, Pin, Verify, WaitUntilVisible, MarkLaunched, workerOnly,
           ApprovePrompt, DeclinePrompt, Installer, InstallerCloses, InstallerProceeds,
           InstallerAborts, installerOnly, KeyboardAppears, KeyboardDies,
           UserStartsKeyboard, keyboardOnly
  <2> QED BY <2>1, <2>2, <2>3, <2>4
<1>2. Spec => [][Next]_vars
  BY PTL DEF Spec
<1> QED BY <1>1, <1>2, InvHolds, PTL DEF LaunchesAreSafe
=============================================================================
