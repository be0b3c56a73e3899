---------------------------- MODULE StudyProofs ----------------------------
(***************************************************************************)
(* The engine's loader and the study, for any number of builds, phrases,   *)
(* releases, crashes and failed writes: every engine has one owner, a      *)
(* build leaves the interpreter as it found it, a trial is contained, and  *)
(* the log keeps up with the cursor.                                       *)
(*                                                                         *)
(* Nothing here needs the workers to rest while a slot runs (WorkersQuiet, *)
(* which keeps TLC's state space small): the theorems are also stated of   *)
(* every interleaving.                                                     *)
(***************************************************************************)
EXTENDS StudySession, FiniteSetTheorems, TLAPS

\* The system without the reduction.
AnyNext ==
    \/ LoaderNext /\ UNCHANGED studyVars
    \/ StudyNext /\ UNCHANGED loaderVars
    \/ Quit \/ Relaunch \/ Crash \/ SecondBridge

AnyOrder == Init /\ [][AnyNext]_vars

-----------------------------------------------------------------------------
(* The loader.                                                             *)

\* A build not cancelled is the one the bridge waits for; one in its queue,
\* or being published, has finished, and nobody else holds its engine.
JobsMatch ==
    /\ \A j \in Jobs :
         /\ job[j].worker = "none" => job[j] = NoJob
         /\ job[j].worker # "none" /\ ~job[j].cancelled => loader = j
         /\ loader = j => job[j].worker # "none"
         /\ job[j].queued \/ joining = j => job[j].worker \in {"returning", "gone"}
         /\ joining = j => job[j].owner # "job" /\ ~job[j].queued
    /\ joining # 0 => joining = loader

\* The builds inside enter_build_settings, which _active_builds counts; what
\* the first of them changed is what the last will restore.
Inside == {j \in Jobs : job[j].worker \in {"building", "handing", "exiting"}}
SettingsMatch ==
    /\ saved.active = Cardinality(Inside)
    /\ saved.active = 0 => interp = Normal(TRUE) /\ ~saved.paused
    /\ saved.active > 0 => saved.interval = "default" /\ (interp.gc <=> ~saved.paused)

LoaderInv == LoaderTypeOK /\ JobsMatch /\ SettingsMatch /\ EnginesAccountedFor

\* With no build under way the interpreter's settings are what they were.
InterpreterRestored == (\A j \in Jobs : job[j].worker \in {"none", "gone"}) => interp = Normal(TRUE)

LEMMA JobsCount ==
    ASSUME NEW S \in SUBSET Jobs
    PROVE  IsFiniteSet(S) /\ Cardinality(S) \in Nat /\ Cardinality(S) <= MaxJobs
<1>1. IsFiniteSet(Jobs) /\ Cardinality(Jobs) = MaxJobs
  BY JobsAssumption, FS_Interval DEF Jobs
<1> QED BY <1>1, FS_Subset, FS_CardinalityType

LEMMA InsideCount ==
    IsFiniteSet(Inside) /\ Cardinality(Inside) \in Nat /\ Cardinality(Inside) <= MaxJobs
BY JobsCount DEF Inside

LEMMA LoaderStarts == LoaderInit => LoaderInv
<1> SUFFICES ASSUME LoaderInit
             PROVE  LoaderInv
  OBVIOUS
<1> USE DEF LoaderInit, NoJob, Normal
<1>1. LoaderTypeOK
  <2>1. /\ interp = [interval |-> "default", gc |-> TRUE]
        /\ saved = [active |-> 0, interval |-> "default", paused |-> FALSE]
        /\ 0 \in 0 .. MaxJobs
    BY JobsAssumption
  <2>2. job \in [Jobs -> JobStates]
    BY DEF JobStates
  <2>3. /\ interp \in [interval : {"default", "build"}, gc : BOOLEAN]
        /\ saved \in [active : 0 .. MaxJobs, interval : {"default", "build"}, paused : BOOLEAN]
    BY <2>1
  <2> QED BY <2>1, <2>2, <2>3 DEF LoaderTypeOK
<1>2. JobsMatch /\ EnginesAccountedFor
  BY DEF JobsMatch, EnginesAccountedFor, Jobs
<1>3. Inside = {}
  BY DEF Inside
<1>4. SettingsMatch
  BY <1>3, FS_EmptySet DEF SettingsMatch, Normal
<1> QED BY <1>1, <1>2, <1>4 DEF LoaderInv

LEMMA JobUpdated ==
    ASSUME job \in [Jobs -> JobStates], NEW j \in Jobs, NEW r \in JobStates,
           job' = [job EXCEPT ![j] = r]
    PROVE  /\ job' \in [Jobs -> JobStates] /\ job'[j] = r
           /\ \A i \in Jobs \ {j} : job'[i] = job[i]
OBVIOUS

\* One build moves on, and not into or out of the settings.
LEMMA SameInside ==
    ASSUME LoaderTypeOK, SettingsMatch, NEW j \in Jobs, \A i \in Jobs \ {j} : job'[i] = job[i],
           job[j].worker \in {"building", "handing", "exiting"}
             <=> job'[j].worker \in {"building", "handing", "exiting"},
           UNCHANGED <<interp, saved>>
    PROVE  SettingsMatch'
<1>1. Inside' = Inside
  BY DEF Inside
<1> QED BY <1>1 DEF SettingsMatch, Normal

\* A build's own step that leaves the engine where it is.
LEMMA WorkerMoves ==
    ASSUME LoaderInv, NEW j \in Jobs, NEW from, NEW to, Worker(j, from, to),
           to \in {"building", "exiting", "marking", "gone"},
           from \notin {"none", "handing"},
           from \in {"returning", "gone"} => to = "gone",
           UNCHANGED bridgeOnly
    PROVE  /\ job' \in [Jobs -> JobStates] /\ JobsMatch' /\ EnginesAccountedFor'
           /\ \A i \in Jobs \ {j} : job'[i] = job[i]
           /\ job[j].worker = from /\ job'[j].worker = to
<1> USE DEF LoaderInv, bridgeOnly
<1>1. job \in [Jobs -> JobStates] /\ job[j].worker = from
      /\ job' = [job EXCEPT ![j].worker = to]
  BY DEF LoaderTypeOK, Worker
<1>2. /\ job' \in [Jobs -> JobStates] /\ \A i \in Jobs \ {j} : job'[i] = job[i]
      /\ job'[j].worker = to /\ job'[j].owner = job[j].owner
      /\ job'[j].queued = job[j].queued /\ job'[j].cancelled = job[j].cancelled
  BY <1>1 DEF JobStates
<1>3. JobsMatch'
  BY <1>1, <1>2 DEF JobsMatch
<1>4. EnginesAccountedFor'
  BY <1>1, <1>2 DEF EnginesAccountedFor
<1> QED BY <1>1, <1>2, <1>3, <1>4

LEMMA EnterKeepsInv ==
    ASSUME LoaderInv, NEW j \in Jobs, EnterBuildSettings(j)
    PROVE  LoaderInv'
<1>1. /\ job' \in [Jobs -> JobStates] /\ JobsMatch' /\ EnginesAccountedFor'
      /\ \A i \in Jobs \ {j} : job'[i] = job[i]
      /\ job[j].worker = "entering" /\ job'[j].worker = "building"
  BY WorkerMoves DEF EnterBuildSettings
<1>2. Inside' = Inside \cup {j} /\ j \notin Inside
  BY <1>1 DEF Inside
<1>3. Cardinality(Inside') = saved.active + 1 /\ saved.active \in Nat
  <2>1. saved.active = Cardinality(Inside)
    BY DEF LoaderInv, SettingsMatch, Normal
  <2>2. Cardinality(Inside \cup {j}) = Cardinality(Inside) + 1
    BY <1>2, InsideCount, FS_AddElement
  <2> QED BY <1>2, <2>1, <2>2, InsideCount
<1>4. saved.active + 1 \in 0 .. MaxJobs
  <2>1. Inside' \subseteq Jobs
    BY DEF Inside
  <2>2. Cardinality(Inside') <= MaxJobs
    BY <2>1, JobsCount
  <2> QED BY <1>3, <2>2, JobsAssumption
<1>5. CASE saved.active = 0
  <2>1. PICK optIn \in BOOLEAN :
          /\ saved' = [active |-> 1, interval |-> interp.interval, paused |-> optIn /\ interp.gc]
          /\ interp' = [interval |-> "build", gc |-> interp.gc /\ ~optIn]
    BY <1>5 DEF ManageGc, EnterBuildSettings
  <2>2. interp = [interval |-> "default", gc |-> TRUE]
    BY <1>5 DEF LoaderInv, SettingsMatch, Normal
  <2>3. SettingsMatch'
    <3>1. saved'.active = 1 /\ saved'.interval = "default"
      BY <2>1, <2>2
    <3>2. interp'.gc <=> ~saved'.paused
      BY <2>1, <2>2, Zenon
    <3>3. Cardinality(Inside') = 1
      BY <1>3, <1>5
    <3> QED BY <3>1, <3>2, <3>3 DEF SettingsMatch, Normal
  <2>4. LoaderTypeOK'
    BY <1>1, <1>4, <1>5, <2>1, <2>2 DEF LoaderInv, LoaderTypeOK, bridgeOnly, EnterBuildSettings
  <2> QED BY <1>1, <2>3, <2>4 DEF LoaderInv
<1>6. CASE saved.active # 0
  <2>1. saved' = [saved EXCEPT !.active = saved.active + 1]
        /\ interp' = [interp EXCEPT !.interval = "build"]
    BY <1>6 DEF EnterBuildSettings
  <2>2. saved \in [active : 0 .. MaxJobs, interval : {"default", "build"}, paused : BOOLEAN]
        /\ interp \in [interval : {"default", "build"}, gc : BOOLEAN]
    BY DEF LoaderInv, LoaderTypeOK
  <2>3. /\ saved'.active = saved.active + 1 /\ saved'.interval = saved.interval
        /\ saved'.paused = saved.paused /\ interp'.gc = interp.gc
    BY <2>1, <2>2
  <2>4. SettingsMatch'
    <3>1. saved.active > 0 /\ saved'.active > 0
      BY <1>3, <1>6, <2>3
    <3>2. saved.interval = "default" /\ (interp.gc <=> ~saved.paused)
      BY <3>1 DEF LoaderInv, SettingsMatch, Normal
    <3>3. interp'.gc <=> ~saved'.paused
      BY <2>3, <3>2, Zenon
    <3> QED BY <1>3, <2>3, <3>1, <3>2, <3>3 DEF SettingsMatch, Normal
  <2>5. LoaderTypeOK'
    BY <1>1, <1>4, <2>1, <2>2 DEF LoaderInv, LoaderTypeOK, bridgeOnly, EnterBuildSettings
  <2> QED BY <1>1, <2>4, <2>5 DEF LoaderInv
<1> QED BY <1>5, <1>6

LEMMA ExitKeepsInv ==
    ASSUME LoaderInv, NEW j \in Jobs, ExitBuildSettings(j)
    PROVE  LoaderInv'
<1>1. /\ job' \in [Jobs -> JobStates] /\ JobsMatch' /\ EnginesAccountedFor'
      /\ \A i \in Jobs \ {j} : job'[i] = job[i]
      /\ job[j].worker = "exiting" /\ job'[j].worker = "marking"
  BY WorkerMoves DEF ExitBuildSettings
<1>2. Inside' = Inside \ {j} /\ j \in Inside
  BY <1>1 DEF Inside
<1>3. /\ Cardinality(Inside') = saved.active - 1 /\ saved.active \in 0 .. MaxJobs
      /\ saved.active > 0
  <2>1. saved.active = Cardinality(Inside) /\ saved.active \in 0 .. MaxJobs
    BY InsideCount, JobsAssumption DEF LoaderInv, SettingsMatch, Normal
  <2>2. Cardinality(Inside \ {j}) = Cardinality(Inside) - 1
    BY <1>2, InsideCount, FS_RemoveElement
  <2>3. Cardinality(Inside) # 0
    BY <1>2, InsideCount, FS_EmptySet
  <2> QED BY <1>2, <2>1, <2>2, <2>3, JobsAssumption
<1>4. saved \in [active : 0 .. MaxJobs, interval : {"default", "build"}, paused : BOOLEAN]
      /\ interp \in [interval : {"default", "build"}, gc : BOOLEAN]
  BY DEF LoaderInv, LoaderTypeOK
<1>5. /\ saved'.active = saved.active - 1 /\ saved'.interval = saved.interval
      /\ saved.active > 1 => saved'.paused = saved.paused
      /\ ~(saved.active > 1) => ~saved'.paused
      /\ saved' \in [active : 0 .. MaxJobs, interval : {"default", "build"}, paused : BOOLEAN]
  <2>1. saved.active - 1 \in 0 .. MaxJobs
    BY <1>3, JobsAssumption
  <2>2. saved' = [saved EXCEPT !.active = saved.active - 1,
                               !.paused = saved.paused /\ saved.active > 1]
    BY DEF ExitBuildSettings
  <2> QED BY <1>4, <2>1, <2>2
<1>6. saved.interval = "default" /\ (interp.gc <=> ~saved.paused)
  BY <1>3 DEF LoaderInv, SettingsMatch, Normal
<1>7. CASE saved.active > 1
  <2>1. interp' = interp
    BY <1>7 DEF ExitBuildSettings
  <2>2. SettingsMatch'
    <3>1. saved'.active > 0 /\ saved'.paused = saved.paused
      BY <1>3, <1>5, <1>7, JobsAssumption
    <3>2. interp'.gc <=> ~saved'.paused
      BY <1>6, <2>1, <3>1, Zenon
    <3> QED BY <1>2, <1>3, <1>5, <1>6, <3>1, <3>2 DEF SettingsMatch, Normal
  <2>3. LoaderTypeOK'
    BY <1>1, <1>4, <1>5, <2>1 DEF LoaderInv, LoaderTypeOK, bridgeOnly, ExitBuildSettings
  <2> QED BY <1>1, <2>2, <2>3 DEF LoaderInv
<1>8. CASE ~(saved.active > 1)
  <2>1. interp' = [interval |-> "default", gc |-> TRUE]
    <3>1. interp.gc \/ saved.paused
      BY <1>4, <1>6
    <3>2. interp' = [interval |-> saved.interval, gc |-> interp.gc \/ saved.paused]
      BY <1>8 DEF ExitBuildSettings
    <3> QED BY <1>6, <3>1, <3>2
  <2>2. SettingsMatch'
    <3>1. saved'.active = 0 /\ ~saved'.paused
      BY <1>3, <1>5, <1>8, JobsAssumption
    <3>2. Cardinality(Inside') = 0 /\ interp' = Normal(TRUE)
      BY <1>3, <1>5, <2>1, <3>1 DEF Normal
    <3> QED BY <3>1, <3>2 DEF SettingsMatch, Normal
  <2>3. LoaderTypeOK'
    BY <1>1, <1>5, <2>1 DEF LoaderInv, LoaderTypeOK, bridgeOnly, ExitBuildSettings
  <2> QED BY <1>1, <2>2, <2>3 DEF LoaderInv
<1> QED BY <1>7, <1>8

LEMMA WorkerKeepsInv ==
    ASSUME LoaderInv, NEW j \in Jobs, WorkerStep(j)
    PROVE  LoaderInv'
<1>1. CASE EnterBuildSettings(j)
  BY <1>1, EnterKeepsInv
<1>2. CASE ExitBuildSettings(j)
  BY <1>2, ExitKeepsInv
<1>3. CASE Build(j) \/ HandOver(j) \/ MarkDone(j) \/ Emit(j) \/ EmitReturns(j)
  <2>1. job \in [Jobs -> JobStates] /\ UNCHANGED <<interp, saved>> /\ UNCHANGED bridgeOnly
    BY <1>3 DEF LoaderInv, LoaderTypeOK, Build, HandOver, MarkDone, Emit, EmitReturns
  <2>2. /\ job' \in [Jobs -> JobStates] /\ \A i \in Jobs \ {j} : job'[i] = job[i]
        /\ job[j].worker # "none" /\ job'[j].worker # "none"
        /\ job'[j].cancelled = job[j].cancelled
        /\ job[j].worker \in {"building", "handing", "exiting"}
             <=> job'[j].worker \in {"building", "handing", "exiting"}
    <3>1. CASE Build(j)
      BY <2>1, <3>1 DEF Build, Worker, JobStates
    <3>2. CASE HandOver(j)
      <4>1. PICK owner \in {"job", "destroyed"} :
              job' = [job EXCEPT ![j] = [job[j] EXCEPT !.worker = "exiting", !.owner = owner]]
        BY <2>1, <3>2 DEF HandOver
      <4> DEFINE r == [job[j] EXCEPT !.worker = "exiting", !.owner = owner]
      <4>2. r \in JobStates /\ r.worker = "exiting" /\ r.cancelled = job[j].cancelled
        BY <2>1 DEF JobStates
      <4> HIDE DEF r
      <4>3. job' = [job EXCEPT ![j] = r]
        BY <4>1 DEF r
      <4> QED BY <2>1, <3>2, <4>2, <4>3, JobUpdated DEF HandOver
    <3>3. CASE MarkDone(j)
      BY <2>1, <3>3 DEF MarkDone, JobStates
    <3>4. CASE Emit(j)
      <4> DEFINE r == [job[j] EXCEPT !.worker = "returning", !.queued = (loader = j)]
      <4>1. r \in JobStates /\ r.worker = "returning" /\ r.cancelled = job[j].cancelled
        BY <2>1 DEF JobStates
      <4>2. job' = [job EXCEPT ![j] = r] /\ job[j].worker = "emitting"
        BY <2>1, <3>4 DEF Emit
      <4> HIDE DEF r
      <4> QED BY <2>1, <4>1, <4>2, JobUpdated
    <3>5. CASE EmitReturns(j)
      BY <2>1, <3>5 DEF EmitReturns, Worker, JobStates
    <3> QED BY <1>3, <3>1, <3>2, <3>3, <3>4, <3>5
  <2>3. /\ job'[j].queued => (job'[j].worker \in {"returning", "gone"} /\ loader = j)
           \/ (job[j].queued /\ job'[j].worker \in {"returning", "gone"})
        /\ job'[j].owner # job[j].owner => job[j].worker \in {"building", "handing"}
        /\ job'[j].owner = "job" => job[j].owner = "job" \/ ~job[j].cancelled
        /\ job'[j].owner = "publisher" => job[j].owner = "publisher"
        /\ job'[j].owner = "worker" => job'[j].worker = "handing"
        /\ joining = j => job[j].worker \in {"returning", "gone"}
                          /\ job'[j].worker \in {"returning", "gone"}
                          /\ ~job'[j].queued
    <3>0. /\ job[j].queued \/ joining = j => job[j].worker \in {"returning", "gone"}
          /\ job[j].owner = "worker" => job[j].worker = "handing"
          /\ joining = j => ~job[j].queued
      BY DEF LoaderInv, JobsMatch, EnginesAccountedFor
    <3>1. CASE Build(j)
      BY <2>1, <3>0, <3>1 DEF Build, Worker, JobStates
    <3>2. CASE HandOver(j)
      BY <2>1, <3>0, <3>2 DEF HandOver, JobStates
    <3>3. CASE MarkDone(j)
      BY <2>1, <3>0, <3>3 DEF MarkDone, JobStates
    <3>4. CASE Emit(j)
      BY <2>1, <3>0, <3>4 DEF Emit, JobStates
    <3>5. CASE EmitReturns(j)
      BY <2>1, <3>0, <3>5 DEF EmitReturns, Worker, JobStates
    <3> QED BY <1>3, <3>1, <3>2, <3>3, <3>4, <3>5
  <2>4. JobsMatch'
    BY <2>1, <2>2, <2>3 DEF LoaderInv, JobsMatch, bridgeOnly
  <2>5. EnginesAccountedFor'
    BY <2>1, <2>2, <2>3 DEF LoaderInv, JobsMatch, EnginesAccountedFor, bridgeOnly
  <2>6. SettingsMatch'
    BY <2>1, <2>2, SameInside DEF LoaderInv
  <2>7. LoaderTypeOK'
    BY <2>1, <2>2 DEF LoaderInv, LoaderTypeOK, bridgeOnly
  <2> QED BY <2>4, <2>5, <2>6, <2>7 DEF LoaderInv
<1> QED BY <1>1, <1>2, <1>3 DEF WorkerStep

LEMMA StartKeepsInv ==
    ASSUME LoaderInv, StartPredictionLoading
    PROVE  LoaderInv'
<1> USE DEF StartPredictionLoading, settings, UiFree
<1>1. PICK j \in Fresh : job' = [job EXCEPT ![j].worker = "entering"] /\ loader' = j
  OBVIOUS
<1>2. j \in Jobs /\ job[j] = NoJob /\ loader = 0 /\ joining = 0
  BY DEF Fresh, LoaderInv, JobsMatch, Jobs
<1>3. job \in [Jobs -> JobStates] /\ UNCHANGED <<interp, saved>>
  BY DEF LoaderInv, LoaderTypeOK
<1>4. /\ job' \in [Jobs -> JobStates] /\ \A i \in Jobs \ {j} : job'[i] = job[i]
      /\ job'[j].worker = "entering" /\ ~job'[j].cancelled /\ ~job'[j].queued
      /\ job'[j].owner = "none" /\ job[j].worker = "none"
  <2> DEFINE r == [NoJob EXCEPT !.worker = "entering"]
  <2>1. /\ r \in JobStates /\ r.worker = "entering" /\ ~r.cancelled /\ ~r.queued
        /\ r.owner = "none" /\ NoJob.worker = "none"
    BY DEF JobStates, NoJob
  <2>2. job' = [job EXCEPT ![j] = r]
    BY <1>1, <1>2, <1>3
  <2> HIDE DEF r
  <2> QED BY <1>2, <1>3, <2>1, <2>2, JobUpdated
<1>5. j # 0 /\ loader' \in 0 .. MaxJobs
  BY <1>1, <1>2, JobsAssumption DEF Jobs
<1>6. \A i \in Jobs : i # 0
  BY DEF Jobs
<1>7. JobsMatch'
  BY <1>1, <1>2, <1>4, <1>5, <1>6 DEF LoaderInv, JobsMatch
<1>8. EnginesAccountedFor'
  BY <1>1, <1>2, <1>4, <1>5, <1>6 DEF LoaderInv, JobsMatch, EnginesAccountedFor
<1>9. SettingsMatch'
  BY <1>2, <1>3, <1>4, SameInside DEF LoaderInv
<1>10. LoaderTypeOK'
  BY <1>3, <1>4, <1>5 DEF LoaderInv, LoaderTypeOK
<1> QED BY <1>7, <1>8, <1>9, <1>10 DEF LoaderInv

LEMMA PublishKeepsInv ==
    ASSUME LoaderInv, NEW j \in Jobs, Publish(j)
    PROVE  LoaderInv'
<1> USE DEF Publish, settings, UiFree
<1>1. job \in [Jobs -> JobStates] /\ UNCHANGED <<interp, saved>> /\ UNCHANGED loader
      /\ joining = 0 /\ joining' \in {0, j} /\ (joining' = j => ~job[j].cancelled)
  BY DEF LoaderInv, LoaderTypeOK, Jobs
<1>2. /\ job' \in [Jobs -> JobStates] /\ \A i \in Jobs \ {j} : job'[i] = job[i]
      /\ job'[j].worker = job[j].worker /\ job'[j].cancelled = job[j].cancelled
      /\ ~job'[j].queued
      /\ IF job[j].owner = "job" /\ joining' = j THEN job'[j].owner = "publisher"
                                                ELSE job'[j].owner = job[j].owner
  <2>1. CASE job[j].cancelled
    <3> DEFINE r == [job[j] EXCEPT !.queued = FALSE]
    <3>1. /\ r \in JobStates /\ r.worker = job[j].worker /\ r.cancelled = job[j].cancelled
          /\ ~r.queued /\ r.owner = job[j].owner
      BY <1>1 DEF JobStates
    <3>2. job' = [job EXCEPT ![j] = r] /\ joining' # j
      BY <1>1, <2>1, JobsAssumption DEF Jobs
    <3> HIDE DEF r
    <3> QED BY <1>1, <3>1, <3>2, JobUpdated
  <2>2. CASE ~job[j].cancelled
    <3> DEFINE r == [job[j] EXCEPT !.queued = FALSE,
                                   !.owner = IF @ = "job" THEN "publisher" ELSE @]
    <3>1. /\ r \in JobStates /\ r.worker = job[j].worker /\ r.cancelled = job[j].cancelled
          /\ ~r.queued
          /\ IF job[j].owner = "job" THEN r.owner = "publisher" ELSE r.owner = job[j].owner
      BY <1>1 DEF JobStates
    <3>2. job' = [job EXCEPT ![j] = r] /\ joining' = j
      BY <1>1, <2>2
    <3> HIDE DEF r
    <3> QED BY <1>1, <3>1, <3>2, JobUpdated
  <2> QED BY <2>1, <2>2
<1>3. job[j].worker \in {"returning", "gone"} /\ j # 0 /\ \A i \in Jobs : i # 0
  BY DEF LoaderInv, JobsMatch, Jobs
<1>4. JobsMatch'
  <2>1. joining' = j => loader = j
    BY <1>1, <1>3 DEF LoaderInv, JobsMatch
  <2> QED BY <1>1, <1>2, <1>3, <2>1 DEF LoaderInv, JobsMatch
<1>5. EnginesAccountedFor'
  BY <1>1, <1>2, <1>3 DEF LoaderInv, EnginesAccountedFor
<1>6. SettingsMatch'
  BY <1>1, <1>2, <1>3, SameInside DEF LoaderInv
<1>7. LoaderTypeOK'
  BY <1>1, <1>2, JobsAssumption DEF LoaderInv, LoaderTypeOK, Jobs
<1> QED BY <1>4, <1>5, <1>6, <1>7 DEF LoaderInv

LEMMA FinishKeepsInv ==
    ASSUME LoaderInv, NEW j \in Jobs, FinishLoad(j)
    PROVE  LoaderInv'
<1> USE DEF FinishLoad, settings
<1>1. job \in [Jobs -> JobStates] /\ UNCHANGED <<interp, saved>>
      /\ joining = j /\ joining' = 0 /\ loader' = 0
  BY DEF LoaderInv, LoaderTypeOK
<1>2. /\ job' \in [Jobs -> JobStates] /\ \A i \in Jobs \ {j} : job'[i] = job[i]
      /\ job'[j].worker = "gone" /\ job'[j].cancelled
      /\ job'[j].queued = job[j].queued
      /\ job[j].worker = "gone"
      /\ IF job[j].owner = "publisher" THEN job'[j].owner = "bridge"
                                       ELSE job'[j].owner = job[j].owner
  BY <1>1 DEF JobStates
<1>3. j # 0 /\ loader = j /\ \A i \in Jobs : i # 0
  BY <1>1 DEF LoaderInv, JobsMatch, Jobs
<1>4. JobsMatch'
  BY <1>1, <1>2, <1>3 DEF LoaderInv, JobsMatch
<1>5. EnginesAccountedFor'
  BY <1>1, <1>2, <1>3 DEF LoaderInv, JobsMatch, EnginesAccountedFor
<1>6. SettingsMatch'
  BY <1>1, <1>2, SameInside DEF LoaderInv
<1>7. LoaderTypeOK'
  BY <1>1, <1>2, JobsAssumption DEF LoaderInv, LoaderTypeOK
<1> QED BY <1>4, <1>5, <1>6, <1>7 DEF LoaderInv

LEMMA LoaderKeepsInv == LoaderInv /\ LoaderNext => LoaderInv'
BY WorkerKeepsInv, StartKeepsInv, PublishKeepsInv, FinishKeepsInv DEF LoaderNext

LEMMA ShutdownKeepsInv ==
    ASSUME LoaderInv, ShutdownLoader
    PROVE  LoaderInv'
<1> USE DEF ShutdownLoader, ReleaseLoader, settings, UiFree
<1>1. job \in [Jobs -> JobStates] /\ UNCHANGED <<interp, saved>>
      /\ joining = 0 /\ joining' = 0 /\ loader' = 0 /\ loader \in 0 .. MaxJobs
  BY DEF LoaderInv, LoaderTypeOK
<1>2. \A i \in Jobs : i # 0
  BY DEF Jobs
<1>3. CASE loader = 0
  <2>1. job' = job
    BY <1>3
  <2>2. LoaderTypeOK' /\ JobsMatch' /\ EnginesAccountedFor'
    BY <1>1, <1>2, <1>3, <2>1 DEF LoaderInv, LoaderTypeOK, JobsMatch, EnginesAccountedFor
  <2>3. Inside' = Inside
    BY <2>1 DEF Inside
  <2>4. SettingsMatch'
    BY <1>1, <2>3 DEF LoaderInv, SettingsMatch, Normal
  <2> QED BY <2>2, <2>4 DEF LoaderInv
<1>4. CASE loader # 0
  <2> DEFINE j == loader
  <2>1. j \in Jobs /\ job' = [job EXCEPT ![j] = Cancelled(j)]
    BY <1>1, <1>4, JobsAssumption DEF Jobs
  <2>2. /\ Cancelled(j) \in JobStates /\ Cancelled(j).worker = job[j].worker
        /\ Cancelled(j).cancelled /\ ~Cancelled(j).queued
        /\ IF job[j].owner = "job" THEN Cancelled(j).owner = "destroyed"
                                   ELSE Cancelled(j).owner = job[j].owner
    <3>1. job[j] \in JobStates
      BY <1>1, <2>1
    <3>2. CASE job[j].owner = "job"
      BY <3>1, <3>2 DEF Cancelled, JobStates
    <3>3. CASE job[j].owner # "job"
      BY <3>1, <3>3 DEF Cancelled, JobStates
    <3> QED BY <3>2, <3>3
  <2>3. /\ job' \in [Jobs -> JobStates] /\ \A i \in Jobs \ {j} : job'[i] = job[i]
        /\ job'[j] = Cancelled(j)
    BY <1>1, <2>1, <2>2
  <2>4. job[j].worker = "none" => job[j].owner = "none"
    BY <2>1 DEF LoaderInv, JobsMatch, NoJob
  <2>5. job[j].worker # "none"
    BY <1>1, <2>1 DEF LoaderInv, JobsMatch
  <2>6. JobsMatch'
    BY <1>1, <1>2, <2>2, <2>3, <2>5 DEF LoaderInv, JobsMatch
  <2>7. EnginesAccountedFor'
    BY <1>1, <1>2, <2>2, <2>3 DEF LoaderInv, EnginesAccountedFor
  <2>8. SettingsMatch'
    BY <1>1, <2>1, <2>2, <2>3, SameInside DEF LoaderInv
  <2>9. LoaderTypeOK'
    BY <1>1, <2>3, JobsAssumption DEF LoaderInv, LoaderTypeOK
  <2> QED BY <2>6, <2>7, <2>8, <2>9 DEF LoaderInv
<1> QED BY <1>3, <1>4

LEMMA NewBridgeKeepsInv ==
    ASSUME LoaderInv, NewBridge
    PROVE  LoaderInv'
<1> USE DEF NewBridge, settings
<1>1. UNCHANGED <<job, loader, joining, interp, saved>>
  OBVIOUS
<1>2. LoaderTypeOK' /\ JobsMatch' /\ EnginesAccountedFor'
  BY <1>1 DEF LoaderInv, LoaderTypeOK, JobsMatch, EnginesAccountedFor
<1>3. Inside' = Inside
  BY <1>1 DEF Inside
<1>4. SettingsMatch'
  BY <1>1, <1>3 DEF LoaderInv, SettingsMatch, Normal
<1> QED BY <1>2, <1>4 DEF LoaderInv

LEMMA NewProcessKeepsLoaderInv ==
    ASSUME LoaderInv, NewProcess
    PROVE  LoaderInv'
<1> USE DEF NewProcess
<1>1. /\ job' = [j \in Jobs |-> IF job[j].worker = "none" THEN NoJob ELSE Ended]
      /\ loader' = 0 /\ joining' = 0 /\ status' = "loading" /\ engine' = "standin"
      /\ closing' = FALSE
  OBVIOUS
<1>2. /\ NoJob \in JobStates /\ NoJob.worker = "none" /\ NoJob.owner = "none" /\ ~NoJob.queued
      /\ Ended \in JobStates /\ Ended.worker = "gone" /\ Ended.owner = "none"
      /\ ~Ended.queued /\ Ended.cancelled
  BY DEF JobStates, NoJob, Ended
<1>3. /\ interp' \in [interval : {"default", "build"}, gc : BOOLEAN]
      /\ saved' \in [active : 0 .. MaxJobs, interval : {"default", "build"}, paused : BOOLEAN]
  BY JobsAssumption DEF Normal
<1>4. LoaderTypeOK'
  BY <1>1, <1>2, <1>3, JobsAssumption DEF LoaderTypeOK
<1>5. JobsMatch' /\ EnginesAccountedFor'
  BY <1>1, <1>2 DEF JobsMatch, EnginesAccountedFor, Jobs
<1>6. Inside' = {}
  BY <1>1, <1>2 DEF Inside
<1>7. SettingsMatch'
  <2>1. saved'.active = 0 /\ ~saved'.paused /\ interp' = Normal(TRUE)
    BY DEF Normal
  <2> QED BY <1>6, <2>1, FS_EmptySet DEF SettingsMatch, Normal
<1> QED BY <1>4, <1>5, <1>7 DEF LoaderInv

-----------------------------------------------------------------------------
(* The study.                                                              *)

StudyTypeOK ==
    /\ {disk, store} \subseteq [consent : 0 .. MaxVersions, index : {0, 1}, cursor : 0 .. Length]
    /\ log \subseteq Positions /\ bundle \subseteq Positions
    /\ session \in [live : BOOLEAN, index : {0, 1}, cursor : 0 .. Length,
                    trials : SUBSET Positions]
    /\ recorder \in [on : BOOLEAN, offers : BOOLEAN, offered : BOOLEAN]
    /\ synth \in {"desktop", "recorder"} /\ frozen \in BOOLEAN
    /\ window \in {"hidden", "open", "stopped"}
    /\ version \in 1 .. MaxVersions /\ missing \subseteq Positions /\ faults \in 0 .. MaxFaults

\* The trials among the first steps of a plan are in the log, or known to be missing.
Covered(index, cursor) ==
    \A p \in 1 .. cursor : Plan(index)[p].kind \in {"practice", "trial"} => p \in log \cup missing

\* The session is where the store is, and learning is frozen while it lasts;
\* a trial under way is the session's, and not past its end.
SessionMatches ==
    /\ session.live => /\ session.index = store.index /\ session.cursor = store.cursor
                       /\ store.consent = version
    /\ session.live /\ ~IsComplete(session) /\ ~closing => frozen
    /\ recorder.on => session.live /\ ~IsComplete(session)

StudyInv ==
    /\ StudyTypeOK /\ SessionMatches /\ TrialIsContained
    /\ LogCoversCursor /\ Covered(store.index, store.cursor)

LEMMA LengthType == Length \in Nat /\ Length >= 3 /\ Positions = 1 .. Length
BY StudyAssumption DEF Length, Positions

LEMMA TypeSplits == TypeOK <=> LoaderTypeOK /\ StudyTypeOK
BY DEF TypeOK, StudyTypeOK

LEMMA CoversDisk == LogCoversCursor <=> Covered(disk.index, disk.cursor)
BY DEF LogCoversCursor, Covered

LEMMA NothingYet ==
    /\ NoState \in [consent : 0 .. MaxVersions, index : {0, 1}, cursor : 0 .. Length]
    /\ NoState.consent = 0 /\ NoState.index = 0 /\ NoState.cursor = 0
    /\ NoSession \in [live : BOOLEAN, index : {0, 1}, cursor : 0 .. Length,
                      trials : SUBSET Positions]
    /\ ~NoSession.live
    /\ NoRecorder \in [on : BOOLEAN, offers : BOOLEAN, offered : BOOLEAN]
    /\ ~NoRecorder.on
<1>1. 0 \in 0 .. Length /\ 0 \in 0 .. MaxVersions
  BY LengthType, StudyAssumption
<1> QED BY <1>1 DEF NoState, NoSession, NoRecorder

LEMMA StudyStarts == Init => StudyInv
<1> SUFFICES ASSUME Init
             PROVE  StudyInv
  OBVIOUS
<1> USE NothingYet DEF Init
<1>1. StudyTypeOK
  <2>1. version \in 1 .. MaxVersions /\ faults \in 0 .. MaxFaults
    BY StudyAssumption
  <2>2. window = "hidden" /\ synth = "desktop" /\ frozen = FALSE
        /\ log = {} /\ bundle = {} /\ missing = {}
        /\ disk = NoState /\ store = NoState /\ session = NoSession /\ recorder = NoRecorder
    OBVIOUS
  <2> QED BY <2>1, <2>2 DEF StudyTypeOK
<1>2. SessionMatches /\ TrialIsContained
  BY DEF SessionMatches, TrialIsContained
<1>3. LogCoversCursor /\ Covered(store.index, store.cursor)
  BY DEF LogCoversCursor, Covered
<1> QED BY <1>1, <1>2, <1>3 DEF StudyInv

\* What a slot that leaves the files and the session alone must see to.
LEMMA FilesStay ==
    ASSUME StudyInv, UNCHANGED <<files, store, session, version, missing, faults>>,
           recorder' \in [on : BOOLEAN, offers : BOOLEAN, offered : BOOLEAN],
           synth' \in {"desktop", "recorder"}, frozen' \in BOOLEAN,
           window' \in {"hidden", "open", "stopped"},
           SessionMatches', TrialIsContained'
    PROVE  StudyInv'
<1>1. StudyTypeOK'
  BY DEF StudyInv, StudyTypeOK, files
<1>2. LogCoversCursor' /\ Covered(store.index, store.cursor)'
  BY DEF StudyInv, LogCoversCursor, Covered, files
<1> QED BY <1>1, <1>2 DEF StudyInv

LEMMA CaptureEnds ==
    ASSUME EndCapture
    PROVE  /\ recorder' \in [on : BOOLEAN, offers : BOOLEAN, offered : BOOLEAN]
           /\ ~recorder'.on /\ synth' = "desktop"
BY DEF EndCapture, NoRecorder

\* The view that a session's step calls for.
LEMMA ViewOf ==
    ASSUME NEW s, SyncView(s)
    PROVE  /\ recorder' \in [on : BOOLEAN, offers : BOOLEAN, offered : BOOLEAN]
           /\ IF recorder'.on THEN synth' = "recorder" ELSE synth' = "desktop"
           /\ recorder'.on => s.live /\ ~IsComplete(s)
<1>1. CASE TakesTrial(s)
  <2>1. PICK b \in BOOLEAN : recorder' = [on |-> TRUE, offers |-> b, offered |-> FALSE]
    <3>1. Predictions(Current(s).condition) \in BOOLEAN
      BY DEF Predictions
    <3> QED BY <1>1, <3>1, Zenon DEF SyncView, BeginCapture
  <2>2. synth' = "recorder" /\ s.live /\ ~IsComplete(s)
    BY <1>1 DEF SyncView, BeginCapture, TakesTrial
  <2> QED BY <2>1, <2>2
<1>2. CASE ~TakesTrial(s)
  BY <1>2, CaptureEnds DEF SyncView
<1> QED BY <1>1, <1>2

\* The window and its view change, and nothing else.
LEMMA ViewKeepsInv ==
    ASSUME StudyInv, UNCHANGED closing, OpenStudy \/ RequestStop \/ ResumeFromStop \/ EndForNow
    PROVE  StudyInv'
<1> USE DEF Idle
<1>1. UNCHANGED <<files, store, session, frozen, version, missing, faults>>
      /\ ~closing /\ closing' = closing
      /\ window' \in {"hidden", "open", "stopped"}
  BY DEF OpenStudy, RequestStop, ResumeFromStop, EndForNow
<1>2. /\ recorder' \in [on : BOOLEAN, offers : BOOLEAN, offered : BOOLEAN]
      /\ IF recorder'.on THEN synth' = "recorder" ELSE synth' = "desktop"
      /\ recorder'.on => session.live /\ ~IsComplete(session) /\ window' = "open"
  <2>1. CASE OpenStudy /\ HasConsented
    BY <2>1, ViewOf DEF OpenStudy
  <2>2. CASE OpenStudy /\ ~HasConsented
    <3>1. UNCHANGED <<recorder, synth>> /\ window = "hidden" /\ window' = "open"
      BY <2>2 DEF OpenStudy
    <3> QED BY <3>1 DEF StudyInv, StudyTypeOK, TrialIsContained
  <2>3. CASE RequestStop
    BY <2>3, CaptureEnds DEF RequestStop
  <2>4. CASE ResumeFromStop
    BY <2>4, ViewOf DEF ResumeFromStop
  <2>5. CASE EndForNow
    BY <2>5, CaptureEnds DEF EndForNow
  <2> QED BY <2>1, <2>2, <2>3, <2>4, <2>5
<1>3. frozen' \in BOOLEAN /\ synth' \in {"desktop", "recorder"}
  BY <1>1, <1>2 DEF StudyInv, StudyTypeOK
<1>4. SessionMatches'
  BY <1>1, <1>2 DEF StudyInv, SessionMatches, IsComplete
<1>5. TrialIsContained'
  <2>1. recorder'.on => frozen'
    BY <1>1, <1>2 DEF StudyInv, SessionMatches
  <2> QED BY <1>1, <1>2, <2>1 DEF StudyInv, TrialIsContained
<1> QED BY <1>1, <1>2, <1>3, <1>4, <1>5, FilesStay

LEMMA AgreeKeepsInv ==
    ASSUME StudyInv, UNCHANGED closing, AgreeToConsent
    PROVE  StudyInv'
<1> USE DEF AgreeToConsent, HasConsented
<1>1. ~session.live
  BY DEF StudyInv, SessionMatches
<1>2. CASE store.consent > 0
  <2>1. UNCHANGED <<files, store, session, version, missing, faults>>
        /\ UNCHANGED <<recorder, synth, frozen, window>>
    BY <1>2 DEF files
  <2>2. SessionMatches' /\ TrialIsContained'
    BY <2>1 DEF StudyInv, SessionMatches, TrialIsContained, IsComplete
  <2> QED BY <2>1, <2>2, FilesStay DEF StudyInv, StudyTypeOK
<1>3. CASE ~(store.consent > 0)
  <2>1. PICK index \in {0, 1} : Save([consent |-> version, index |-> index, cursor |-> 0])
    BY <1>3
  <2> DEFINE state == [consent |-> version, index |-> index, cursor |-> 0]
  <2>2. state \in [consent : 0 .. MaxVersions, index : {0, 1}, cursor : 0 .. Length]
        /\ state.cursor = 0
    BY LengthType, StudyAssumption DEF StudyInv, StudyTypeOK
  <2>3. store' = state /\ disk' \in {disk, state} /\ faults' \in 0 .. MaxFaults
    BY <2>1, StudyAssumption DEF Save, Fault, StudyInv, StudyTypeOK
  <2> HIDE DEF state
  <2>4. StudyTypeOK'
    BY <2>2, <2>3 DEF StudyInv, StudyTypeOK
  <2>5. SessionMatches' /\ TrialIsContained'
    BY <1>1 DEF StudyInv, SessionMatches, TrialIsContained, IsComplete
  <2>6. LogCoversCursor' /\ Covered(store.index, store.cursor)'
    BY <2>2, <2>3 DEF StudyInv, LogCoversCursor, Covered
  <2> QED BY <2>4, <2>5, <2>6 DEF StudyInv
<1> QED BY <1>2, <1>3

LEMMA StartSessionKeepsInv ==
    ASSUME StudyInv, UNCHANGED closing, StartSession
    PROVE  StudyInv'
<1> USE DEF StartSession, HasConsented, Idle
<1>1. /\ store \in [consent : 0 .. MaxVersions, index : {0, 1}, cursor : 0 .. Length]
      /\ session' = [live |-> TRUE, index |-> store.index, cursor |-> store.cursor, trials |-> {}]
      /\ frozen' = TRUE /\ window' = "open"
  BY DEF StudyInv, StudyTypeOK
<1>2. /\ session' \in [live : BOOLEAN, index : {0, 1}, cursor : 0 .. Length,
                       trials : SUBSET Positions]
      /\ session'.live /\ session'.index = store.index /\ session'.cursor = store.cursor
  BY <1>1
<1>3. /\ recorder' \in [on : BOOLEAN, offers : BOOLEAN, offered : BOOLEAN]
      /\ IF recorder'.on THEN synth' = "recorder" ELSE synth' = "desktop"
      /\ recorder'.on => session'.live /\ ~IsComplete(session')
  BY ViewOf
<1>4. StudyTypeOK'
  BY <1>1, <1>2, <1>3 DEF StudyInv, StudyTypeOK, files
<1>5. SessionMatches'
  BY <1>1, <1>2, <1>3 DEF StudyInv, SessionMatches, IsComplete
<1>6. TrialIsContained'
  BY <1>1, <1>2, <1>3 DEF TrialIsContained
<1>7. LogCoversCursor' /\ Covered(store.index, store.cursor)'
  BY DEF StudyInv, LogCoversCursor, Covered, files
<1> QED BY <1>4, <1>5, <1>6, <1>7 DEF StudyInv

LEMMA OfferKeepsInv ==
    ASSUME StudyInv, UNCHANGED closing, NoteOffer
    PROVE  StudyInv'
<1> USE DEF NoteOffer
<1>1. /\ recorder' \in [on : BOOLEAN, offers : BOOLEAN, offered : BOOLEAN]
      /\ recorder'.on /\ recorder.on
  BY DEF StudyInv, StudyTypeOK
<1>2. SessionMatches' /\ TrialIsContained'
  BY <1>1 DEF StudyInv, SessionMatches, TrialIsContained, IsComplete
<1> QED BY <1>1, <1>2, FilesStay DEF StudyInv, StudyTypeOK

\* The session goes on to its next step, the store with it, and the step it
\* leaves is covered.
LEMMA AdvanceKeepsInv ==
    ASSUME StudyInv, ~closing, UNCHANGED <<closing, version, bundle>>,
           session.live, ~IsComplete(session), window = "open", window' = "open",
           NEW s, s \in [live : BOOLEAN, index : {0, 1}, cursor : Int, trials : SUBSET Positions],
           s.live, s.index = session.index, s.cursor = session.cursor + 1,
           Progress(s),
           store' = [store EXCEPT !.cursor = session.cursor + 1], disk' \in {disk, store'},
           log \cup missing \subseteq log' \cup missing',
           log' \cup missing' \subseteq Positions, faults' \in 0 .. MaxFaults,
           Current(session).kind \in {"practice", "trial"}
             => session.cursor + 1 \in log' \cup missing'
    PROVE  StudyInv'
<1> USE DEF Progress
<1>1. /\ session.cursor \in Nat /\ session.cursor + 1 \in 1 .. Length
      /\ store.index = session.index /\ store.cursor = session.cursor
      /\ store.consent = version /\ frozen
  BY LengthType DEF StudyInv, StudyTypeOK, SessionMatches, IsComplete
<1>2. /\ store \in [consent : 0 .. MaxVersions, index : {0, 1}, cursor : 0 .. Length]
      /\ store' \in [consent : 0 .. MaxVersions, index : {0, 1}, cursor : 0 .. Length]
      /\ store'.cursor = session.cursor + 1 /\ store'.index = session.index
      /\ store'.consent = version
  <2>1. store \in [consent : 0 .. MaxVersions, index : {0, 1}, cursor : 0 .. Length]
    BY DEF StudyInv, StudyTypeOK
  <2>2. session.cursor + 1 \in 0 .. Length
    BY <1>1, LengthType
  <2> QED BY <1>1, <2>1, <2>2
<1>3. /\ recorder' \in [on : BOOLEAN, offers : BOOLEAN, offered : BOOLEAN]
      /\ IF recorder'.on THEN synth' = "recorder" ELSE synth' = "desktop"
      /\ recorder'.on => s.live /\ ~IsComplete(s)
  BY ViewOf
<1>4. session' = s /\ (frozen' <=> ~IsComplete(s)) /\ frozen' \in BOOLEAN
  BY <1>1 DEF IsComplete
<1>5. StudyTypeOK'
  <2>1. session' \in [live : BOOLEAN, index : {0, 1}, cursor : 0 .. Length,
                      trials : SUBSET Positions]
    BY <1>1, <1>4, LengthType
  <2>2. {disk', store'} \subseteq [consent : 0 .. MaxVersions, index : {0, 1},
                                   cursor : 0 .. Length]
    BY <1>2 DEF StudyInv, StudyTypeOK
  <2>3. synth' \in {"desktop", "recorder"}
    BY <1>3
  <2> QED BY <1>3, <1>4, <2>1, <2>2, <2>3 DEF StudyInv, StudyTypeOK
<1>6. SessionMatches'
  BY <1>2, <1>3, <1>4 DEF SessionMatches, IsComplete
<1>7. TrialIsContained'
  BY <1>3, <1>4 DEF TrialIsContained
<1>8. Covered(store.index, store.cursor)'
  <2>1. \A p \in 1 .. session.cursor :
          Plan(store.index)[p].kind \in {"practice", "trial"} => p \in log \cup missing
    BY <1>1 DEF StudyInv, Covered
  <2>2. Plan(store.index)[session.cursor + 1].kind \in {"practice", "trial"}
           => session.cursor + 1 \in log' \cup missing'
    BY <1>1 DEF Current
  <2>3. \A p \in 1 .. session.cursor + 1 : p \in 1 .. session.cursor \/ p = session.cursor + 1
    BY <1>1
  <2> QED BY <1>1, <1>2, <2>1, <2>2, <2>3 DEF Covered
<1>9. LogCoversCursor'
  <2>1. CASE disk' = store'
    BY <1>8, <2>1 DEF Covered, LogCoversCursor
  <2>2. CASE disk' = disk
    BY <2>2 DEF StudyInv, LogCoversCursor
  <2> QED BY <2>1, <2>2
<1> QED BY <1>5, <1>6, <1>7, <1>8, <1>9 DEF StudyInv

LEMMA SubmitKeepsInv ==
    ASSUME StudyInv, UNCHANGED closing, SubmitTrial
    PROVE  StudyInv'
<1> USE DEF SubmitTrial, Idle
<1>1. session.live /\ ~IsComplete(session) /\ ~closing
  BY DEF StudyInv, SessionMatches
<1>2. /\ session \in [live : BOOLEAN, index : {0, 1}, cursor : 0 .. Length,
                      trials : SUBSET Positions]
      /\ session.cursor + 1 \in Positions
  BY <1>1, LengthType DEF StudyInv, StudyTypeOK, IsComplete
<1>3. /\ Recorded \in [live : BOOLEAN, index : {0, 1}, cursor : Int, trials : SUBSET Positions]
      /\ Recorded.live /\ Recorded.index = session.index
      /\ Recorded.cursor = session.cursor + 1
  <2>1. session.cursor + 1 \in Int /\ session.trials \cup {session.cursor + 1} \in SUBSET Positions
    BY <1>2, LengthType
  <2>2. Recorded = [session EXCEPT !.cursor = session.cursor + 1,
                                   !.trials = session.trials \cup {session.cursor + 1}]
    BY <1>2 DEF Recorded, Advanced
  <2> QED BY <1>1, <1>2, <2>1, <2>2
<1>4. /\ store' = [store EXCEPT !.cursor = session.cursor + 1] /\ disk' \in {disk, store'}
      /\ log \cup missing \subseteq log' \cup missing'
      /\ log' \cup missing' \subseteq log \cup missing \cup {session.cursor + 1}
      /\ session.cursor + 1 \in log' \cup missing'
      /\ faults' \in 0 .. MaxFaults
  BY StudyAssumption DEF Save, Fault, StudyInv, StudyTypeOK
<1>5. log' \cup missing' \subseteq Positions
  BY <1>2, <1>4 DEF StudyInv, StudyTypeOK
<1> QED BY <1>1, <1>3, <1>4, <1>5, AdvanceKeepsInv

LEMMA StepKeepsInv ==
    ASSUME StudyInv, UNCHANGED closing, NEW kind \in {"workload", "break"}, FinishStep(kind)
    PROVE  StudyInv'
<1> USE DEF FinishStep, Idle
<1>1. session \in [live : BOOLEAN, index : {0, 1}, cursor : 0 .. Length,
                   trials : SUBSET Positions]
  BY DEF StudyInv, StudyTypeOK
<1>2. /\ Advanced(session) \in [live : BOOLEAN, index : {0, 1}, cursor : Int,
                                trials : SUBSET Positions]
      /\ Advanced(session).live /\ Advanced(session).index = session.index
      /\ Advanced(session).cursor = session.cursor + 1
  BY <1>1, LengthType DEF Advanced
<1>3. /\ store' = [store EXCEPT !.cursor = session.cursor + 1] /\ disk' \in {disk, store'}
      /\ faults' \in 0 .. MaxFaults
  BY StudyAssumption DEF Save, Fault, StudyInv, StudyTypeOK
<1>4. log' \cup missing' \subseteq Positions
  BY DEF StudyInv, StudyTypeOK
<1> QED BY <1>2, <1>3, <1>4, AdvanceKeepsInv

LEMMA ReviewKeepsInv ==
    ASSUME StudyInv, UNCHANGED closing, SaveBundle \/ Withdraw
    PROVE  StudyInv'
<1>1. CASE SaveBundle
  <2> USE <1>1 DEF SaveBundle, AtReview, MarkSubmitted, BundleOf
  <2>1. /\ store' = store /\ disk' \in {disk, store} /\ bundle' \subseteq Positions
        /\ faults' \in 0 .. MaxFaults
    BY StudyAssumption DEF Save, Fault, StudyInv, StudyTypeOK
  <2>2. StudyTypeOK'
    BY <2>1 DEF StudyInv, StudyTypeOK
  <2>3. SessionMatches' /\ TrialIsContained'
    BY <2>1 DEF StudyInv, SessionMatches, TrialIsContained, IsComplete
  <2>4. LogCoversCursor' /\ Covered(store.index, store.cursor)'
    <3>1. Covered(store.index, store.cursor)'
      BY <2>1 DEF StudyInv, Covered
    <3>2. disk' = store => LogCoversCursor'
      BY <2>1, <3>1 DEF Covered, LogCoversCursor
    <3>3. disk' = disk => LogCoversCursor'
      BY DEF StudyInv, LogCoversCursor
    <3> QED BY <2>1, <3>1, <3>2, <3>3
  <2> QED BY <2>2, <2>3, <2>4 DEF StudyInv
<1>2. CASE Withdraw
  <2> USE <1>2, NothingYet DEF Withdraw, DiscardFiles, Withdrawn
  <2>1. /\ disk' \in {disk, NoState} /\ log' \subseteq log
        /\ log \cup missing = log' \cup missing' /\ faults' \in 0 .. MaxFaults
    BY StudyAssumption DEF Fault, StudyInv, StudyTypeOK
  <2>2. StudyTypeOK'
    BY <2>1, CaptureEnds DEF StudyInv, StudyTypeOK
  <2>3. SessionMatches' /\ TrialIsContained'
    BY CaptureEnds DEF SessionMatches, TrialIsContained
  <2>4. LogCoversCursor'
    BY <2>1 DEF StudyInv, LogCoversCursor
  <2>5. Covered(store.index, store.cursor)'
    BY DEF Covered
  <2> QED BY <2>2, <2>3, <2>4, <2>5 DEF StudyInv
<1> QED BY <1>1, <1>2

LEMMA SlotsKeepInv ==
    ASSUME StudyInv, StudyNext, UNCHANGED closing
    PROVE  StudyInv'
BY ViewKeepsInv, AgreeKeepsInv, StartSessionKeepsInv, OfferKeepsInv, SubmitKeepsInv,
   StepKeepsInv, ReviewKeepsInv DEF StudyNext, RecordWorkload, SkipStep

\* A loader's step leaves the study alone.
LEMMA LoaderLeavesStudy ==
    ASSUME StudyInv, UNCHANGED studyVars, UNCHANGED closing
    PROVE  StudyInv'
BY DEF StudyInv, StudyTypeOK, SessionMatches, TrialIsContained, LogCoversCursor, Covered,
       IsComplete, studyVars, files

LEMMA QuitKeepsStudyInv ==
    ASSUME StudyInv, Quit
    PROVE  StudyInv'
<1> USE DEF Quit, ShutdownLoader
<1>1. SessionMatches' /\ TrialIsContained'
  BY CaptureEnds DEF StudyInv, SessionMatches, TrialIsContained, IsComplete
<1>2. synth' \in {"desktop", "recorder"} /\ frozen' \in BOOLEAN
      /\ window' \in {"hidden", "open", "stopped"}
  BY CaptureEnds DEF StudyInv, StudyTypeOK
<1> QED BY <1>1, <1>2, CaptureEnds, FilesStay

\* A process, or a bridge, that begins anew begins with what is on disk.
LEMMA RebornKeepsInv ==
    ASSUME StudyInv, Reborn, UNCHANGED disk, log \cup missing \subseteq log' \cup missing',
           log' \cup missing' \cup bundle' \subseteq Positions,
           version' \in 1 .. MaxVersions, faults' \in 0 .. MaxFaults
    PROVE  StudyInv'
<1> USE NothingYet DEF Reborn
<1>1. StudyTypeOK'
  BY CaptureEnds DEF StudyInv, StudyTypeOK
<1>2. SessionMatches' /\ TrialIsContained'
  BY CaptureEnds DEF SessionMatches, TrialIsContained
<1>3. LogCoversCursor' /\ Covered(store.index, store.cursor)'
  BY DEF StudyInv, LogCoversCursor, Covered
<1> QED BY <1>1, <1>2, <1>3 DEF StudyInv

LEMMA RestartsKeepInv ==
    ASSUME StudyInv, Relaunch \/ Crash \/ SecondBridge
    PROVE  StudyInv'
<1>1. version \in 1 .. MaxVersions /\ faults \in 0 .. MaxFaults
      /\ log \cup missing \cup bundle \subseteq Positions
  BY DEF StudyInv, StudyTypeOK
<1>2. CASE Relaunch
  BY <1>1, <1>2, RebornKeepsInv, StudyAssumption DEF Relaunch, NewProcess, files
<1>3. CASE SecondBridge
  BY <1>1, <1>3, RebornKeepsInv DEF SecondBridge, files
<1>4. CASE Crash
  <2>1. recorder.on => session.cursor + 1 \in Positions
    BY LengthType DEF StudyInv, StudyTypeOK, SessionMatches, IsComplete
  <2>2. /\ UNCHANGED disk /\ log \cup missing \subseteq log' \cup missing'
        /\ log' \cup missing' \cup bundle' \subseteq Positions
    <3>1. missing' = missing \cup (log \ log')
      BY <1>4 DEF Crash, Withdrawn
    <3>2. UNCHANGED disk /\ log' \cup bundle' \subseteq Positions
      <4>1. session.trials \subseteq Positions
        BY DEF StudyInv, StudyTypeOK
      <4> QED BY <1>1, <1>4, <2>1, <4>1 DEF Crash, KilledInSubmit, KilledAtReview, BundleOf, files
    <3> QED BY <1>1, <3>1, <3>2
  <2>3. faults' \in 0 .. MaxFaults
    BY <1>1, <1>4, StudyAssumption DEF Crash, Fault
  <2>4. version' \in 1 .. MaxVersions /\ Reborn
    BY <1>1, <1>4, StudyAssumption DEF Crash, NewProcess
  <2> QED BY <2>2, <2>3, <2>4, RebornKeepsInv
<1> QED BY <1>2, <1>3, <1>4

-----------------------------------------------------------------------------
Inv == LoaderInv /\ StudyInv

LEMMA InitInv == Init => Inv
BY LoaderStarts, StudyStarts DEF Init, Inv

LEMMA NextInv == Inv /\ [AnyNext]_vars => Inv'
<1> SUFFICES ASSUME Inv, [AnyNext]_vars
             PROVE  Inv'
  OBVIOUS
<1> USE DEF Inv
<1>1. UNCHANGED loaderVars => LoaderInv'
  <2>1. UNCHANGED loaderVars => Inside' = Inside
    BY DEF loaderVars, Inside
  <2>2. UNCHANGED loaderVars => SettingsMatch'
    BY <2>1 DEF LoaderInv, SettingsMatch, Normal, loaderVars
  <2>3. UNCHANGED loaderVars => LoaderTypeOK' /\ JobsMatch' /\ EnginesAccountedFor'
    BY DEF LoaderInv, LoaderTypeOK, JobsMatch, EnginesAccountedFor, loaderVars
  <2> QED BY <2>2, <2>3 DEF LoaderInv
<1>2. CASE LoaderNext /\ UNCHANGED studyVars
  <2>1. UNCHANGED closing
    BY <1>2 DEF LoaderNext, WorkerStep, StartPredictionLoading, Publish, FinishLoad,
                EnterBuildSettings, Build, HandOver, ExitBuildSettings, MarkDone, Emit,
                EmitReturns, bridgeOnly
  <2> QED BY <1>2, <2>1, LoaderKeepsInv, LoaderLeavesStudy
<1>3. CASE StudyNext /\ UNCHANGED loaderVars
  <2>1. UNCHANGED closing
    BY <1>3 DEF loaderVars
  <2> QED BY <1>1, <1>3, <2>1, SlotsKeepInv
<1>4. CASE Quit
  BY <1>4, ShutdownKeepsInv, QuitKeepsStudyInv DEF Quit
<1>5. CASE Relaunch \/ Crash
  BY <1>5, NewProcessKeepsLoaderInv, RestartsKeepInv DEF Relaunch, Crash
<1>6. CASE SecondBridge
  BY <1>6, NewBridgeKeepsInv, RestartsKeepInv DEF SecondBridge
<1>7. CASE UNCHANGED vars
  <2>1. UNCHANGED loaderVars /\ UNCHANGED studyVars /\ UNCHANGED closing
    BY <1>7 DEF vars, loaderVars
  <2> QED BY <1>1, <2>1, LoaderLeavesStudy
<1> QED BY <1>2, <1>3, <1>4, <1>5, <1>6, <1>7 DEF AnyNext

LEMMA SpecIsAnOrder == Spec => AnyOrder
<1>1. [Next]_vars => [AnyNext]_vars
  BY DEF Next, AnyNext
<1> QED BY <1>1, PTL DEF Spec, AnyOrder

THEOREM InvHolds == AnyOrder => []Inv
BY InitInv, NextInv, PTL DEF AnyOrder

\* The state of the loader and the study stays within its types.
THEOREM TypeCorrect == Spec => []TypeOK
<1>1. Inv => TypeOK
  BY TypeSplits DEF Inv, LoaderInv, StudyInv
<1> QED BY <1>1, InvHolds, SpecIsAnOrder, PTL

\* Every engine built has one owner, and an abandoned one none, whatever the
\* order of hand-over, cancel, publication and restart (prediction/loader.py).
THEOREM EnginesHaveOwners == Spec => []EnginesAccountedFor
<1>1. Inv => EnginesAccountedFor
  BY DEF Inv, LoaderInv
<1> QED BY <1>1, InvHolds, SpecIsAnOrder, PTL

\* However builds overlap, fail and are abandoned, once none is under way the
\* switch interval and the collector are as they were (_BuildSettings).
THEOREM SettingsRestored == Spec => []InterpreterRestored
<1>1. Inv => InterpreterRestored
  <2> SUFFICES ASSUME Inv, \A j \in Jobs : job[j].worker \in {"none", "gone"}
               PROVE  interp = Normal(TRUE)
    BY DEF InterpreterRestored
  <2>1. Inside = {}
    BY DEF Inside
  <2>2. saved.active = 0
    BY <2>1, FS_EmptySet DEF Inv, LoaderInv, SettingsMatch, Normal
  <2> QED BY <2>2 DEF Inv, LoaderInv, SettingsMatch, Normal
<1> QED BY <1>1, InvHolds, SpecIsAnOrder, PTL

\* A trial never types at the desktop nor teaches, and no way out of it leaves
\* the keyboard recording or frozen (study_bridge.py).
THEOREM TrialStaysContained == Spec => []TrialIsContained
<1>1. Inv => TrialIsContained
  BY DEF Inv, StudyInv
<1> QED BY <1>1, InvHolds, SpecIsAnOrder, PTL

\* Whenever the process dies, the log on disk has every trial before the cursor
\* on disk, but for one that could not be written and for those that a
\* withdrawal cut short removed (submitTrial, StudyStore.withdraw).
THEOREM LogKeepsUp == Spec => []LogCoversCursor
<1>1. Inv => LogCoversCursor
  BY DEF Inv, StudyInv
<1> QED BY <1>1, InvHolds, SpecIsAnOrder, PTL

\* All of it in every interleaving of the workers with the slots: exploring
\* only those where the workers come first hides no violation.
THEOREM ReductionIsSafe ==
    AnyOrder => [](EnginesAccountedFor /\ TrialIsContained /\ LogCoversCursor)
<1>1. Inv => EnginesAccountedFor /\ TrialIsContained /\ LogCoversCursor
  BY DEF Inv, LoaderInv, StudyInv
<1> QED BY <1>1, InvHolds, PTL
=============================================================================
