---------------------------- MODULE EngineLoader ----------------------------
(***************************************************************************)
(* The prediction engine is built on a thread of its own and handed over   *)
(* to the UI thread (prediction/loader.py); until then the bridge holds a  *)
(* stand-in.  A build can fail, be cancelled, or lose the keyboard it was  *)
(* for at any point; while it runs, two settings of the whole interpreter  *)
(* are lowered, and builds of several bridges in one process overlap.      *)
(***************************************************************************)
EXTENDS Naturals

CONSTANT MaxJobs   \* builds started, over all

ASSUME JobsAssumption == MaxJobs \in Nat

Jobs == 1 .. MaxJobs

VARIABLES
    job,       \* of each build: its worker, and the _LoadJob the threads share
    loader,    \* the build of the bridge's _prediction_loader; 0: it has none
    joining,   \* _publish of this build is waiting for its worker; 0: none
    status,    \* _prediction_status
    engine,    \* what _predictor is
    closing,   \* _shutting_down
    interp,    \* the interpreter's switch interval and collector
    saved      \* _active_builds, _saved_interval, _gc_paused

loaderVars == <<job, loader, joining, status, engine, closing, interp, saved>>

\* owner: who has the engine this build made.
NoJob == [worker |-> "none", cancelled |-> FALSE, done |-> FALSE, owner |-> "none",
          queued |-> FALSE]

\* A build of a process that is no more.
Ended == [NoJob EXCEPT !.worker = "gone", !.cancelled = TRUE, !.done = TRUE]

Normal(collects) == [interval |-> "default", gc |-> collects]

JobStates ==
    [worker : {"none", "entering", "building", "handing", "exiting", "marking",
               "emitting", "returning", "gone"},
     cancelled : BOOLEAN, done : BOOLEAN,
     owner : {"none", "worker", "job", "publisher", "bridge", "destroyed"},
     queued : BOOLEAN]

LoaderTypeOK ==
    /\ job \in [Jobs -> JobStates]
    /\ loader \in 0 .. MaxJobs /\ joining \in 0 .. MaxJobs
    /\ status \in {"loading", "ready", "error"}
    /\ engine \in {"standin", "real"}
    /\ closing \in BOOLEAN
    /\ interp \in [interval : {"default", "build"}, gc : BOOLEAN]
    /\ saved \in [active : 0 .. MaxJobs, interval : {"default", "build"}, paused : BOOLEAN]

LoaderInit ==
    /\ job = [j \in Jobs |-> NoJob]
    /\ loader = 0 /\ joining = 0
    /\ status = "loading" /\ engine = "standin" /\ closing = FALSE
    /\ interp = Normal(TRUE)
    /\ saved = [active |-> 0, interval |-> "default", paused |-> FALSE]

\* The UI thread is in no slot that waits.
UiFree == joining = 0

----------------------------------------------------------------------------
(* The worker.                                                             *)

bridgeOnly == <<loader, joining, status, engine, closing>>

Worker(j, from, to) == job[j].worker = from /\ job' = [job EXCEPT ![j].worker = to]

\* _manage_gc: the application opts in and a test does not, at any time.
ManageGc == BOOLEAN

\* Under the settings lock: the first build in saves what it finds and decides
\* whether the collector is paused.
EnterBuildSettings(j) ==
    /\ Worker(j, "entering", "building")
    /\ IF saved.active = 0
       THEN \E optIn \in ManageGc :
               /\ saved' = [active |-> 1, interval |-> interp.interval,
                            paused |-> optIn /\ interp.gc]
               /\ interp' = [interval |-> "build", gc |-> interp.gc /\ ~optIn]
       ELSE /\ saved' = [saved EXCEPT !.active = @ + 1]
            /\ interp' = [interp EXCEPT !.interval = "build"]
    /\ UNCHANGED bridgeOnly

\* The factory polls the cancel between its phases, so one that comes late
\* may be missed; a build that raises is a failed load.
Build(j) ==
    /\ \/ /\ job[j].worker = "building"
          /\ job' = [job EXCEPT ![j].worker = "handing", ![j].owner = "worker"]
       \/ Worker(j, "building", "exiting")
    /\ UNCHANGED <<interp, saved>>
    /\ UNCHANGED bridgeOnly

\* (Slip) the hand-over looks for a cancel before it takes the lock.
HandOverUnlooked(j) ==
    /\ job[j].worker = "handing"
    /\ \E owner \in {"job", "destroyed"} :
          job' = [job EXCEPT ![j].worker = "exiting", ![j].owner = owner]
    /\ UNCHANGED <<interp, saved>>
    /\ UNCHANGED bridgeOnly

\* Under the job's lock; moving the engine to the UI thread may fail.
HandOver(j) ==
    /\ job[j].worker = "handing"
    /\ \E owner \in IF job[j].cancelled THEN {"destroyed"} ELSE {"job", "destroyed"} :
          job' = [job EXCEPT ![j].worker = "exiting", ![j].owner = owner]
    /\ UNCHANGED <<interp, saved>>
    /\ UNCHANGED bridgeOnly

\* The last build out restores what the first one changed.
ExitBuildSettings(j) ==
    /\ Worker(j, "exiting", "marking")
    /\ saved' = [saved EXCEPT !.active = @ - 1, !.paused = @ /\ saved.active > 1]
    /\ interp' = IF saved.active > 1 THEN interp
                 ELSE [interval |-> saved.interval, gc |-> interp.gc \/ saved.paused]
    /\ UNCHANGED bridgeOnly

MarkDone(j) ==
    /\ job[j].worker = "marking"
    /\ job' = [job EXCEPT ![j].worker = "emitting", ![j].done = TRUE]
    /\ UNCHANGED <<interp, saved>>
    /\ UNCHANGED bridgeOnly

\* Queued for the loader, and dropped if it is gone.
Emit(j) ==
    /\ job[j].worker = "emitting"
    /\ job' = [job EXCEPT ![j].worker = "returning", ![j].queued = (loader = j)]
    /\ UNCHANGED <<interp, saved>>
    /\ UNCHANGED bridgeOnly

EmitReturns(j) ==
    /\ Worker(j, "returning", "gone")
    /\ UNCHANGED <<interp, saved>>
    /\ UNCHANGED bridgeOnly

----------------------------------------------------------------------------
(* The UI thread.                                                          *)

settings == <<interp, saved>>

Fresh == {j \in Jobs : \A i \in Jobs : i >= j => job[i].worker = "none"}

\* When the keyboard is visible, and again from the Retry button.
StartPredictionLoading ==
    /\ UiFree /\ ~closing /\ engine = "standin" /\ loader = 0
    /\ \E j \in Fresh :
          /\ \A i \in Fresh : j <= i
          /\ job' = [job EXCEPT ![j].worker = "entering"]
          /\ loader' = j
    /\ status' = "loading"
    /\ UNCHANGED <<joining, engine, closing>>
    /\ UNCHANGED settings

\* _publish takes the result under the lock, and then waits until the worker
\* has come out of the emission before the notifier is deleted.
Publish(j) ==
    /\ UiFree /\ job[j].queued
    /\ IF job[j].cancelled
       THEN /\ job' = [job EXCEPT ![j].queued = FALSE]
            /\ UNCHANGED joining
       ELSE /\ job' = [job EXCEPT ![j].queued = FALSE,
                                  ![j].owner = IF @ = "job" THEN "publisher" ELSE @]
            /\ joining' = j
    /\ UNCHANGED <<loader, status, engine, closing>>
    /\ UNCHANGED settings

\* _finish_prediction_load or _prediction_load_failed, in the same slot.
FinishLoad(j) ==
    /\ joining = j /\ job[j].worker = "gone"
    /\ joining' = 0 /\ loader' = 0
    /\ job' = [job EXCEPT ![j].cancelled = TRUE,
                          ![j].owner = IF @ = "publisher" THEN "bridge" ELSE @]
    /\ engine' = IF job[j].owner = "publisher" THEN "real" ELSE engine
    /\ status' = IF job[j].owner = "publisher" THEN "ready" ELSE "error"
    /\ UNCHANGED closing
    /\ UNCHANGED settings

\* cancel under the job's lock; the loader's deletion drops what is queued.
Cancelled(j) ==
    [job[j] EXCEPT !.cancelled = TRUE, !.queued = FALSE,
                   !.owner = IF @ = "job" THEN "destroyed" ELSE @]

\* shutdown, or the bridge destroyed without one: a worker is given a bounded
\* time to stop, which it may overrun.
ReleaseLoader ==
    /\ job' = IF loader = 0 THEN job ELSE [job EXCEPT ![loader] = Cancelled(loader)]
    /\ loader' = 0

ShutdownLoader ==
    /\ UiFree /\ ~closing
    /\ ReleaseLoader
    /\ closing' = TRUE
    /\ UNCHANGED <<joining, status, engine>>
    /\ UNCHANGED settings

\* A second bridge in the same process, as the test suite and any embedding make.
NewBridge ==
    /\ UiFree /\ closing
    /\ closing' = FALSE /\ engine' = "standin" /\ status' = "loading"
    /\ UNCHANGED <<job, loader, joining>>
    /\ UNCHANGED settings

----------------------------------------------------------------------------
WorkerStep(j) ==
    \/ EnterBuildSettings(j) \/ Build(j) \/ HandOver(j) \/ ExitBuildSettings(j)
    \/ MarkDone(j) \/ Emit(j) \/ EmitReturns(j)

LoaderNext ==
    \/ StartPredictionLoading
    \/ \E j \in Jobs : WorkerStep(j) \/ Publish(j) \/ FinishLoad(j)

----------------------------------------------------------------------------
(* Properties.                                                             *)

\* An engine is at one place, and an abandoned one at none: a result nobody
\* will come for does not outlive the thread it was moved to.
EnginesAccountedFor ==
    \A j \in Jobs :
       /\ job[j].owner = "job" => j = loader /\ ~job[j].cancelled
       /\ job[j].owner = "publisher" => joining = j
       /\ job[j].owner = "worker" => job[j].worker = "handing"

=============================================================================
