--------------------------- MODULE SerialInjector ---------------------------
(***************************************************************************)
(* platform/serial_injector.py under the Windows synthesiser and the       *)
(* bridge.  The UI thread hands in bursts; one that fits the inline budget *)
(* of an idle injector is delivered on the spot, anything else by a worker *)
(* thread, one group of events (one SendInput) at a time.  A text unit is  *)
(* two groups, key-down and key-up; a hold or release is one.              *)
(***************************************************************************)
EXTENDS Integers, Sequences, SequencesExt

CONSTANTS
    Modifiers,    \* the modifiers the bridge may hold
    MaxJobs,      \* bound: bursts handed in before shutdown
    MaxUnits,     \* bound: characters in a text burst
    InlineUnits,  \* the longest text that fits inline_budget_s
    Timeouts      \* may shutdown's bounded wait run out?

ASSUME ConstantsAssumption ==
    /\ IsFiniteSet(Modifiers) /\ Modifiers # {}
    /\ MaxJobs \in Nat /\ MaxUnits \in Nat \ {0} /\ InlineUnits \in Nat
    /\ Timeouts \in BOOLEAN

Threads == {"ui", "worker"}

\* A burst: typed text (cancellable), or a hold or release of modifier m.
\* "built" is what _os_key_down said was down when its events were built.
Jobs == [id: 1..(MaxJobs + Cardinality(Modifiers)), kind: {"text", "hold", "release"},
         m: Modifiers, units: 1..MaxUnits, built: SUBSET Modifiers,
         cancelled: BOOLEAN]

NoJob == [kind |-> "none"]

VARIABLES
    queue,      \* _queue
    worker,     \* _worker: "none", "started" (not yet delivering) or "draining"
    lock,       \* holder of _delivering: "free", a thread, or "old": a worker
                \* that has given up the handle and not yet the lock
    job,        \* what each thread is delivering (the worker's is _current)
    unit,       \* units of it already sent
    step,       \* "check" (between units), "down" or "up" (next group)
    pending,    \* _pending_modifiers: predicted "down", "up" or "none"
    os,         \* modifiers down at the OS
    key,        \* id of the burst whose character key is down, 0 if none
    last,       \* id of the burst a unit was last sent from, 0 if none
    wanted,     \* the bridge's active flags
    nextId,     \* id of the next burst handed in
    closing     \* "no", "joining", "releasing", "exited" or "killed"

vars == <<queue, worker, lock, job, unit, step, pending, os, key, last, wanted,
          nextId, closing>>

\* Bursts are numbered in the order they are handed in, threads deliver only
\* under the lock, and a key is down only between its two groups.
TypeOK ==
    /\ queue \in Seq(Jobs)
    /\ worker \in {"none", "started", "draining"}
    /\ lock \in {"free", "ui", "worker", "old"}
    /\ job \in [Threads -> Jobs \cup {NoJob}]
    /\ unit \in [Threads -> 0..MaxUnits]
    /\ step \in [Threads -> {"check", "down", "up"}]
    /\ pending \in [Modifiers -> {"none", "down", "up"}]
    /\ os \in SUBSET Modifiers
    /\ key \in 0..(MaxJobs + Cardinality(Modifiers))
    /\ last \in 0..(MaxJobs + Cardinality(Modifiers))
    /\ wanted \in SUBSET Modifiers
    /\ nextId \in 1..(MaxJobs + Cardinality(Modifiers) + 1)
    /\ closing \in {"no", "joining", "releasing", "exited", "killed"}

Init ==
    /\ queue = <<>> /\ worker = "none" /\ lock = "free"
    /\ job = [t \in Threads |-> NoJob]
    /\ unit = [t \in Threads |-> 0]
    /\ step = [t \in Threads |-> "check"]
    /\ pending = [m \in Modifiers |-> "none"]
    /\ os = {} /\ key = 0 /\ last = 0 /\ wanted = {}
    /\ nextId = 1 /\ closing = "no"

Running == closing \notin {"exited", "killed"}

\* SerialInjector.busy
Busy == worker # "none"

-----------------------------------------------------------------------------
(* The UI thread hands bursts in.                                          *)

\* The UI thread is inside an inline delivery, or free to call again.
UIFree == Running /\ job["ui"] = NoJob

\* May inject deliver j before returning?
Inline(j) == ~Busy /\ (j.kind # "text" \/ j.units <= InlineUnits)

EnqueueInFront(j) ==
    /\ queue' = <<j>> \o queue
    /\ worker' = IF Busy THEN worker ELSE "started"

\* The queued half of inject: append, and start a worker if there is none.
Enqueue(j) ==
    /\ queue' = Append(queue, j)
    /\ worker' = IF Busy THEN worker ELSE "started"

\* inject
Inject(j) ==
    /\ nextId' = nextId + 1
    /\ IF Inline(j)
       THEN job' = [job EXCEPT !["ui"] = j] /\ UNCHANGED <<queue, worker>>
       ELSE Enqueue(j) /\ UNCHANGED job

OsStateNow(m) == m \in os

\* _os_key_down: while a worker lives, a queued hold or release is predicted.
OsKeyDown(m) ==
    IF Busy /\ pending[m] # "none" THEN pending[m] = "down" ELSE m \in os

\* send_text and replace_text: build the events, hand them in as text.
SendText(n) ==
    /\ UIFree /\ closing = "no" /\ nextId <= MaxJobs
    /\ pending' = IF Busy THEN pending ELSE [m \in Modifiers |-> "none"]
    /\ Inject([id |-> nextId, kind |-> "text", m |-> CHOOSE m \in Modifiers : TRUE,
               units |-> n, built |-> {m \in Modifiers : OsKeyDown(m)},
               cancelled |-> FALSE])
    /\ UNCHANGED <<lock, unit, step, os, key, last, wanted, closing>>

\* hold_modifier and release_modifier: note the prediction, hand in the event.
Switch(kind, m) ==
    /\ pending' = [pending EXCEPT ![m] = IF kind = "hold" THEN "down" ELSE "up"]
    /\ wanted' = IF kind = "hold" THEN wanted \cup {m} ELSE wanted \ {m}
    /\ Inject([id |-> nextId, kind |-> kind, m |-> m, units |-> 1, built |-> {},
               cancelled |-> FALSE])
    /\ UNCHANGED <<lock, unit, step, os, key, last>>

\* A sticky toggle of the bridge.
Toggle(m) ==
    /\ UIFree /\ closing = "no" /\ nextId <= MaxJobs
    /\ Switch(IF m \in wanted THEN "release" ELSE "hold", m)
    /\ UNCHANGED closing

\* What cancel leaves of the queue.
Uncancellable(q) ==
    LET kept[i \in 0..Len(q)] ==
            IF i = 0 THEN <<>>
            ELSE IF q[i].kind = "text" THEN kept[i - 1]
            ELSE Append(kept[i - 1], q[i])
    IN kept[Len(q)]

\* The running burst is only marked; the worker looks at its next unit.
MarkCurrent ==
    job' = IF job["worker"].kind = "text"
           THEN [job EXCEPT !["worker"].cancelled = TRUE] ELSE job

\* cancel
CancelPending ==
    /\ queue' = Uncancellable(queue)
    /\ MarkCurrent

\* cancel_pending: the user clicked elsewhere or switched windows.
Cancel ==
    /\ UIFree /\ closing = "no"
    /\ CancelPending
    /\ UNCHANGED <<worker, lock, unit, step, pending, os, key, last, wanted, nextId, closing>>

-----------------------------------------------------------------------------
(* Either thread delivers the burst it has, group by group.                *)

AcquireInline ==
    /\ Running /\ job["ui"] # NoJob /\ lock = "free"
    /\ lock' = "ui"
    /\ UNCHANGED <<queue, worker, job, unit, step, pending, os, key, last, wanted,
                   nextId, closing>>

\* _drain takes the lock before it looks at the queue.
StartDraining ==
    /\ Running /\ worker = "started" /\ lock = "free"
    /\ worker' = "draining" /\ lock' = "worker"
    /\ UNCHANGED <<queue, job, unit, step, pending, os, key, last, wanted, nextId,
                   closing>>

PopJob ==
    /\ Running /\ worker = "draining" /\ job["worker"] = NoJob /\ queue # <<>>
    /\ job' = [job EXCEPT !["worker"] = Head(queue)]
    /\ queue' = Tail(queue)
    /\ UNCHANGED <<worker, lock, unit, step, pending, os, key, last, wanted, nextId,
                   closing>>

StopDrainingKeepsHandle ==
    /\ Running /\ worker = "draining" /\ job["worker"] = NoJob /\ queue = <<>>
    /\ lock' = "old"
    /\ UNCHANGED <<worker, queue, job, unit, step, pending, os, key, last, wanted, nextId,
                   closing>>

\* The handle goes in the same critical section that found the queue empty.
StopDraining ==
    /\ Running /\ worker = "draining" /\ job["worker"] = NoJob /\ queue = <<>>
    /\ worker' = "none" /\ lock' = "old"
    /\ UNCHANGED <<queue, job, unit, step, pending, os, key, last, wanted, nextId,
                   closing>>

ReleaseOldLock ==
    /\ Running /\ lock = "old"
    /\ lock' = "free"
    /\ UNCHANGED <<queue, worker, job, unit, step, pending, os, key, last, wanted,
                   nextId, closing>>

Delivering(t) == Running /\ lock = t /\ job[t] # NoJob

\* The top of _deliver's loop over units.
More(t) == unit[t] < job[t].units /\ ~job[t].cancelled

BeginUnit(t) ==
    /\ Delivering(t) /\ step[t] = "check" /\ More(t)
    /\ step' = [step EXCEPT ![t] = "down"]
    /\ UNCHANGED <<queue, worker, lock, job, unit, pending, os, key, last, wanted,
                   nextId, closing>>

FinishJob(t) ==
    /\ Delivering(t) /\ step[t] = "check" /\ ~More(t)
    /\ job' = [job EXCEPT ![t] = NoJob]
    /\ unit' = [unit EXCEPT ![t] = 0]
    /\ lock' = IF t = "ui" THEN "free" ELSE lock
    /\ UNCHANGED <<queue, worker, step, pending, os, key, last, wanted, nextId, 
                   closing>>

\* The only group of a hold or release.
SendSwitch(t) ==
    /\ Delivering(t) /\ step[t] = "down" /\ job[t].kind # "text"
    /\ os' = IF job[t].kind = "hold" THEN os \cup {job[t].m} ELSE os \ {job[t].m}
    /\ unit' = [unit EXCEPT ![t] = @ + 1]
    /\ last' = job[t].id
    /\ step' = [step EXCEPT ![t] = "check"]
    /\ UNCHANGED <<queue, worker, lock, job, pending, key, wanted, nextId, 
                   closing>>

SendKeyDown(t) ==
    /\ Delivering(t) /\ step[t] = "down" /\ job[t].kind = "text"
    /\ key' = job[t].id
    /\ step' = [step EXCEPT ![t] = "up"]
    /\ UNCHANGED <<queue, worker, lock, job, unit, pending, os, last, wanted, nextId,
                   closing>>

SplitByCancel(t) ==
    /\ Delivering(t) /\ step[t] = "up"
    /\ key' = IF job[t].cancelled THEN key ELSE 0
    /\ unit' = [unit EXCEPT ![t] = @ + 1]
    /\ last' = job[t].id
    /\ step' = [step EXCEPT ![t] = "check"]
    /\ UNCHANGED <<queue, worker, lock, job, pending, os, wanted, nextId, 
                   closing>>

\* The key-up follows its key-down whatever happened in between.
SendKeyUp(t) ==
    /\ Delivering(t) /\ step[t] = "up"
    /\ key' = 0
    /\ unit' = [unit EXCEPT ![t] = @ + 1]
    /\ last' = job[t].id
    /\ step' = [step EXCEPT ![t] = "check"]
    /\ UNCHANGED <<queue, worker, lock, job, pending, os, wanted, nextId, 
                   closing>>

-----------------------------------------------------------------------------
(* The bridge's shutdown.                                                  *)

\* SerialInjector.shutdown: cancel, then settle.
BeginShutdown ==
    /\ UIFree /\ closing = "no"
    /\ CancelPending
    /\ closing' = "joining"
    /\ UNCHANGED <<worker, lock, unit, step, pending, os, key, last, wanted, nextId>>

Joined ==
    /\ closing = "joining" /\ worker = "none"
    /\ closing' = "releasing"
    /\ UNCHANGED <<queue, worker, lock, job, unit, step, pending, os, key, last, wanted,
                   nextId>>

\* The wait ran out: the bridge carries on and the daemon thread dies with
\* the process, wherever it is.
JoinTimesOut ==
    /\ Timeouts /\ closing = "joining" /\ worker # "none"
    /\ closing' = "killed"
    /\ UNCHANGED <<queue, worker, lock, job, unit, step, pending, os, key, last, wanted,
                   nextId>>

\* KeyboardBridge.shutdown releases what is still active, in turn.
ReleaseActive(m) ==
    /\ UIFree /\ closing = "releasing" /\ m \in wanted
    /\ Switch("release", m)
    /\ UNCHANGED closing

Exit ==
    /\ UIFree /\ closing = "releasing" /\ wanted = {}
    /\ closing' = "exited"
    /\ UNCHANGED <<queue, worker, lock, job, unit, step, pending, os, key, last, wanted,
                   nextId>>

-----------------------------------------------------------------------------

Worker == StartDraining \/ PopJob \/ StopDraining \/ ReleaseOldLock

Deliver(t) ==
    BeginUnit(t) \/ FinishJob(t) \/ SendSwitch(t) \/ SendKeyDown(t) \/ SendKeyUp(t)

Closing ==
    \/ Joined \/ Exit
    \/ \E m \in Modifiers : ReleaseActive(m)

Next ==
    \/ \E n \in 1..MaxUnits : SendText(n)
    \/ \E m \in Modifiers : Toggle(m)
    \/ Cancel
    \/ AcquireInline
    \/ Worker
    \/ \E t \in Threads : Deliver(t)
    \/ BeginShutdown \/ JoinTimesOut
    \/ Closing

\* Both threads keep running; the user need not do anything.
Fairness ==
    /\ WF_vars(AcquireInline)
    /\ WF_vars(Worker)
    /\ \A t \in Threads : WF_vars(Deliver(t))
    /\ WF_vars(Closing)

Spec == Init /\ [][Next]_vars /\ Fairness

-----------------------------------------------------------------------------
(* Properties.                                                             *)

\* Nothing left to deliver and nobody delivering.
Quiet == worker = "none" /\ job["ui"] = NoJob

\* A burst cut short by a cancel, or by shutdown, never leaves a key down.
NoKeyLeftDown == Quiet /\ Running => key = 0

\* The modifiers a text burst was built for are the ones down when it is
\* sent, however long it waited in the queue, so its Shift wraps are right.
BuiltForWhatIsDown ==
    \A t \in Threads :
        Delivering(t) /\ job[t].kind = "text" /\ step[t] # "check" => job[t].built = os

\* Whatever is queued is delivered, and the worker goes away again.
Drains == Busy ~> ~Busy \/ ~Running

\* The units a thread still owes: a cancelled burst only the one it is in.
Owed(t) ==
    IF job[t] = NoJob THEN 0
    ELSE IF ~job[t].cancelled THEN job[t].units - unit[t]
    ELSE IF step[t] = "check" THEN 0 ELSE 1

UnitsOf(j, n) == [i \in 1..n |-> [burst |-> j.id, text |-> (j.kind = "text")]]

OwedBy(t) == IF job[t] = NoJob THEN <<>> ELSE UnitsOf(job[t], Owed(t))

Flat(q) == FlattenSeq([i \in DOMAIN q |-> UnitsOf(q[i], q[i].units)])

\* What both threads and the queue still owe.
Backlog == OwedBy("ui") \o OwedBy("worker") \o Flat(queue)

\* The injector, threads, lock and all, implements one queue of units.
Abstract == INSTANCE TypingQueue WITH
    Bursts <- 1..(MaxJobs + Cardinality(Modifiers)),
    Lengths <- 1..MaxUnits,
    backlog <- Backlog,
    last <- last

ImplementsTypingQueue == Abstract!Spec

=============================================================================
