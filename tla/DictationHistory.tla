-------------------------- MODULE DictationHistory --------------------------
(***************************************************************************)
(* The last dictation runs, kept so that a lost sentence can be recovered  *)
(* (dictation/history.py and the slots of keyboard_bridge.py that reach    *)
(* it): a list of entries in memory, newest first, an index file that      *)
(* holds the same list, and one recording per entry that has audio.        *)
(*                                                                         *)
(* Memory changes at once; the disk follows in order, one file at a time   *)
(* (`todo`), and the process may die before any of them.  The UI thread    *)
(* runs a call to its end, so no other call comes in between.  Sizes are   *)
(* counted in units: an entry's text in the index, its recording beside.   *)
(***************************************************************************)
EXTENDS Naturals, Sequences, SequencesExt, FiniteSetsExt

CONSTANTS MaxRuns,    \* bound: runs recorded
          MaxEntries, \* entries the list may hold
          IndexCap,   \* largest index file the loader accepts
          Budgets,    \* limits the user may set; 0 means none
          MaxText,    \* largest text of one entry
          MaxMisses   \* bound: failed reads and writes

Ids == 1..MaxRuns
Entries == [id: Ids, text: 1..MaxText, audio: 0..1]

ASSUME DictationHistoryConstants ==
    /\ MaxRuns \in Nat /\ MaxEntries \in Nat \ {0} /\ MaxMisses \in Nat
    /\ MaxText \in Nat \ {0} /\ IndexCap \in Nat /\ MaxText <= IndexCap
    /\ Budgets \subseteq Nat

VARIABLES
    loaded,   \* "no" until the first call, then "clean", or "rejected" index
    entries,  \* the list in memory
    index,    \* the list in the index file
    wavs,     \* recordings on disk
    limit,    \* the budget in force
    todo,     \* disk work of the call in progress
    report,   \* what that call will answer
    recorded, \* runs recorded so far, and the newest id
    asked,    \* the run a cleanup request is out for, or 0
    held,     \* the recording the player has open, or 0
    misses,   \* failures met so far
    kept,     \* runs reported kept and not evicted, deleted or cleared since
    gone,     \* runs whose deletion reached the index
    stuck     \* recordings whose removal failed

historyVars == <<loaded, entries, index, wavs, limit, todo, report, recorded,
                 asked, held, misses, kept, gone, stuck>>

IdsOf(es) == {es[k].id : k \in DOMAIN es}
IndexSize(es) == FoldSeq(LAMBDA e, n : e.text + n, 0, es)
Usage(es) == FoldSeq(LAMBDA e, n : e.text + e.audio + n, 0, es)
NoReport == [call |-> "none", ids |-> {}]

HistoryTypeOK ==
    /\ loaded \in {"no", "clean", "rejected"}
    /\ entries \in Seq(Entries) /\ index \in Seq(Entries)
    /\ wavs \subseteq Ids /\ limit \in Budgets
    /\ recorded \in 0..MaxRuns /\ asked \in 0..MaxRuns /\ held \in 0..MaxRuns
    /\ kept \subseteq Ids /\ gone \subseteq Ids /\ stuck \subseteq Ids

HistoryInit ==
    /\ loaded = "no" /\ entries = <<>> /\ index = <<>> /\ wavs = {}
    /\ limit \in Budgets /\ todo = <<>> /\ report = NoReport
    /\ recorded = 0 /\ asked = 0 /\ held = 0 /\ misses = 0
    /\ kept = {} /\ gone = {} /\ stuck = {}

FaultFree == UNCHANGED misses
Fault == misses < MaxMisses /\ misses' = misses + 1
Ready == loaded # "no" /\ todo = <<>>

Write(id) == [op |-> "write", id |-> id]
Unlink(id) == [op |-> "unlink", id |-> id]
Index == [op |-> "index", id |-> 0]
Unlinks(es) == [k \in 1..Len(es) |-> Unlink(es[Len(es) + 1 - k].id)]

\* Recordings on disk that no entry owns are removed.
Orphans(es) == wavs \ IdsOf(es)

-----------------------------------------------------------------------------
\* The first call reads the index.  One that is too large or cannot be read
\* gives an empty list, and says nothing of which recordings are owned.
Load ==
    /\ loaded = "no"
    /\ \/ /\ IndexSize(index) <= IndexCap
          /\ loaded' = "clean" /\ entries' = index
          /\ wavs' = wavs \ Orphans(index)
          /\ stuck' = {} /\ UNCHANGED kept
          /\ FaultFree
       \/ /\ \/ IndexSize(index) > IndexCap /\ FaultFree
             \/ Fault
          /\ loaded' = "rejected" /\ entries' = <<>>
          /\ kept' = {}
          /\ UNCHANGED <<wavs, stuck>>
    /\ UNCHANGED <<index, limit, todo, report, recorded, asked, held, gone>>

\* The longest run of newest entries within the count, the budget and the
\* index's own cap; the newest entry is never dropped for its size.
Fits(es, k) ==
    /\ k <= MaxEntries
    /\ k > 1 => /\ limit' = 0 \/ Usage(SubSeq(es, 1, k)) <= limit'
                /\ IndexSize(SubSeq(es, 1, k)) <= IndexCap
Pruned(es) == SubSeq(es, 1, Max({k \in 0..Len(es) : k = 0 \/ Fits(es, k)}))
Dropped(es) == SubSeq(es, Len(Pruned(es)) + 1, Len(es))

\* (Slip) The index is saved before the recording is written.
AddIndexFirst(text, pcm, audio) ==
    /\ Ready /\ recorded < MaxRuns
    /\ audio <= pcm
    /\ IF audio = pcm THEN FaultFree ELSE Fault
    /\ LET id == recorded + 1
           listed == <<[id |-> id, text |-> text, audio |-> audio]>> \o entries
       IN /\ recorded' = id
          /\ UNCHANGED limit
          /\ entries' = Pruned(listed)
          /\ todo' = Unlinks(Dropped(listed)) \o <<Index>>
                        \o (IF audio = 1 THEN <<Write(id)>> ELSE <<>>)
          /\ report' = [call |-> "add", ids |-> {id}]
          /\ kept' = kept \ IdsOf(Dropped(listed))
    /\ UNCHANGED <<loaded, index, wavs, asked, held, gone, stuck>>

\* A finished run is recorded: its audio first (a failure leaves the entry
\* without), the entry at the front, the overflow dropped with its
\* recordings, the index last.  The budget is taken from the settings.
Add(text, pcm, audio) ==
    /\ Ready /\ recorded < MaxRuns
    /\ audio <= pcm
    /\ IF audio = pcm THEN FaultFree ELSE Fault
    /\ LET id == recorded + 1
           listed == <<[id |-> id, text |-> text, audio |-> audio]>> \o entries
       IN /\ recorded' = id
          /\ UNCHANGED limit
          /\ entries' = Pruned(listed)
          /\ todo' = (IF audio = 1 THEN <<Write(id)>> ELSE <<>>)
                        \o Unlinks(Dropped(listed)) \o <<Index>>
          /\ report' = [call |-> "add", ids |-> {id}]
          /\ kept' = kept \ IdsOf(Dropped(listed))
    /\ UNCHANGED <<loaded, index, wavs, asked, held, gone, stuck>>

\* A new budget prunes to it at once.
SetLimit(l) ==
    /\ Ready /\ l # limit
    /\ limit' = l
    /\ entries' = Pruned(entries)
    /\ todo' = Unlinks(Dropped(entries)) \o <<Index>>
    /\ report' = NoReport
    /\ kept' = kept \ IdsOf(Dropped(entries))
    /\ UNCHANGED <<loaded, index, wavs, recorded, asked, held, misses, gone, stuck>>

\* The user deletes a run: playback of it stops, the recording goes, then
\* the entry.
Delete(id) ==
    /\ Ready /\ id \in IdsOf(entries)
    /\ \E released \in {held} \cup (IF held = id THEN {0} ELSE {}) : held' = released
    /\ entries' = RemoveAt(entries, CHOOSE k \in DOMAIN entries : entries[k].id = id)
    /\ todo' = <<Unlink(id), Index>>
    /\ report' = [call |-> "delete", ids |-> {id}]
    /\ kept' = kept \ {id}
    /\ UNCHANGED <<loaded, index, wavs, limit, recorded, asked, misses, gone, stuck>>

\* The user clears the history: every entry's recording goes, then every
\* recording nothing owns, then the entries.
Clear ==
    /\ Ready
    /\ held' \in {held, 0}
    /\ entries' = <<>>
    /\ todo' = Unlinks(entries)
                 \o SetToSeq({Unlink(id) : id \in Orphans(entries)}) \o <<Index>>
    /\ report' = [call |-> "delete", ids |-> IdsOf(entries)]
    /\ kept' = {}
    /\ UNCHANGED <<loaded, index, wavs, limit, recorded, asked, misses, gone, stuck>>

\* The user asks for a run to be cleaned up again; one request at a time.
Reprocess(id) ==
    /\ Ready /\ asked = 0 /\ id \in IdsOf(entries)
    /\ asked' = id
    /\ UNCHANGED <<loaded, entries, index, wavs, limit, todo, report, recorded,
                   held, misses, kept, gone, stuck>>

\* Its answer arrives, any number of calls later; a run that is gone by then
\* takes nothing.  The entry's text is replaced and the index saved.
Answered(text) ==
    /\ Ready /\ asked # 0
    /\ asked' = 0
    /\ entries' = [k \in DOMAIN entries |->
                     IF entries[k].id = asked THEN [entries[k] EXCEPT !.text = text]
                                              ELSE entries[k]]
    /\ todo' = IF asked \in IdsOf(entries) THEN <<Index>> ELSE <<>>
    /\ report' = NoReport
    /\ UNCHANGED <<loaded, index, wavs, limit, recorded, held, misses, kept, gone, stuck>>

\* The request fails or is aborted: the entry stays as it is.
Unanswered ==
    /\ asked # 0 /\ todo = <<>>
    /\ asked' = 0
    /\ UNCHANGED <<loaded, entries, index, wavs, limit, todo, report, recorded,
                   held, misses, kept, gone, stuck>>

\* A recording is played, in place of any other, and stops.
Play(id) ==
    /\ Ready /\ id \in IdsOf(entries) \cap wavs
    /\ held' = id
    /\ UNCHANGED <<loaded, entries, index, wavs, limit, todo, report, recorded,
                   asked, misses, kept, gone, stuck>>
Stop ==
    /\ held # 0 /\ todo = <<>>
    /\ held' = 0
    /\ UNCHANGED <<loaded, entries, index, wavs, limit, todo, report, recorded,
                   asked, misses, kept, gone, stuck>>

-----------------------------------------------------------------------------
(* The disk, one file at a time.                                           *)

\* A recording is written beside and renamed into place.
WriteWav ==
    /\ todo # <<>> /\ Head(todo).op = "write"
    /\ wavs' = wavs \cup {Head(todo).id}
    /\ todo' = Tail(todo)
    /\ UNCHANGED <<loaded, entries, index, limit, report, recorded, asked, held,
                   misses, kept, gone, stuck>>

\* A recording the player holds open may refuse to go; that is logged.
UnlinkWav ==
    /\ todo # <<>> /\ Head(todo).op = "unlink"
    /\ \/ wavs' = wavs \ {Head(todo).id} /\ UNCHANGED stuck
       \/ /\ Head(todo).id = held /\ UNCHANGED wavs
          /\ stuck' = stuck \cup {held}
    /\ todo' = Tail(todo)
    /\ UNCHANGED <<loaded, entries, index, limit, report, recorded, asked, held,
                   misses, kept, gone>>

\* The index is replaced whole, or the failure is logged and the call
\* answers that nothing was kept or deleted.
SaveIndex ==
    /\ todo # <<>> /\ Head(todo).op = "index"
    /\ \/ /\ index' = entries /\ FaultFree
          /\ kept' = IF report.call = "add" THEN kept \cup report.ids ELSE kept
          /\ gone' = IF report.call = "delete" THEN gone \cup report.ids ELSE gone
       \/ Fault /\ UNCHANGED <<index, kept, gone>>
    /\ todo' = Tail(todo)
    /\ report' = NoReport
    /\ UNCHANGED <<loaded, entries, wavs, limit, recorded, asked, held, stuck>>

\* The process dies between any two files; the next one starts afresh.
HistoryCrash ==
    /\ loaded # "no"
    /\ loaded' = "no" /\ entries' = <<>> /\ todo' = <<>> /\ report' = NoReport
    /\ asked' = 0 /\ held' = 0
    /\ UNCHANGED <<index, wavs, limit, recorded, misses, kept, gone, stuck>>

HistoryNext ==
    \/ Load \/ HistoryCrash
    \/ \E text \in 1..MaxText, pcm, audio \in 0..1 : Add(text, pcm, audio)
    \/ \E l \in Budgets : SetLimit(l)
    \/ \E id \in Ids : Delete(id) \/ Reprocess(id) \/ Play(id)
    \/ Clear \/ Stop \/ Unanswered
    \/ \E text \in 1..MaxText : Answered(text)
    \/ WriteWav \/ UnlinkWav \/ SaveIndex

-----------------------------------------------------------------------------
(* Properties.                                                             *)

\* A run reported kept stays until the user or the budget takes it: it is in
\* the index file at every moment, the middle of any call and any crash
\* included, in the list whenever there is one, and its recording with it.
\* (A rejected index is the one thing that loses it.)
ReportedKeptIsKept ==
    /\ kept \subseteq IdsOf(index)
    /\ loaded = "clean" => kept \subseteq IdsOf(entries)
    /\ \A k \in DOMAIN index : (index[k].id \in kept /\ index[k].audio = 1)
                                  => index[k].id \in wavs

\* A deletion that was reported stays: no restart, failed save, late cleanup
\* answer or sweep brings the text back, and the recording is gone unless
\* its removal failed, in which case the next clean load removes it.
ReportedDeletedIsGone ==
    /\ gone \cap (IdsOf(index) \cup IdsOf(entries)) = {}
    /\ gone \cap wavs \subseteq stuck

\* What the history reported, kept or deleted, is still so: after every crash
\* between the recording and the index, failed save, rejected index, change of
\* budget and late cleanup answer.
HistoryAsReported == ReportedKeptIsKept /\ ReportedDeletedIsGone
=============================================================================
