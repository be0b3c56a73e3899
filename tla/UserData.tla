------------------------------ MODULE UserData ------------------------------
(***************************************************************************)
(* Where the keyboard keeps what it learned: the prediction engine's two   *)
(* files and the vocabulary packs; how they are loaded, saved, cleared,    *)
(* exported and replaced by an import, and what a crash between any two    *)
(* writes leaves on disk (data_export.py, hybrid_predictor.py,             *)
(* vocabulary_pack.py, atomic_write.py).                                   *)
(*                                                                         *)
(* A file is the set of words (or packs) it holds; a count is abstracted   *)
(* to its being positive.  The statistics and the snippets are replaced    *)
(* after the two model files and before the packs; what they hold decides  *)
(* nothing here.  Every write is a temporary file and                      *)
(* a rename, so it happens whole or not at all; a failed one spends one of *)
(* MaxFaults.  The UI thread runs every action, and an import holds it     *)
(* from the first file to the reload: only a crash comes in between.       *)
(***************************************************************************)
EXTENDS Naturals, Sequences, FiniteSets

CONSTANTS Words,      \* what a model may have learned
          Own,        \* those the person at this keyboard types and teaches
          Packs,      \* ids of importable vocabulary packs
          Foreign,    \* archives made on another machine
          MaxArchives,\* bound: different archives made on this machine
          MaxImports, \* bound: imports begun
          MaxFaults   \* bound: failed reads, writes and copies

ModelFiles == {"ngram", "ppm"}
InModel(m) == m.learned \cup m.caps \cup m.ppm \cup m.injected

\* What a config directory or an archive holds; the fields of a file that is
\* not in `has` are empty.
Snapshots == [has: SUBSET ModelFiles, learned: SUBSET Words, caps: SUBSET Words,
              injected: SUBSET Packs, ppm: SUBSET Words, packs: SUBSET Packs]

\* What the running process holds, and an import under way.
Memories == [learned: SUBSET Words, caps: SUBSET Words, injected: SUBSET Packs,
             ppm: SUBSET Words, known: SUBSET Packs]
Imports == [stage: {"files", "reload"}, todo: Seq(ModelFiles), src: Snapshots]

ASSUME UserDataConstants ==
    /\ MaxArchives \in Nat /\ MaxImports \in Nat /\ MaxFaults \in Nat
    /\ Own \subseteq Words /\ Words \cap Packs = {}
    /\ Foreign \subseteq Snapshots

VARIABLES
    app,      \* "down", "loading" (the stand-in engine) or "ready"
    disk,     \* the config directory
    mem,      \* the running process's copy
    enabled,  \* packs switched on; kept nowhere on disk
    archives, \* archives written on this machine: exports and rescues
    imp,      \* the import holding the UI thread
    faults,   \* failures met so far
    imports,  \* imports begun so far
    sentence, \* words of the bridge's _sentence_buffer
    earned,   \* words saved and packs imported that nothing has released
    cleared   \* what a clear that was saved took out and nobody has put back

vars == <<app, disk, mem, enabled, archives, imp, faults, imports, sentence,
          earned, cleared>>
diskAndGhosts == <<disk, archives, earned, cleared>>

Idle == [stage |-> "idle", todo |-> <<>>, src |-> "none"]
Up == app # "down"
Free == Up /\ imp.stage = "idle"

TypeOK ==
    /\ app \in {"down", "loading", "ready"}
    /\ disk \in Snapshots /\ mem \in Memories /\ enabled \subseteq Packs
    /\ archives \subseteq Snapshots
    /\ imp = Idle \/ imp \in Imports
    /\ faults \in 0..MaxFaults /\ imports \in 0..MaxImports
    /\ sentence \subseteq Words /\ earned \cup cleared \subseteq Words \cup Packs

EmptyMemory == [learned |-> {}, caps |-> {}, injected |-> {}, ppm |-> {}, known |-> {}]
EmptyDisk == [has |-> {}, learned |-> {}, caps |-> {}, injected |-> {}, ppm |-> {},
              packs |-> {}]

Init == /\ app = "down" /\ disk = EmptyDisk /\ mem = EmptyMemory
        /\ enabled = {} /\ archives = {} /\ imp = Idle
        /\ faults = 0 /\ imports = 0
        /\ sentence = {} /\ earned = {} /\ cleared = {}

CanFail == faults < MaxFaults
Failing == CanFail /\ faults' = faults + 1

-----------------------------------------------------------------------------
(* Starting and stopping.                                                  *)

\* The process starts with the stand-in; the engine comes later.
Launch ==
    /\ app = "down"
    /\ app' = "loading"
    /\ UNCHANGED <<diskAndGhosts, mem, enabled, imp, faults, imports, sentence>>

\* The worker hands over the engine, built from the model files that exist
\* and the packs found in the directory.
EngineReady ==
    /\ app = "loading"
    /\ app' = "ready"
    /\ mem' = [mem EXCEPT !.learned = disk.learned, !.caps = disk.caps,
                          !.injected = disk.injected, !.ppm = disk.ppm,
                          !.known = disk.packs]
    /\ UNCHANGED <<disk, enabled, archives, imp, faults, imports, sentence,
                   earned, cleared>>

\* A model file that cannot be read is logged and treated as absent: the
\* next save replaces it, so nothing is promised of what it held.
EngineReadyUnread ==
    /\ app = "loading" /\ "ngram" \in disk.has /\ Failing
    /\ app' = "ready"
    /\ mem' = [mem EXCEPT !.ppm = disk.ppm, !.known = disk.packs]
    /\ earned' = earned \ Words
    /\ UNCHANGED <<disk, enabled, archives, imp, imports, cleared, sentence>>

\* The process dies: whatever was only in memory is gone.
Crash ==
    /\ Up
    /\ app' = "down" /\ mem' = EmptyMemory /\ enabled' = {}
    /\ imp' = Idle /\ sentence' = {}
    /\ UNCHANGED <<diskAndGhosts, faults, imports>>

-----------------------------------------------------------------------------
(* Learning and forgetting.                                                *)

\* The engine counts every word of the text, and every so many texts scales its
\* counts down: those that reach zero are dropped, the PPM forgets nothing.
\* The stand-in learns nothing.
Learn(text, faded) ==
    IF app = "ready"
      THEN /\ mem' = [mem EXCEPT !.learned = (@ \cup text) \ faded, !.ppm = @ \cup text]
           /\ earned' = earned \ faded
      ELSE UNCHANGED <<mem, earned>>

\* Decay takes any of the words counted.
Fading(text) == SUBSET (mem.learned \cup text)

\* A space completes a word, and the running sentence is learned whole again.
TypeWord(w) ==
    /\ Free
    /\ sentence' = sentence \cup {w}
    /\ \E faded \in Fading(sentence') : Learn(sentence', faded)
    /\ cleared' = cleared \ {w}
    /\ UNCHANGED <<app, disk, enabled, archives, imp, faults, imports>>

\* A comma, a dictated phrase, or learning frozen for a study: the word joins the
\* sentence, to be learned with it later.
JoinSentence(w) ==
    /\ Free
    /\ sentence' = sentence \cup {w}
    /\ cleared' = cleared \ {w}
    /\ UNCHANGED <<app, disk, mem, enabled, archives, imp, faults, imports, earned>>

\* A full stop or Return learns the sentence, a word under way with it.
EndSentence(last) ==
    /\ Free /\ sentence \cup last # {}
    /\ \E faded \in Fading(sentence \cup last) : Learn(sentence \cup last, faded)
    /\ sentence' = {}
    /\ cleared' = cleared \ last
    /\ UNCHANGED <<app, disk, enabled, archives, imp, faults, imports>>

\* Focus, the caret or privacy moves: the sentence is given up unlearned.
DropSentence ==
    /\ Free
    /\ sentence' = {}
    /\ UNCHANGED <<app, diskAndGhosts, mem, enabled, imp, faults, imports>>

\* A pill is picked, or a suggestion marked good.
BoostWord(w) ==
    /\ Free /\ app = "ready"
    /\ mem' = [mem EXCEPT !.learned = @ \cup {w}]
    /\ cleared' = cleared \ {w}
    /\ UNCHANGED <<app, disk, enabled, archives, imp, faults, imports, sentence, earned>>

TeachCapital(w) ==
    /\ Free /\ app = "ready"
    /\ mem' = [mem EXCEPT !.caps = @ \cup {w}]
    /\ cleared' = cleared \ {w}
    /\ UNCHANGED <<app, disk, enabled, archives, imp, faults, imports, sentence, earned>>

\* The last count of a word goes: the code's own forgetting, which the next save
\* makes final.
Forget(w) ==
    /\ Free /\ app = "ready"
    /\ mem' = [mem EXCEPT !.learned = @ \ {w}]
    /\ earned' = earned \ {w}
    /\ UNCHANGED <<app, disk, enabled, archives, imp, faults, imports, sentence, cleared>>

\* Backspace into a committed word takes back one sighting ...
UnlearnWord(w) == w \in Own /\ Forget(w)

\* ... and the dashboard takes back a boost, imported ones too.
Unprefer(w) == Forget(w)

-----------------------------------------------------------------------------
(* Vocabulary packs.                                                       *)

\* Switching a pack on merges its words into the n-gram tables ...
EnablePack(p) ==
    /\ Free /\ app = "ready" /\ p \in mem.known
    /\ enabled' = enabled \cup {p}
    /\ mem' = [mem EXCEPT !.injected = @ \cup enabled \cup ({p} \cap disk.packs)]
    /\ cleared' = cleared \ (enabled \cup {p})
    /\ UNCHANGED <<app, disk, archives, imp, faults, imports, earned, sentence>>

\* ... and switching it off empties only the pack's own copy.
DisablePack(p) ==
    /\ Free /\ p \in enabled
    /\ enabled' = enabled \ {p}
    /\ UNCHANGED <<app, diskAndGhosts, mem, imp, faults, imports, sentence>>

\* The folder is copied over whatever was there and registered switched off.
ImportPack(p) ==
    /\ Free /\ app = "ready"
    /\ disk' = [disk EXCEPT !.packs = @ \cup {p}]
    /\ mem' = [mem EXCEPT !.known = @ \cup {p}]
    /\ enabled' = enabled \ {p}
    /\ earned' = earned \cup {p}
    /\ UNCHANGED <<app, archives, imp, faults, imports, cleared, sentence>>

\* The old copy is removed and the new one fails before or after its word
\* list: an older registration stays, with whatever it had loaded.
ImportPackTorn(p) ==
    /\ Free /\ app = "ready" /\ Failing
    /\ disk' \in {[disk EXCEPT !.packs = @ \ {p}], [disk EXCEPT !.packs = @ \cup {p}]}
    /\ earned' = earned \ {p}
    /\ UNCHANGED <<app, mem, enabled, archives, imp, imports, cleared, sentence>>

-----------------------------------------------------------------------------
(* Saving.                                                                 *)

\* What the directory holds once the n-gram file is written: the merged
\* table goes out whole, packs included; taught capitals with it.
NgramSaved == [disk EXCEPT !.has = @ \cup {"ngram"}, !.learned = mem.learned,
                           !.caps = mem.caps, !.injected = mem.injected]
EngineSaved == [NgramSaved EXCEPT !.has = @ \cup {"ppm"}, !.ppm = mem.ppm]

\* The engine's save, as far as it gets: both files, the first only, or none.
SaveOutcome(d) ==
    \/ d = EngineSaved /\ UNCHANGED faults
    \/ d \in {NgramSaved, disk} /\ Failing

\* Save Now.
Save ==
    /\ Free /\ app = "ready"
    /\ \E d \in {EngineSaved, NgramSaved, disk} : SaveOutcome(d) /\ disk' = d
    /\ earned' = IF disk' = disk THEN earned ELSE earned \cup disk'.learned
    /\ UNCHANGED <<app, mem, enabled, archives, imp, imports, cleared, sentence>>

\* The user quits: the engine is saved when auto-save is on and an engine is
\* there.
Quit(autoSave) ==
    /\ Free
    /\ IF autoSave /\ app = "ready"
         THEN /\ disk' = EngineSaved
              /\ earned' = earned \cup mem.learned
         ELSE UNCHANGED <<disk, earned>>
    /\ app' = "down" /\ mem' = EmptyMemory /\ enabled' = {} /\ sentence' = {}
    /\ UNCHANGED <<archives, imp, faults, imports, cleared>>

\* The running sentence outlives a clear, and the next space learns it again.
Cleanable == (Words \cup Packs) \ sentence

\* (Slip) The PPM file is left for the next save.
ClearNgramOnly ==
    /\ Free /\ app = "ready"
    /\ mem' = [mem EXCEPT !.learned = {}, !.caps = {}, !.injected = {}, !.ppm = {}]
    /\ disk' = [disk EXCEPT !.has = @ \cup {"ngram"}, !.learned = {}, !.caps = {},
                            !.injected = {}]
    /\ cleared' = Cleanable /\ earned' = earned \ Words
    /\ UNCHANGED <<app, enabled, archives, imp, imports, faults, sentence>>

\* Clear Learned Data empties the engine and saves it so that the old files
\* cannot bring the data back; a save that fails is logged, not reported.
ClearUserData ==
    /\ Free /\ app = "ready"
    /\ mem' = [mem EXCEPT !.learned = {}, !.caps = {}, !.injected = {}, !.ppm = {}]
    /\ LET NgramEmptied == [disk EXCEPT !.has = @ \cup {"ngram"}, !.learned = {},
                                        !.caps = {}, !.injected = {}]
           Emptied == [NgramEmptied EXCEPT !.has = @ \cup {"ppm"}, !.ppm = {}]
       IN \/ /\ disk' = Emptied /\ cleared' = Cleanable /\ earned' = earned \ Words
             /\ UNCHANGED faults
          \/ /\ disk' \in {NgramEmptied, disk} /\ Failing
             /\ earned' = earned \ Words /\ UNCHANGED cleared
    /\ UNCHANGED <<app, enabled, archives, imp, imports, sentence>>

-----------------------------------------------------------------------------
(* Export and import.                                                      *)

Archive(d) == archives' = archives \cup {d} /\ Cardinality(archives') <= MaxArchives

\* Export saves the engine first and archives the directory; a failed save
\* ends it there.
Export ==
    /\ Free /\ app = "ready"
    /\ \/ /\ disk' = EngineSaved
          /\ Archive(disk')
          /\ earned' = earned \cup mem.learned
          /\ UNCHANGED faults
       \/ /\ disk' \in {NgramSaved, disk} /\ Failing
          /\ earned' = IF disk' = disk THEN earned ELSE earned \cup disk'.learned
          /\ UNCHANGED archives
    /\ UNCHANGED <<app, mem, enabled, imp, imports, cleared, sentence>>

\* The model files, in the order the import replaces them.
FilesInOrder(src) ==
    (IF "ngram" \in src.has THEN <<"ngram">> ELSE <<>>)
      \o (IF "ppm" \in src.has THEN <<"ppm">> ELSE <<>>)

\* (Slip) The rescue is taken after the files, once there is something to show.
BeginImportUnrescued(src, rescued) ==
    /\ Free /\ app = "ready" /\ imports < MaxImports
    /\ imports' = imports + 1
    /\ IF rescued THEN UNCHANGED <<faults, earned, archives>>
                  ELSE Failing /\ earned' = {} /\ UNCHANGED archives
    /\ imp' = [stage |-> "files", todo |-> FilesInOrder(src), src |-> src]
    /\ UNCHANGED <<app, disk, mem, enabled, cleared, sentence>>

\* The archive is inspected, the directory as it is on disk is archived as a
\* rescue (a failure is logged and passed over), every member is read through.
BeginImport(src, rescued) ==
    /\ Free /\ app = "ready" /\ imports < MaxImports
    /\ imports' = imports + 1
    /\ IF rescued THEN Archive(disk) /\ UNCHANGED <<faults, earned>>
                  ELSE Failing /\ earned' = {} /\ UNCHANGED archives
    /\ imp' = [stage |-> "files", todo |-> FilesInOrder(src), src |-> src]
    /\ UNCHANGED <<app, disk, mem, enabled, cleared, sentence>>

\* A member that will not decompress, or exceeds its cap, is found before
\* anything is replaced.
RefuseImport ==
    /\ imp.stage = "files" /\ imp.todo = FilesInOrder(imp.src) /\ Failing
    /\ imp' = Idle
    /\ UNCHANGED <<app, diskAndGhosts, mem, enabled, imports, sentence>>

\* One model file is extracted beside the old one and renamed over it.
Replaced(f) ==
    CASE f = "ngram" -> [disk EXCEPT !.learned = imp.src.learned, !.caps = imp.src.caps,
                                     !.injected = imp.src.injected]
      [] f = "ppm" -> [disk EXCEPT !.ppm = imp.src.ppm]
ReplaceFile ==
    /\ imp.stage = "files" /\ imp.todo # <<>>
    /\ disk' = [Replaced(Head(imp.todo)) EXCEPT !.has = @ \cup {Head(imp.todo)}]
    /\ imp' = [imp EXCEPT !.todo = Tail(@)]
    /\ cleared' = cleared \ InModel(imp.src)
    /\ UNCHANGED <<app, mem, enabled, archives, faults, imports, earned, sentence>>

\* A file cannot be written: the error is reported, the files already
\* replaced stay, and the running engine is not reloaded.
ImportFails ==
    /\ imp.stage = "files" /\ imp.todo # <<>> /\ Failing
    /\ imp' = Idle
    /\ UNCHANGED <<app, diskAndGhosts, mem, enabled, imports, sentence>>

\* Every pack directory is removed and the archive's packs extracted; a pack
\* file that cannot be written is skipped.
ReplacePacks(packs) ==
    /\ imp.stage = "files" /\ imp.todo = <<>>
    /\ packs \subseteq imp.src.packs
    /\ IF packs = imp.src.packs THEN UNCHANGED faults ELSE Failing
    /\ disk' = [disk EXCEPT !.packs = packs]
    /\ imp' = [imp EXCEPT !.stage = "reload"]
    /\ UNCHANGED <<app, mem, enabled, archives, imports, earned, cleared, sentence>>

\* The running process re-reads the directory and forgets what was being
\* typed.  The n-gram tables are
\* replaced, the taught capitals merged into those in memory; the packs are
\* discovered afresh, all of them off.
Reload ==
    /\ imp.stage = "reload"
    /\ mem' = [mem EXCEPT
                 !.learned = IF "ngram" \in disk.has THEN disk.learned ELSE @,
                 !.caps = IF "ngram" \in disk.has THEN @ \cup disk.caps ELSE @,
                 !.injected = IF "ngram" \in disk.has THEN disk.injected ELSE @,
                 !.ppm = IF "ppm" \in disk.has THEN disk.ppm ELSE @,
                 !.known = disk.packs]
    /\ enabled' = {}
    /\ imp' = Idle /\ sentence' = {}
    /\ UNCHANGED <<app, disk, archives, faults, imports, earned, cleared>>

-----------------------------------------------------------------------------
TypingNext ==
    \/ \E w \in Own : TypeWord(w) \/ JoinSentence(w) \/ BoostWord(w)
    \/ \E last \in {{}} \cup {{w} : w \in Own} : EndSentence(last)
    \/ DropSentence \/ \E w \in Words : UnlearnWord(w) \/ Unprefer(w)

KeepingNext ==
    \/ Launch \/ EngineReady \/ EngineReadyUnread \/ Crash
    \/ \E w \in Own : TeachCapital(w)
    \/ \E p \in Packs : EnablePack(p) \/ DisablePack(p) \/ ImportPack(p) \/ ImportPackTorn(p)
    \/ Save \/ \E autoSave \in BOOLEAN : Quit(autoSave)
    \/ ClearUserData \/ Export
    \/ \E src \in Foreign \cup archives, rescued \in BOOLEAN : BeginImport(src, rescued)
    \/ RefuseImport \/ ReplaceFile \/ ImportFails
    \/ \E packs \in SUBSET Packs : ReplacePacks(packs)
    \/ Reload

Next == TypingNext \/ KeepingNext

Spec == Init /\ [][Next]_vars

-----------------------------------------------------------------------------
(* Properties.                                                             *)

\* A word that a save once put on disk, and a pack that was imported, can
\* always be had back: it is in the config directory, or in the memory the
\* next save writes, or in an archive the user can import - through
\* half-finished imports, imports of imports, crashes between two files and
\* failed saves.  What releases the code from it is its own forgetting (a
\* word taken back, unpreferred or decayed away), Clear Learned Data, a torn
\* pack, and what is only logged: a rescue that could not be written and a
\* model file that could not be read.
SavedWorkIsRecoverable ==
    \A x \in earned :
        \/ x \in disk.learned \cup disk.packs
        \/ app = "ready" /\ x \in mem.learned
        \/ \E a \in archives : x \in a.learned \cup a.packs

\* What Clear Learned Data removed, once its save succeeded, is in neither
\* the running engine nor its files until it is typed, picked, taught,
\* imported or (a pack's words) switched on again: no stale file, later save
\* or restart brings it back.  The words of the sentence being typed are not
\* removed for good: see Cleanable.
ClearedStaysCleared ==
    cleared \cap (InModel(disk) \cup InModel(mem)) = {}

\* Before an import applies, the current state is written to an archive the
\* user can roll back with: what the engine knew is in one of them.
RescueHoldsTheSession ==
    [][imp.stage = "idle" /\ imp'.stage = "files" /\ faults' = faults
         => \E a \in archives' : mem.learned \subseteq a.learned]_vars
=============================================================================
