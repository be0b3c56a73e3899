---------------------------- MODULE StoresProofs ----------------------------
(***************************************************************************)
(* What the keyboard's stores promise for any number of words, packs,      *)
(* archives, imports, failures and crashes: saved work can always be had   *)
(* back, and what was cleared stays cleared; what the dictation history    *)
(* reports kept or deleted is; a snippet's sheet stays on its snippet.     *)
(***************************************************************************)
EXTENDS UserData, DictationHistory, Snippets,
        FiniteSetTheorems, WellFoundedInduction, TLAPS

\* What an import can bring back.
Archived(x) == \E a \in archives : x \in a.learned \cup a.packs

\* What the directory holds and no save of the running engine will drop: it
\* is a pack, or the engine knows the word too.
OnDisk(x) == x \in disk.packs \/ (x \in disk.learned /\ (app = "ready" => x \in mem.learned))

\* A word on disk alone is not safe - an import that failed half-way leaves
\* words there which the engine does not know and will overwrite - and while
\* an import runs nothing on disk is: the rescue it began with is.
Recoverable ==
    \A x \in earned : Archived(x) \/ (imp.stage = "idle" /\ OnDisk(x))

\* A word of the running sentence is not one that a clear keeps out, for the
\* next space brings it back.
NothingReturns == ClearedStaysCleared /\ cleared \cap sentence = {}

Inv == TypeOK /\ Recoverable /\ NothingReturns

-----------------------------------------------------------------------------
(* What the operators on the two files give.                               *)

LEMMA FilesInOrderType ==
    ASSUME NEW src \in Snapshots
    PROVE  FilesInOrder(src) \in Seq(ModelFiles)
<1> USE DEF ModelFiles
<1>1. /\ <<"ngram">> \in Seq(ModelFiles) /\ <<"ppm">> \in Seq(ModelFiles)
      /\ <<>> \in Seq(ModelFiles)
  OBVIOUS
<1>2. \A s, t \in Seq(ModelFiles) : s \o t \in Seq(ModelFiles)
  OBVIOUS
<1> QED BY <1>1, <1>2 DEF FilesInOrder

LEMMA SavedTypes ==
    ASSUME TypeOK
    PROVE  /\ {NgramSaved, EngineSaved} \subseteq Snapshots
           /\ \A d \in {NgramSaved, EngineSaved} : /\ d.learned = mem.learned
                                                   /\ d.packs = disk.packs
           /\ InModel(NgramSaved) \cup InModel(EngineSaved) \subseteq InModel(disk) \cup InModel(mem)
<1>1. NgramSaved \in Snapshots /\ NgramSaved.learned = mem.learned
      /\ NgramSaved.caps = mem.caps /\ NgramSaved.injected = mem.injected
      /\ NgramSaved.ppm = disk.ppm /\ NgramSaved.packs = disk.packs
  BY DEF TypeOK, Snapshots, Memories, ModelFiles, NgramSaved
<1>2. EngineSaved \in Snapshots /\ EngineSaved.learned = mem.learned
      /\ EngineSaved.caps = mem.caps /\ EngineSaved.injected = mem.injected
      /\ EngineSaved.ppm = mem.ppm /\ EngineSaved.packs = disk.packs
  <2>1. "ppm" \in ModelFiles /\ mem.ppm \in SUBSET Words
    BY DEF TypeOK, Memories, ModelFiles
  <2> QED BY <1>1, <2>1 DEF Snapshots, EngineSaved
<1> QED BY <1>1, <1>2 DEF InModel

\* What is in an archive stays in it.
LEMMA ArchivedStays ==
    ASSUME NEW x, Archived(x), archives \subseteq archives'
    PROVE  Archived(x)'
BY DEF Archived

LEMMA InitInv == Init => Inv
<1> SUFFICES ASSUME Init
             PROVE  Inv
  OBVIOUS
<1> USE DEF Init, EmptyDisk, EmptyMemory, Idle
<1>1. TypeOK
  BY UserDataConstants DEF TypeOK, Snapshots, Memories, ModelFiles
<1>2. Recoverable /\ NothingReturns
  BY DEF Recoverable, NothingReturns, ClearedStaysCleared
<1> QED BY <1>1, <1>2 DEF Inv

-----------------------------------------------------------------------------
(* Starting and stopping.                                                  *)

LEMMA LaunchKeepsInv ==
    ASSUME Inv, Launch
    PROVE  Inv'
<1> USE DEF Inv, Launch, diskAndGhosts
<1>1. TypeOK'
  BY DEF TypeOK
<1>2. Recoverable'
  BY DEF Recoverable, Archived, OnDisk
<1>3. NothingReturns'
  BY DEF NothingReturns, ClearedStaysCleared
<1> QED BY <1>1, <1>2, <1>3

LEMMA EngineReadyKeepsInv ==
    ASSUME Inv, EngineReady \/ EngineReadyUnread
    PROVE  Inv'
<1> USE DEF Inv
<1>1. mem' \in Memories /\ (EngineReady => mem'.learned = disk.learned)
      /\ InModel(mem') \subseteq InModel(disk) \cup InModel(mem)
  BY DEF TypeOK, Snapshots, Memories, EngineReady, EngineReadyUnread, InModel
<1>2. CASE EngineReady
  <2>1. TypeOK'
    BY <1>1, <1>2 DEF TypeOK, EngineReady
  <2>2. Recoverable'
    BY <1>1, <1>2 DEF Recoverable, Archived, OnDisk, EngineReady
  <2>3. NothingReturns'
    BY <1>1, <1>2 DEF NothingReturns, ClearedStaysCleared, EngineReady, InModel
  <2> QED BY <2>1, <2>2, <2>3
<1>3. CASE EngineReadyUnread
  <2>1. TypeOK'
    <3>1. faults' \in 0..MaxFaults
      BY <1>3, UserDataConstants DEF TypeOK, EngineReadyUnread, Failing, CanFail
    <3> QED BY <1>1, <1>3, <3>1 DEF TypeOK, EngineReadyUnread
  <2>2. \A x \in earned' : x \in earned /\ x \notin disk.learned
    BY <1>3 DEF EngineReadyUnread, TypeOK, Snapshots
  <2>3. Recoverable'
    BY <1>3, <2>2 DEF Recoverable, Archived, OnDisk, EngineReadyUnread
  <2>4. NothingReturns'
    BY <1>1, <1>3 DEF NothingReturns, ClearedStaysCleared, EngineReadyUnread, InModel
  <2> QED BY <2>1, <2>3, <2>4
<1> QED BY <1>2, <1>3

LEMMA CrashKeepsInv ==
    ASSUME Inv, Crash
    PROVE  Inv'
<1> USE DEF Inv, Crash, diskAndGhosts
<1>1. TypeOK'
  BY DEF TypeOK, Memories, EmptyMemory
<1>2. Recoverable'
  BY DEF Recoverable, Archived, OnDisk, Idle
<1>3. NothingReturns'
  BY DEF NothingReturns, ClearedStaysCleared, InModel, EmptyMemory
<1> QED BY <1>1, <1>2, <1>3

-----------------------------------------------------------------------------
(* Learning, forgetting, teaching and packs.                               *)

\* A text is learned: what its words' decay drops is released with it.
LEMMA LearnKeepsInv ==
    ASSUME Inv, NEW text \in SUBSET Words, NEW faded \in SUBSET Words, Learn(text, faded),
           cleared' \subseteq cleared, cleared' \cap (text \cup sentence') = {},
           sentence' \subseteq Words,
           UNCHANGED <<app, disk, enabled, archives, imp, faults, imports>>
    PROVE  Inv'
<1> USE DEF Inv, Learn
<1>1. /\ mem' \in Memories /\ earned' \subseteq earned
      /\ \A x \in earned' : app = "ready" /\ x \in mem.learned => x \in mem'.learned
      /\ InModel(mem') \subseteq InModel(mem) \cup text
  <2>1. mem \in Memories
    BY DEF TypeOK
  <2>2. CASE app = "ready"
    <3>1. /\ mem' = [mem EXCEPT !.learned = (mem.learned \cup text) \ faded,
                                !.ppm = mem.ppm \cup text]
          /\ earned' = earned \ faded
      BY <2>2
    <3>2. /\ mem' \in Memories /\ mem'.learned = (mem.learned \cup text) \ faded
          /\ mem'.ppm = mem.ppm \cup text /\ mem'.caps = mem.caps
          /\ mem'.injected = mem.injected
      BY <2>1, <3>1 DEF Memories
    <3>3. InModel(mem') \subseteq InModel(mem) \cup text
      BY <3>2 DEF InModel
    <3> QED BY <3>1, <3>2, <3>3
  <2>3. CASE app # "ready"
    <3>1. UNCHANGED <<mem, earned>>
      BY <2>3
    <3> QED BY <2>1, <3>1 DEF InModel
  <2> QED BY <2>2, <2>3
<1>2. TypeOK'
  BY <1>1 DEF TypeOK
<1>3. Recoverable'
  BY <1>1 DEF Recoverable, Archived, OnDisk
<1>4. NothingReturns'
  BY <1>1 DEF NothingReturns, ClearedStaysCleared, InModel
<1> QED BY <1>2, <1>3, <1>4

\* One word is counted, taught or forgotten, and the sentence does not change.
LEMMA WordKeepsInv ==
    ASSUME Inv, NEW w \in Words, mem' \in Memories,
           \/ /\ mem.learned \subseteq mem'.learned /\ cleared' = cleared \ {w}
              /\ UNCHANGED earned
           \/ /\ mem.learned \ {w} \subseteq mem'.learned /\ UNCHANGED cleared
              /\ earned' = earned \ {w} /\ InModel(mem') \subseteq InModel(mem),
           InModel(mem') \subseteq InModel(mem) \cup {w},
           UNCHANGED <<app, disk, enabled, archives, imp, faults, imports, sentence>>
    PROVE  Inv'
<1> USE DEF Inv
<1>1. TypeOK'
  BY DEF TypeOK
<1>2. Recoverable'
  BY DEF Recoverable, Archived, OnDisk
<1>3. NothingReturns'
  BY DEF NothingReturns, ClearedStaysCleared, InModel
<1> QED BY <1>1, <1>2, <1>3

LEMMA TypingKeepsInv ==
    ASSUME Inv, TypingNext
    PROVE  Inv'
<1>1. /\ mem \in Memories /\ sentence \subseteq Words /\ Own \subseteq Words
      /\ cleared \cap sentence = {}
  BY UserDataConstants DEF Inv, TypeOK, NothingReturns
<1>2. ASSUME NEW w \in Own, TypeWord(w)
      PROVE  Inv'
  <2>1. PICK faded \in Fading(sentence') : Learn(sentence', faded)
    BY <1>2 DEF TypeWord
  <2>2. sentence' \in SUBSET Words /\ faded \in SUBSET Words
    BY <1>1, <1>2, <2>1 DEF TypeWord, Fading, Memories
  <2>3. cleared' \subseteq cleared /\ cleared' \cap sentence' = {}
    BY <1>1, <1>2 DEF TypeWord
  <2> QED BY <1>2, <2>1, <2>2, <2>3, LearnKeepsInv DEF TypeWord
<1>3. ASSUME NEW last \in {{}} \cup {{w} : w \in Own}, EndSentence(last)
      PROVE  Inv'
  <2>1. PICK faded \in Fading(sentence \cup last) : Learn(sentence \cup last, faded)
    BY <1>3 DEF EndSentence
  <2>2. sentence \cup last \in SUBSET Words /\ faded \in SUBSET Words
    BY <1>1, <1>3, <2>1 DEF Fading, Memories
  <2>3. cleared' \subseteq cleared /\ cleared' \cap (sentence \cup last) = {} /\ sentence' = {}
    BY <1>1, <1>3 DEF EndSentence
  <2> QED BY <1>3, <2>1, <2>2, <2>3, LearnKeepsInv DEF EndSentence
<1>4. ASSUME NEW w \in Own, BoostWord(w)
      PROVE  Inv'
  <2>1. /\ mem' \in Memories /\ mem.learned \subseteq mem'.learned
        /\ InModel(mem') \subseteq InModel(mem) \cup {w}
    BY <1>1, <1>4 DEF BoostWord, Memories, InModel
  <2> QED BY <1>1, <1>4, <2>1, WordKeepsInv DEF BoostWord
<1>5. ASSUME NEW w \in Own, JoinSentence(w)
      PROVE  Inv'
  <2> USE <1>5 DEF JoinSentence, Inv
  <2>1. TypeOK'
    BY <1>1 DEF TypeOK
  <2>2. Recoverable'
    BY DEF Recoverable, Archived, OnDisk
  <2>3. NothingReturns'
    BY DEF NothingReturns, ClearedStaysCleared, InModel
  <2> QED BY <2>1, <2>2, <2>3
<1>6. CASE DropSentence
  <2> USE <1>6 DEF DropSentence, diskAndGhosts, Inv
  <2>1. TypeOK'
    BY DEF TypeOK
  <2>2. Recoverable' /\ NothingReturns'
    BY DEF Recoverable, Archived, OnDisk, NothingReturns, ClearedStaysCleared, InModel
  <2> QED BY <2>1, <2>2
<1>7. ASSUME NEW w \in Words, UnlearnWord(w) \/ Unprefer(w)
      PROVE  Inv'
  <2>1. Forget(w)
    BY <1>7 DEF UnlearnWord, Unprefer
  <2>2. /\ mem' \in Memories /\ mem.learned \ {w} \subseteq mem'.learned
        /\ InModel(mem') \subseteq InModel(mem)
    BY <1>1, <2>1 DEF Forget, Memories, InModel
  <2> QED BY <2>1, <2>2, WordKeepsInv DEF Forget
<1> QED BY <1>2, <1>3, <1>4, <1>5, <1>6, <1>7 DEF TypingNext

LEMMA TeachingKeepsInv ==
    ASSUME Inv, NEW w \in Own, TeachCapital(w)
    PROVE  Inv'
<1>1. mem \in Memories /\ w \in Words
  BY UserDataConstants DEF Inv, TypeOK
<1>2. /\ mem' \in Memories /\ mem.learned \subseteq mem'.learned
      /\ InModel(mem') \subseteq InModel(mem) \cup {w}
  BY <1>1 DEF TeachCapital, Memories, InModel
<1> QED BY <1>1, <1>2, WordKeepsInv DEF TeachCapital

LEMMA PacksKeepInv ==
    ASSUME Inv, NEW p \in Packs,
           EnablePack(p) \/ DisablePack(p) \/ ImportPack(p) \/ ImportPackTorn(p)
    PROVE  Inv'
<1> USE DEF Inv
<1>1. CASE EnablePack(p)
  <2> USE <1>1 DEF EnablePack
  <2>1. /\ mem' \in Memories /\ mem'.learned = mem.learned
        /\ InModel(mem') \subseteq InModel(mem) \cup enabled \cup {p}
    BY DEF TypeOK, Memories, InModel
  <2>2. TypeOK'
    BY <2>1 DEF TypeOK
  <2>3. Recoverable'
    BY <2>1 DEF Recoverable, Archived, OnDisk
  <2>4. NothingReturns'
    BY <2>1 DEF NothingReturns, ClearedStaysCleared, InModel
  <2> QED BY <2>2, <2>3, <2>4
<1>2. CASE DisablePack(p)
  <2> USE <1>2 DEF DisablePack, diskAndGhosts
  <2>1. TypeOK'
    BY DEF TypeOK
  <2>2. Recoverable' /\ NothingReturns'
    BY DEF Recoverable, Archived, OnDisk, NothingReturns, ClearedStaysCleared, InModel
  <2> QED BY <2>1, <2>2
<1>3. CASE ImportPack(p)
  <2> USE <1>3 DEF ImportPack, Free
  <2>1. /\ mem' \in Memories /\ mem'.learned = mem.learned /\ InModel(mem') = InModel(mem)
        /\ disk' \in Snapshots /\ disk'.packs = disk.packs \cup {p}
        /\ disk'.learned = disk.learned /\ InModel(disk') = InModel(disk)
    BY DEF TypeOK, Memories, Snapshots, InModel
  <2>2. TypeOK'
    BY <2>1 DEF TypeOK
  <2>3. Recoverable'
    BY <2>1 DEF Recoverable, Archived, OnDisk
  <2>4. NothingReturns'
    BY <2>1 DEF NothingReturns, ClearedStaysCleared
  <2> QED BY <2>2, <2>3, <2>4
<1>4. CASE ImportPackTorn(p)
  <2> USE <1>4 DEF ImportPackTorn, Free
  <2>1. /\ disk' \in Snapshots /\ disk.packs \ {p} \subseteq disk'.packs
        /\ disk'.learned = disk.learned /\ InModel(disk') = InModel(disk)
    BY DEF TypeOK, Snapshots, InModel
  <2>2. TypeOK'
    <3>1. faults' \in 0..MaxFaults
      BY UserDataConstants DEF TypeOK, Failing, CanFail
    <3> QED BY <2>1, <3>1 DEF TypeOK
  <2>3. Recoverable'
    BY <2>1 DEF Recoverable, Archived, OnDisk
  <2>4. NothingReturns'
    BY <2>1 DEF NothingReturns, ClearedStaysCleared, InModel
  <2> QED BY <2>2, <2>3, <2>4
<1> QED BY <1>1, <1>2, <1>3, <1>4

-----------------------------------------------------------------------------
(* Saving and clearing.                                                    *)

\* A fault spent is within the bound.
LEMMA FailingType ==
    ASSUME TypeOK, Failing
    PROVE  faults' \in 0..MaxFaults
BY UserDataConstants DEF TypeOK, Failing, CanFail

\* A save, whole or partial, of an idle engine: every earned word on disk is
\* one the engine knows, so its file still has it.
LEMMA SavedOnDisk ==
    ASSUME Inv, Free, app = "ready", disk' \in {EngineSaved, NgramSaved, disk},
           earned' \subseteq IF disk' = disk THEN earned ELSE earned \cup mem.learned,
           archives \subseteq archives', imp' = imp, mem' = mem
    PROVE  \A x \in earned' : Archived(x)' \/ x \in disk'.packs
                                \/ (x \in disk'.learned /\ x \in mem.learned)
<1> SUFFICES ASSUME NEW x \in earned', ~Archived(x)'
             PROVE  x \in disk'.packs \/ (x \in disk'.learned /\ x \in mem.learned)
  OBVIOUS
<1>1. \/ disk' = disk /\ x \in earned
      \/ disk'.learned = mem.learned /\ disk'.packs = disk.packs /\ x \in earned \cup mem.learned
  BY SavedTypes DEF Inv
<1>2. x \in earned => x \in disk.packs \/ (x \in disk.learned /\ x \in mem.learned)
  BY DEF Inv, Recoverable, OnDisk, Archived
<1> QED BY <1>1, <1>2

LEMMA SaveKeepsInv ==
    ASSUME Inv, Save
    PROVE  Inv'
<1> USE DEF Inv, Save
<1>1. /\ disk' \in {EngineSaved, NgramSaved, disk} /\ (UNCHANGED faults \/ Failing)
      /\ earned' = IF disk' = disk THEN earned ELSE earned \cup mem.learned
  BY SavedTypes DEF SaveOutcome
<1>2. disk' \in Snapshots /\ InModel(disk') \subseteq InModel(disk) \cup InModel(mem)
  BY <1>1, SavedTypes DEF TypeOK
<1>3. TypeOK'
  <2>1. faults' \in 0..MaxFaults
    BY <1>1, FailingType DEF TypeOK
  <2>2. earned' \subseteq Words \cup Packs
    BY <1>1 DEF TypeOK, Memories
  <2> QED BY <1>2, <2>1, <2>2 DEF TypeOK
<1>4. Recoverable'
  <2>1. \A x \in earned' : Archived(x)' \/ x \in disk'.packs
                             \/ (x \in disk'.learned /\ x \in mem.learned)
    BY <1>1, SavedOnDisk
  <2> QED BY <2>1 DEF Recoverable, OnDisk, Free
<1>5. NothingReturns'
  BY <1>2 DEF NothingReturns, ClearedStaysCleared, InModel
<1> QED BY <1>3, <1>4, <1>5

LEMMA QuitKeepsInv ==
    ASSUME Inv, NEW autoSave \in BOOLEAN, Quit(autoSave)
    PROVE  Inv'
<1> USE DEF Inv, Quit
<1>1. CASE autoSave /\ app = "ready"
  <2>1. disk' = EngineSaved /\ earned' = earned \cup mem.learned
    BY <1>1
  <2>2. disk' \in Snapshots /\ InModel(disk') \subseteq InModel(disk) \cup InModel(mem)
        /\ disk'.learned = mem.learned /\ disk'.packs = disk.packs
    BY <2>1, SavedTypes
  <2>3. TypeOK'
    BY <2>1, <2>2 DEF TypeOK, Memories, EmptyMemory
  <2>4. Recoverable'
    BY <1>1, <2>1, <2>2 DEF Recoverable, Archived, OnDisk, Free
  <2>5. NothingReturns'
    BY <2>2 DEF NothingReturns, ClearedStaysCleared, InModel, EmptyMemory
  <2> QED BY <2>3, <2>4, <2>5
<1>2. CASE ~(autoSave /\ app = "ready")
  <2>1. UNCHANGED <<disk, earned>>
    BY <1>2
  <2>2. TypeOK'
    BY <2>1 DEF TypeOK, Memories, EmptyMemory
  <2>3. Recoverable'
    BY <2>1 DEF Recoverable, Archived, OnDisk
  <2>4. NothingReturns'
    BY <2>1 DEF NothingReturns, ClearedStaysCleared, InModel, EmptyMemory
  <2> QED BY <2>2, <2>3, <2>4
<1> QED BY <1>1, <1>2

\* Clearing releases every word; the packs stay where they were.
LEMMA ClearKeepsInv ==
    ASSUME Inv, ClearUserData
    PROVE  Inv'
<1> USE DEF Inv, ClearUserData, Cleanable, Free
<1>1. mem' \in Memories /\ InModel(mem') = {}
  BY DEF TypeOK, Memories, InModel
<1>2. /\ disk' \in Snapshots /\ disk'.packs = disk.packs
      /\ InModel(disk') \subseteq InModel(disk)
      /\ earned' = earned \ Words /\ (UNCHANGED faults \/ Failing)
      /\ cleared' = cleared \/ (cleared' = (Words \cup Packs) \ sentence /\ InModel(disk') = {})
  <2> DEFINE NgramEmptied == [disk EXCEPT !.has = @ \cup {"ngram"}, !.learned = {},
                                          !.caps = {}, !.injected = {}]
             Emptied == [NgramEmptied EXCEPT !.has = @ \cup {"ppm"}, !.ppm = {}]
  <2>1. NgramEmptied \in Snapshots /\ NgramEmptied.packs = disk.packs
        /\ NgramEmptied.learned = {} /\ NgramEmptied.caps = {} /\ NgramEmptied.injected = {}
        /\ NgramEmptied.ppm = disk.ppm
    BY DEF TypeOK, Snapshots, ModelFiles
  <2>2. Emptied \in Snapshots /\ Emptied.packs = disk.packs
        /\ Emptied.learned = {} /\ Emptied.caps = {} /\ Emptied.injected = {}
        /\ Emptied.ppm = {}
    <3> HIDE DEF NgramEmptied
    <3> QED BY <2>1 DEF Snapshots, ModelFiles
  <2>3. disk \in Snapshots
    BY DEF TypeOK
  <2>4. \/ disk' = Emptied /\ cleared' = (Words \cup Packs) \ sentence
           /\ earned' = earned \ Words /\ UNCHANGED faults
        \/ disk' \in {NgramEmptied, disk} /\ Failing /\ earned' = earned \ Words
           /\ UNCHANGED cleared
    OBVIOUS
  <2> HIDE DEF NgramEmptied, Emptied
  <2> QED BY <2>1, <2>2, <2>3, <2>4 DEF InModel
<1>3. TypeOK'
  <2>1. faults' \in 0..MaxFaults
    BY <1>2, FailingType DEF TypeOK
  <2> QED BY <1>1, <1>2, <2>1 DEF TypeOK
<1>4. Recoverable'
  <2>1. \A x \in earned' : x \in earned /\ x \notin disk.learned
    BY <1>2 DEF TypeOK, Snapshots
  <2> QED BY <1>2, <2>1 DEF Recoverable, Archived, OnDisk
<1>5. NothingReturns'
  BY <1>1, <1>2 DEF NothingReturns, ClearedStaysCleared, InModel
<1> QED BY <1>3, <1>4, <1>5

-----------------------------------------------------------------------------
(* Export and import.                                                      *)

LEMMA ExportKeepsInv ==
    ASSUME Inv, Export
    PROVE  Inv'
<1> USE DEF Inv, Export
<1>1. /\ disk' \in {EngineSaved, NgramSaved, disk} /\ (UNCHANGED faults \/ Failing)
      /\ \/ earned' = (IF disk' = disk THEN earned ELSE earned \cup mem.learned)
         \/ disk' = EngineSaved /\ earned' = earned \cup mem.learned
      /\ archives' \in {archives, archives \cup {disk'}}
  BY SavedTypes DEF Archive
<1>2. disk' \in Snapshots /\ InModel(disk') \subseteq InModel(disk) \cup InModel(mem)
  BY <1>1, SavedTypes DEF TypeOK
<1>3. TypeOK'
  <2>1. faults' \in 0..MaxFaults
    BY <1>1, FailingType DEF TypeOK
  <2>2. earned' \subseteq Words \cup Packs
    BY <1>1 DEF TypeOK, Memories
  <2>3. archives' \subseteq Snapshots
    BY <1>1, <1>2 DEF TypeOK
  <2> QED BY <1>2, <2>1, <2>2, <2>3 DEF TypeOK
<1>4. Recoverable'
  <2>1. CASE disk' = EngineSaved /\ earned' = earned \cup mem.learned
    <3>1. disk'.learned = mem.learned /\ disk'.packs = disk.packs
      BY <2>1, SavedTypes
    <3>2. archives \subseteq archives'
      BY <1>1
    <3> QED BY <2>1, <3>1, <3>2 DEF Recoverable, Archived, OnDisk, Free
  <2>2. CASE earned' = IF disk' = disk THEN earned ELSE earned \cup mem.learned
    <3>1. archives \subseteq archives'
      BY <1>1
    <3>2. \A x \in earned' : Archived(x)' \/ x \in disk'.packs
                               \/ (x \in disk'.learned /\ x \in mem.learned)
      BY <1>1, <2>2, <3>1, SavedOnDisk
    <3> QED BY <3>2 DEF Recoverable, OnDisk, Free
  <2> QED BY <1>1, <2>1, <2>2
<1>5. NothingReturns'
  BY <1>2 DEF NothingReturns, ClearedStaysCleared, InModel
<1> QED BY <1>3, <1>4, <1>5

\* The rescue holds all that is on disk, so nothing there is needed any more.
LEMMA BeginImportKeepsInv ==
    ASSUME Inv, NEW src \in Foreign \cup archives, NEW rescued \in BOOLEAN,
           BeginImport(src, rescued)
    PROVE  Inv'
<1> USE DEF Inv, BeginImport, Free
<1>1. src \in Snapshots
  BY UserDataConstants DEF TypeOK
<1>2. TypeOK'
  <2>1. imp' \in Imports
    BY <1>1, FilesInOrderType DEF Imports
  <2>2. faults' \in 0..MaxFaults /\ imports' \in 0..MaxImports
    BY FailingType, UserDataConstants DEF TypeOK
  <2>3. archives' \subseteq Snapshots /\ earned' \subseteq Words \cup Packs
    BY DEF TypeOK, Archive
  <2> QED BY <2>1, <2>2, <2>3 DEF TypeOK
<1>3. Recoverable'
  BY DEF Recoverable, Archived, OnDisk, Archive
<1>4. NothingReturns'
  BY DEF NothingReturns, ClearedStaysCleared, InModel
<1> QED BY <1>2, <1>3, <1>4

LEMMA ImportEndsKeepInv ==
    ASSUME Inv, RefuseImport \/ ImportFails
    PROVE  Inv'
<1> USE DEF Inv, RefuseImport, ImportFails, diskAndGhosts
<1>1. TypeOK'
  BY FailingType DEF TypeOK
<1>2. Recoverable'
  BY DEF Recoverable, Archived, Idle
<1>3. NothingReturns'
  BY DEF NothingReturns, ClearedStaysCleared, InModel
<1> QED BY <1>1, <1>2, <1>3

LEMMA ReplaceFileKeepsInv ==
    ASSUME Inv, ReplaceFile
    PROVE  Inv'
<1> USE DEF Inv, ReplaceFile
<1>1. imp \in Imports
  BY DEF TypeOK, Idle
<1>2. imp.todo \in Seq(ModelFiles) /\ imp.todo # <<>> /\ imp.src \in Snapshots
  BY <1>1 DEF Imports
<1>3. PICK f \in ModelFiles : f = Head(imp.todo)
  BY <1>2
<1>4. disk' \in Snapshots /\ InModel(disk') \subseteq InModel(disk) \cup InModel(imp.src)
  <2>1. disk \in Snapshots /\ disk' = [Replaced(f) EXCEPT !.has = @ \cup {f}]
    BY <1>3 DEF TypeOK
  <2>2. /\ Replaced(f) \in Snapshots
        /\ InModel(Replaced(f)) \subseteq InModel(disk) \cup InModel(imp.src)
    <3>1. CASE f = "ngram"
      BY <1>2, <2>1, <3>1 DEF Replaced, Snapshots, InModel
    <3>2. CASE f = "ppm"
      <4>1. Replaced(f) = [disk EXCEPT !.ppm = imp.src.ppm]
        BY <3>2 DEF Replaced
      <4> QED BY <1>2, <2>1, <4>1 DEF Snapshots, InModel
    <3> QED BY <3>1, <3>2 DEF ModelFiles
  <2> QED BY <1>3, <2>1, <2>2 DEF Snapshots, InModel
<1>5. imp' \in Imports /\ imp'.stage = "files"
  <2>1. Tail(imp.todo) \in Seq(ModelFiles)
    BY <1>2
  <2> QED BY <1>1, <2>1 DEF Imports
<1>6. TypeOK'
  BY <1>4, <1>5 DEF TypeOK
<1>7. Recoverable'
  BY DEF Recoverable, Archived
<1>8. NothingReturns'
  BY <1>4 DEF NothingReturns, ClearedStaysCleared, InModel
<1> QED BY <1>6, <1>7, <1>8

LEMMA ReplacePacksKeepsInv ==
    ASSUME Inv, NEW packs \in SUBSET Packs, ReplacePacks(packs)
    PROVE  Inv'
<1> USE DEF Inv, ReplacePacks
<1>1. disk' \in Snapshots /\ InModel(disk') = InModel(disk)
  BY DEF TypeOK, Snapshots, InModel
<1>2. imp' \in Imports
  BY DEF TypeOK, Idle, Imports
<1>3. TypeOK'
  <2>1. faults' \in 0..MaxFaults
    BY FailingType DEF TypeOK
  <2> QED BY <1>1, <1>2, <2>1 DEF TypeOK
<1>4. Recoverable'
  BY DEF Recoverable, Archived
<1>5. NothingReturns'
  BY <1>1 DEF NothingReturns, ClearedStaysCleared, InModel
<1> QED BY <1>3, <1>4, <1>5

LEMMA ReloadKeepsInv ==
    ASSUME Inv, Reload
    PROVE  Inv'
<1> USE DEF Inv, Reload
<1>1. mem' \in Memories /\ InModel(mem') \subseteq InModel(disk) \cup InModel(mem)
  BY DEF TypeOK, Snapshots, Memories, InModel
<1>2. TypeOK'
  BY <1>1 DEF TypeOK
<1>3. Recoverable'
  BY DEF Recoverable, Archived
<1>4. NothingReturns'
  BY <1>1 DEF NothingReturns, ClearedStaysCleared, InModel
<1> QED BY <1>2, <1>3, <1>4

-----------------------------------------------------------------------------
LEMMA NextInv == Inv /\ [Next]_vars => Inv'
<1> SUFFICES ASSUME Inv, [Next]_vars
             PROVE  Inv'
  OBVIOUS
<1>1. CASE UNCHANGED vars
  BY <1>1 DEF Inv, vars, TypeOK, Recoverable, Archived, OnDisk, NothingReturns, ClearedStaysCleared, InModel
<1>2. CASE Next
  BY <1>2, LaunchKeepsInv, EngineReadyKeepsInv, CrashKeepsInv, TypingKeepsInv,
     TeachingKeepsInv, PacksKeepInv,
     SaveKeepsInv, QuitKeepsInv, ClearKeepsInv, ExportKeepsInv, BeginImportKeepsInv,
     ImportEndsKeepInv, ReplaceFileKeepsInv, ReplacePacksKeepsInv, ReloadKeepsInv
  DEF Next, KeepingNext
<1> QED BY <1>1, <1>2

THEOREM InvHolds == Spec => []Inv
BY InitInv, NextInv, PTL DEF Spec

\* Saved words and imported packs can always be had back, unless the engine
\* itself forgot them, however many imports fail half-way, processes die between
\* two files and saves go wrong (hybrid_predictor.save, import_user_data).
THEOREM SavedWorkIsSafe == Spec => []SavedWorkIsRecoverable
<1>1. Inv => SavedWorkIsRecoverable
  BY DEF Inv, Recoverable, Archived, OnDisk, SavedWorkIsRecoverable
<1> QED BY <1>1, InvHolds, PTL

\* What a clear that was saved took out comes back by no stale file, later save,
\* restart or reload; only the words of the sentence under way return unasked
\* (clearUserData, reload_from_disk).
THEOREM ClearingLasts == Spec => []ClearedStaysCleared
<1>1. Inv => ClearedStaysCleared
  BY DEF Inv, NothingReturns
<1> QED BY <1>1, InvHolds, PTL

-----------------------------------------------------------------------------
(* Snippets: an index that outlives its list.                              *)

\* The sheet and the editor stay on the snippet they were opened for, for any
\* list, any import and any order of offers, moves, edits and restarts: every
\* change of the list is announced to the window, which closes or follows.
THEOREM SheetFollows ==
    SnippetInit /\ [][SnippetNext]_snippetVars => []SheetIsOnItsSnippet
<1> USE DEF SheetIsOnItsSnippet
<1>1. SnippetInit => SheetIsOnItsSnippet
  BY DEF SnippetInit, Grid
<1>2. SheetIsOnItsSnippet /\ [SnippetNext]_snippetVars => SheetIsOnItsSnippet'
  <2> SUFFICES ASSUME SheetIsOnItsSnippet, [SnippetNext]_snippetVars
               PROVE  SheetIsOnItsSnippet'
    OBVIOUS
  <2>1. ASSUME UNCHANGED <<slots, sheet>> PROVE SheetIsOnItsSnippet'
    BY <2>1
  <2>2. ASSUME sheet' = Grid PROVE SheetIsOnItsSnippet'
    BY <2>2 DEF Grid
  <2>3. ASSUME NEW at, Announce(slots', at) PROVE SheetIsOnItsSnippet'
    BY <2>3 DEF Announce, Grid
  <2>4. ASSUME NEW list, NEW at, Changed(list, at) PROVE SheetIsOnItsSnippet'
    BY <2>3, <2>4 DEF Changed
  <2>5. ASSUME NEW view, NEW k \in DOMAIN slots, sheet' = On(view, k), UNCHANGED slots
        PROVE  SheetIsOnItsSnippet'
    BY <2>5 DEF On
  <2>6. CASE \E v \in Values : MaybeOffer(v)
    BY <2>1, <2>6 DEF MaybeOffer
  <2>7. CASE AcceptOffer
    BY <2>1, <2>4, <2>7 DEF AcceptOffer
  <2>8. CASE Arm \/ DismissOffer \/ ResetContext
    BY <2>1, <2>8 DEF Arm, DismissOffer, ResetContext
  <2>9. CASE \E on \in BOOLEAN : SetPrivacy(on) \/ SetDetection(on)
    BY <2>1, <2>9 DEF SetPrivacy, SetDetection
  <2>10. CASE \E k \in 1..MaxSlots : OpenMenu(k) \/ BeginEdit(k)
    BY <2>5, <2>10 DEF OpenMenu, BeginEdit
  <2>11. CASE CloseSheet \/ DeleteSnippet \/ RestartSnippets
    BY <2>2, <2>11 DEF CloseSheet, DeleteSnippet, RestartSnippets
  <2>12. CASE AddSnippet
    BY <2>4, <2>12 DEF AddSnippet
  <2>13. CASE \E slot \in [label: {"renamed"}, value: Values \cup {Blank}] : SaveEdit(slot)
    BY <2>2, <2>13 DEF SaveEdit
  <2>14. CASE \E direction \in {"up", "down"} : MoveSnippet(direction)
    BY <2>4, <2>14 DEF MoveSnippet
  <2>15. CASE \E list \in Imported : ImportSnippets(list)
    BY <2>3, <2>15 DEF ImportSnippets
  <2>16. CASE UNCHANGED snippetVars
    BY <2>1, <2>16 DEF snippetVars
  <2> QED
    BY <2>6, <2>7, <2>8, <2>9, <2>10, <2>11, <2>12, <2>13, <2>14, <2>15, <2>16
       DEF SnippetNext
<1> QED BY <1>1, <1>2, PTL
-----------------------------------------------------------------------------
(* The dictation history: what it reports, against the order of its writes. *)

Tasks == [op: {"write", "unlink"}, id: Ids] \cup {Index}

\* What the disk work t has left to do of one kind.
Owing(t, op) == {t[k].id : k \in {j \in DOMAIN t : t[j].op = op}}
Owed(op) == Owing(todo, op)

\* The index is saved once, at the end.
IndexLast(t) == \A k \in DOMAIN t : (t[k].op = "index") <=> (k = Len(t))

WellFormed ==
    /\ HistoryTypeOK
    /\ todo \in Seq(Tasks) /\ IndexLast(todo)
    /\ report.call \in {"none", "add", "delete"}
    /\ todo # <<>> => loaded # "no"

\* Ids are given out once, in order.
Numbered(es) ==
    /\ \A j, k \in DOMAIN es : es[j].id = es[k].id => j = k
    /\ IdsOf(es) \subseteq 1..recorded

Recorded ==
    /\ Numbered(entries) /\ Numbered(index)
    /\ gone \subseteq 1..recorded

\* Of the runs in ids, those with a recording have it there.
Sounded(es, ids, there) ==
    \A k \in DOMAIN es : (es[k].id \in ids /\ es[k].audio = 1) => es[k].id \in there

KeptIsKept ==
    /\ kept \subseteq IdsOf(index)
    /\ loaded # "no" => kept \subseteq IdsOf(entries)
    /\ Sounded(entries, kept, wavs) /\ Sounded(index, kept, wavs)
    /\ Owed("unlink") \cap kept = {}

GoneIsGone ==
    /\ gone \cap IdsOf(index) = {} /\ gone \cap IdsOf(entries) = {}
    /\ gone \cap Owed("write") = {}
    /\ gone \cap wavs \subseteq stuck

\* What the call in progress will report holds once its index is saved: the
\* disk work left covers the rest.
Promised ==
    /\ report.call = "add" /\ todo # <<>> =>
         /\ report.ids \subseteq IdsOf(entries)
         /\ report.ids \cap Owed("unlink") = {}
         /\ Sounded(entries, report.ids, wavs \cup Owed("write"))
    /\ report.call = "delete" /\ todo # <<>> =>
         /\ report.ids \subseteq 1..recorded
         /\ report.ids \cap IdsOf(entries) = {}
         /\ report.ids \cap Owed("write") = {}
         /\ report.ids \cap wavs \subseteq stuck \cup Owed("unlink")

HistoryInv == WellFormed /\ Recorded /\ KeptIsKept /\ GoneIsGone /\ Promised

\* The elements of a concatenation.
LEMMA ConcatFacts ==
    ASSUME NEW S, NEW s \in Seq(S), NEW t \in Seq(S)
    PROVE  /\ s \o t \in Seq(S) /\ Len(s \o t) = Len(s) + Len(t)
           /\ \A k \in 1..Len(s) : (s \o t)[k] = s[k]
           /\ \A k \in 1..Len(t) : (s \o t)[Len(s) + k] = t[k]
  OBVIOUS

\* An element put in front of a sequence.
LEMMA InFront ==
    ASSUME NEW S, NEW x \in S, NEW t \in Seq(S)
    PROVE  /\ <<x>> \o t \in Seq(S) /\ <<x>> \o t # <<>>
           /\ Len(<<x>> \o t) = Len(t) + 1
           /\ (<<x>> \o t)[1] = x
           /\ \A k \in 1..Len(t) : (<<x>> \o t)[k + 1] = t[k]
<1> DEFINE f == <<x>>
<1>1. f \in Seq(S) /\ Len(f) = 1 /\ f[1] = x
  OBVIOUS
<1> HIDE DEF f
<1>2. /\ f \o t \in Seq(S) /\ Len(f \o t) = Len(f) + Len(t)
      /\ (f \o t)[1] = x
      /\ \A k \in 1..Len(t) : (f \o t)[Len(f) + k] = t[k]
  BY <1>1, ConcatFacts
<1>3. \A k \in 1..Len(t) : Len(f) + k = k + 1
  BY <1>1
<1>4. f \o t # <<>>
  BY <1>1, <1>2
<1> QED BY <1>1, <1>2, <1>3, <1>4 DEF f

\* Every nonempty set of naturals has a least element.
LEMMA NatMin ==
    ASSUME NEW T \in SUBSET Nat, T # {}
    PROVE  \E x \in T : \A y \in T : x <= y
<1> DEFINE R == {p \in Nat \X Nat : p[1] < p[2]}
<1>1. IsWellFoundedOn(OpToRel(<, Nat), Nat)
  BY NatLessThanWellFounded
<1>2. IsWellFoundedOn(R, Nat)
  BY <1>1 DEF OpToRel
<1>3. \A x, y \in Nat : x < y => <<x, y>> \in R
  OBVIOUS
<1> HIDE DEF R
<1>4. PICK x \in T : \A y \in T : ~ (<<y, x>> \in R)
  BY <1>2, WFMin
<1>5. \A y \in T : x <= y
  <2> TAKE y \in T
  <2>1. x \in Nat /\ y \in Nat
    OBVIOUS
  <2>2. ~(y < x)
    BY <1>3, <1>4, <2>1
  <2> QED BY <2>1, <2>2
<1> QED BY <1>5

\* The greatest member of a nonempty set of numbers up to n is one of them.
LEMMA MaxIsMember ==
    ASSUME NEW n \in Nat, NEW T \in SUBSET (0..n), T # {}
    PROVE  Max(T) \in T /\ \A y \in T : Max(T) >= y
<1> DEFINE U == {n - x : x \in T}
<1>1. U \in SUBSET Nat /\ U # {}
  <2>1. \A x \in 0..n : n - x \in Nat
    OBVIOUS
  <2> QED BY <2>1
<1>2. PICK u \in U : \A y \in U : u <= y
  BY <1>1, NatMin
<1>3. PICK x \in T : u = n - x
  BY <1>2
<1>4. \A y \in T : x >= y
  <2> TAKE y \in T
  <2>1. n - x <= n - y
    BY <1>2, <1>3
  <2> QED BY <2>1
<1> QED BY <1>4 DEF Max

\* Pruning keeps the newest entries and drops the rest; the newest of all is
\* never dropped.
LEMMA PrunedIsPrefix ==
    ASSUME NEW es \in Seq(Entries)
    PROVE  \E n \in 0..Len(es) :
             /\ Pruned(es) = SubSeq(es, 1, n)
             /\ Dropped(es) = SubSeq(es, n + 1, Len(es))
             /\ es # <<>> => n >= 1
<1> DEFINE T == {k \in 0..Len(es) : k = 0 \/ Fits(es, k)}
           n == Max(T)
<1>1. T \in SUBSET (0..Len(es)) /\ 0 \in T
  OBVIOUS
<1>2. Len(es) >= 1 => 1 \in T
  BY DictationHistoryConstants DEF Fits
<1>3. Pruned(es) = SubSeq(es, 1, n)
  BY DEF Pruned
<1> HIDE DEF T
<1>4. Max(T) \in T /\ \A y \in T : Max(T) >= y
  <2>1. Len(es) \in Nat /\ T # {}
    BY <1>1
  <2> QED BY <1>1, <2>1, MaxIsMember
<1>5. n \in 0..Len(es) /\ (es # <<>> => n >= 1)
  <2>1. n \in 0..Len(es)
    BY <1>1, <1>4
  <2>2. es # <<>> => Len(es) >= 1
    OBVIOUS
  <2> QED BY <1>2, <1>4, <2>1, <2>2
<1>6. Len(SubSeq(es, 1, n)) = n
  BY <1>5
<1> QED BY <1>3, <1>5, <1>6 DEF Dropped

\* So the ids of what is kept and of what is dropped share nothing.
LEMMA PrunedIds ==
    ASSUME NEW es \in Seq(Entries)
    PROVE  /\ Pruned(es) \in Seq(Entries) /\ Dropped(es) \in Seq(Entries)
           /\ IdsOf(es) = IdsOf(Pruned(es)) \cup IdsOf(Dropped(es))
           /\ \A k \in DOMAIN Pruned(es) : k \in DOMAIN es /\ Pruned(es)[k] = es[k]
           /\ es # <<>> => /\ Pruned(es) # <<>>
                           /\ \A k \in DOMAIN Dropped(es) :
                                \E j \in DOMAIN es : j > 1 /\ Dropped(es)[k] = es[j]
<1>1. PICK n \in 0..Len(es) : /\ Pruned(es) = SubSeq(es, 1, n)
                              /\ Dropped(es) = SubSeq(es, n + 1, Len(es))
                              /\ es # <<>> => n >= 1
  BY PrunedIsPrefix
<1>2. /\ SubSeq(es, 1, n) \in Seq(Entries) /\ Len(SubSeq(es, 1, n)) = n
      /\ \A k \in 1..n : SubSeq(es, 1, n)[k] = es[k]
  OBVIOUS
<1>3. /\ SubSeq(es, n + 1, Len(es)) \in Seq(Entries)
      /\ Len(SubSeq(es, n + 1, Len(es))) = Len(es) - n
      /\ \A k \in 1..(Len(es) - n) : SubSeq(es, n + 1, Len(es))[k] = es[n + k]
  OBVIOUS
<1>4. \A j \in (n + 1)..Len(es) : SubSeq(es, n + 1, Len(es))[j - n] = es[j]
  BY <1>3
<1>5. IdsOf(es) \subseteq IdsOf(SubSeq(es, 1, n)) \cup IdsOf(SubSeq(es, n + 1, Len(es)))
  <2> DEFINE both == IdsOf(SubSeq(es, 1, n)) \cup IdsOf(SubSeq(es, n + 1, Len(es)))
  <2>3. ASSUME \A j \in 1..Len(es) : es[j].id \in both
        PROVE  IdsOf(es) \subseteq both
    <3> HIDE DEF both
    <3> QED BY <2>3 DEF IdsOf
  <2> SUFFICES ASSUME NEW j \in 1..Len(es)
               PROVE  es[j].id \in IdsOf(SubSeq(es, 1, n)) \cup IdsOf(SubSeq(es, n + 1, Len(es)))
    BY <2>3
  <2>1. CASE j <= n
    BY <1>2, <2>1 DEF IdsOf
  <2>2. CASE j > n
    <3>1. j - n \in 1..(Len(es) - n) /\ j \in (n + 1)..Len(es)
      BY <2>2
    <3>2. DOMAIN SubSeq(es, n + 1, Len(es)) = 1..(Len(es) - n)
      BY <1>3
    <3>3. SubSeq(es, n + 1, Len(es))[j - n] = es[j]
      BY <1>4, <3>1
    <3> DEFINE d == SubSeq(es, n + 1, Len(es))
               i == j - n
    <3>4. i \in DOMAIN d /\ d[i] = es[j]
      BY <3>1, <3>2, <3>3
    <3> HIDE DEF d, i
    <3>5. es[j].id \in IdsOf(d)
      BY <3>4 DEF IdsOf
    <3> QED BY <3>5 DEF d
  <2> QED BY <2>1, <2>2
<1>6. IdsOf(SubSeq(es, 1, n)) \subseteq IdsOf(es)
  BY <1>2 DEF IdsOf
<1>7. IdsOf(SubSeq(es, n + 1, Len(es))) \subseteq IdsOf(es)
  <2>1. \A k \in 1..(Len(es) - n) : n + k \in 1..Len(es)
    OBVIOUS
  <2> QED BY <1>3, <2>1 DEF IdsOf
<1>8. \A k \in DOMAIN Dropped(es) : (n + k) \in DOMAIN es /\ Dropped(es)[k] = es[n + k]
  BY <1>1, <1>3
<1>9. es # <<>> => \A k \in DOMAIN Dropped(es) :
                     \E j \in DOMAIN es : j > 1 /\ Dropped(es)[k] = es[j]
  BY <1>1, <1>3, <1>8
<1>10. es # <<>> => Pruned(es) # <<>>
  BY <1>1, <1>2
<1>11. /\ Pruned(es) \in Seq(Entries) /\ Dropped(es) \in Seq(Entries)
       /\ IdsOf(es) = IdsOf(Pruned(es)) \cup IdsOf(Dropped(es))
  BY <1>1, <1>2, <1>3, <1>5, <1>6, <1>7
<1>12. \A k \in DOMAIN Pruned(es) : k \in DOMAIN es /\ Pruned(es)[k] = es[k]
  BY <1>1, <1>2
<1> QED BY <1>9, <1>10, <1>11, <1>12

-----------------------------------------------------------------------------
(* Disk work: what a sequence of tasks owes.                               *)

LEMMA OwingConcat ==
    ASSUME NEW s \in Seq(Tasks), NEW t \in Seq(Tasks), NEW op
    PROVE  s \o t \in Seq(Tasks) /\ Owing(s \o t, op) = Owing(s, op) \cup Owing(t, op)
<1>1. /\ s \o t \in Seq(Tasks) /\ Len(s \o t) = Len(s) + Len(t)
      /\ \A k \in 1..Len(s) : (s \o t)[k] = s[k]
      /\ \A k \in 1..Len(t) : (s \o t)[Len(s) + k] = t[k]
  BY ConcatFacts
<1>2. ASSUME NEW k \in 1..Len(s \o t)
      PROVE  k \in 1..Len(s) \/ k - Len(s) \in 1..Len(t)
  BY <1>1
<1>3. ASSUME NEW k \in 1..Len(t) PROVE Len(s) + k \in 1..Len(s \o t)
  BY <1>1
<1>4. ASSUME NEW k \in 1..Len(s \o t), k - Len(s) \in 1..Len(t)
      PROVE  (s \o t)[k] = t[k - Len(s)]
  <2>1. Len(s) + (k - Len(s)) = k
    OBVIOUS
  <2> QED BY <1>1, <1>4, <2>1
<1>5. Owing(s \o t, op) \subseteq Owing(s, op) \cup Owing(t, op)
  BY <1>1, <1>2, <1>4 DEF Owing
<1>6. Owing(s, op) \subseteq Owing(s \o t, op)
  BY <1>1 DEF Owing
<1>7. Owing(t, op) \subseteq Owing(s \o t, op)
  <2> SUFFICES ASSUME NEW k \in DOMAIN t, t[k].op = op
               PROVE  t[k].id \in Owing(s \o t, op)
    BY DEF Owing
  <2>1. Len(s) + k \in DOMAIN (s \o t) /\ (s \o t)[Len(s) + k] = t[k]
    BY <1>1, <1>3
  <2> QED BY <2>1 DEF Owing
<1> QED BY <1>1, <1>5, <1>6, <1>7

\* A run of writes and removals, then the index.
LEMMA ThenIndex ==
    ASSUME NEW s \in Seq(Tasks), \A k \in DOMAIN s : s[k].op # "index"
    PROVE  /\ s \o <<Index>> \in Seq(Tasks)
           /\ s \o <<Index>> # <<>>
           /\ IndexLast(s \o <<Index>>)
           /\ Owing(s \o <<Index>>, "write") = Owing(s, "write")
           /\ Owing(s \o <<Index>>, "unlink") = Owing(s, "unlink")
<1>1. Index \in Tasks /\ Index.op = "index"
  BY DEF Index, Tasks
<1> DEFINE t == <<Index>>
<1>2. t \in Seq(Tasks) /\ Len(t) = 1 /\ t[1] = Index
  BY <1>1
<1>3. Owing(t, "write") = {} /\ Owing(t, "unlink") = {}
  BY <1>1, <1>2 DEF Owing
<1>4. /\ s \o t \in Seq(Tasks) /\ Len(s \o t) = Len(s) + 1
      /\ \A k \in 1..Len(s) : (s \o t)[k] = s[k]
      /\ (s \o t)[Len(s) + 1] = Index
  BY <1>2
<1> HIDE DEF t
<1>5. IndexLast(s \o t)
  BY <1>1, <1>4 DEF IndexLast
<1>6. s \o t # <<>>
  BY <1>4
<1>7. /\ Owing(s \o t, "write") = Owing(s, "write")
      /\ Owing(s \o t, "unlink") = Owing(s, "unlink")
  <2>1. \A op : Owing(s \o t, op) = Owing(s, op) \cup Owing(t, op)
    BY <1>2, OwingConcat
  <2> QED BY <1>3, <2>1
<1> QED BY <1>4, <1>5, <1>6, <1>7 DEF t

LEMMA OwingUnlinks ==
    ASSUME NEW es \in Seq(Entries)
    PROVE  /\ Unlinks(es) \in Seq(Tasks)
           /\ \A k \in DOMAIN Unlinks(es) : Unlinks(es)[k].op = "unlink"
           /\ Owing(Unlinks(es), "write") = {}
           /\ Owing(Unlinks(es), "unlink") = IdsOf(es)
<1>1. \A k \in 1..Len(es) : Len(es) + 1 - k \in 1..Len(es)
  OBVIOUS
<1>2. \A k \in 1..Len(es) : es[k] \in Entries /\ es[k].id \in Ids
  <2>1. \A e \in Entries : e.id \in Ids
    BY DEF Entries
  <2> QED BY <2>1
<1>3. \A k \in 1..Len(es) : Unlink(es[Len(es) + 1 - k].id) \in Tasks
  BY <1>1, <1>2 DEF Unlink, Tasks
<1>4. Unlinks(es) \in Seq(Tasks) /\ DOMAIN Unlinks(es) = 1..Len(es)
  BY <1>3 DEF Unlinks
<1>5. \A k \in 1..Len(es) : /\ Unlinks(es)[k].op = "unlink"
                            /\ Unlinks(es)[k].id = es[Len(es) + 1 - k].id
  BY DEF Unlinks, Unlink
<1>6. Owing(Unlinks(es), "write") = {}
  BY <1>4, <1>5 DEF Owing
<1>7. Owing(Unlinks(es), "unlink") \subseteq IdsOf(es)
  BY <1>1, <1>4, <1>5 DEF Owing, IdsOf
<1>8. IdsOf(es) \subseteq Owing(Unlinks(es), "unlink")
  <2> SUFFICES ASSUME NEW j \in 1..Len(es) PROVE es[j].id \in Owing(Unlinks(es), "unlink")
    BY DEF IdsOf
  <2>1. Len(es) + 1 - j \in 1..Len(es) /\ Len(es) + 1 - (Len(es) + 1 - j) = j
    OBVIOUS
  <2> QED BY <1>4, <1>5, <2>1 DEF Owing
<1> QED BY <1>4, <1>5, <1>6, <1>7, <1>8

LEMMA SetToSeqType ==
    ASSUME NEW T, IsFiniteSet(T)
    PROVE  SetToSeq(T) \in Seq(T)
<1>1. Cardinality(T) \in Nat /\ \E f : f \in Bijection(1..Cardinality(T), T)
  BY FS_CardinalityType DEF ExistsBijection
<1>2. \E f \in [1..Cardinality(T) -> T] : IsInjective(f)
  BY <1>1 DEF Bijection, Injection, IsInjective
<1>3. SetToSeq(T) \in [1..Cardinality(T) -> T]
  BY <1>2 DEF SetToSeq
<1> QED BY <1>1, <1>3

LEMMA OwingOrphans ==
    ASSUME NEW T \in SUBSET Ids
    PROVE  LET s == SetToSeq({Unlink(id) : id \in T}) IN
           /\ s \in Seq(Tasks)
           /\ \A k \in DOMAIN s : s[k].op = "unlink"
           /\ Owing(s, "write") = {}
<1> DEFINE U == {Unlink(id) : id \in T}
           s == SetToSeq(U)
<1>1. IsFiniteSet(T)
  <2>1. IsFiniteSet(1..MaxRuns)
    BY FS_Interval, DictationHistoryConstants
  <2> QED BY <2>1, FS_Subset DEF Ids
<1>2. IsFiniteSet(U)
  <2> DEFINE f == [id \in T |-> Unlink(id)]
  <2>1. f \in Surjection(T, U)
    BY DEF Surjection
  <2> QED BY <1>1, <2>1, FS_Surjection
<1>3. \A u \in U : u \in Tasks /\ u.op = "unlink"
  BY DEF Unlink, Tasks
<1>4. s \in Seq(U)
  BY <1>2, SetToSeqType
<1> HIDE DEF U, s
<1>5. \A k \in DOMAIN s : s[k] \in U
  BY <1>4
<1>6. s \in Seq(Tasks)
  BY <1>3, <1>4
<1>7. Owing(s, "write") = {}
  BY <1>3, <1>5 DEF Owing
<1> QED BY <1>3, <1>5, <1>6, <1>7 DEF s, U

\* One task done.
LEMMA OwingTail ==
    ASSUME NEW t \in Seq(Tasks), t # <<>>, IndexLast(t)
    PROVE  /\ Tail(t) \in Seq(Tasks) /\ IndexLast(Tail(t))
           /\ Head(t) \in Tasks
           /\ \A op : Owing(Tail(t), op) \subseteq Owing(t, op)
           /\ \A op : Owing(t, op) \subseteq Owing(Tail(t), op) \cup {Head(t).id}
           /\ \A op : Head(t).op # op => Owing(t, op) = Owing(Tail(t), op)
           /\ \A op : Head(t).op = op => Head(t).id \in Owing(t, op)
           /\ Head(t).op = "index" => /\ Tail(t) = <<>>
                                      /\ Owing(t, "write") = {}
                                      /\ Owing(t, "unlink") = {}
<1>1. /\ Tail(t) \in Seq(Tasks) /\ Len(Tail(t)) = Len(t) - 1 /\ Len(t) \in Nat \ {0}
      /\ Head(t) = t[1] /\ t[1] \in Tasks
      /\ \A k \in 1..(Len(t) - 1) : Tail(t)[k] = t[k + 1]
  OBVIOUS
<1>2. \A k \in 2..Len(t) : k - 1 \in 1..(Len(t) - 1) /\ Tail(t)[k - 1] = t[k]
  BY <1>1
<1>3. IndexLast(Tail(t))
  BY <1>1 DEF IndexLast
<1>4. ASSUME NEW op
      PROVE  /\ Owing(Tail(t), op) \subseteq Owing(t, op)
             /\ Owing(t, op) \subseteq Owing(Tail(t), op) \cup {Head(t).id}
             /\ Head(t).op # op => Owing(t, op) = Owing(Tail(t), op)
             /\ Head(t).op = op => Head(t).id \in Owing(t, op)
  <2>1. Owing(Tail(t), op) \subseteq Owing(t, op)
    BY <1>1 DEF Owing
  <2>2. ASSUME NEW k \in 1..Len(t), t[k].op = op
        PROVE  \/ k = 1
               \/ t[k].id \in Owing(Tail(t), op)
    <3>1. SUFFICES ASSUME k # 1 PROVE t[k].id \in Owing(Tail(t), op)
      OBVIOUS
    <3>2. k \in 2..Len(t)
      BY <1>1, <3>1
    <3>3. k - 1 \in DOMAIN Tail(t) /\ Tail(t)[k - 1] = t[k]
      BY <1>1, <1>2, <3>2
    <3> QED BY <2>2, <3>3 DEF Owing
  <2>3. Owing(t, op) \subseteq Owing(Tail(t), op) \cup {Head(t).id}
    BY <1>1, <2>2 DEF Owing
  <2>4. Head(t).op # op => Owing(t, op) \subseteq Owing(Tail(t), op)
    BY <1>1, <2>2 DEF Owing
  <2>5. Head(t).op = op => Head(t).id \in Owing(t, op)
    BY <1>1 DEF Owing
  <2> QED BY <2>1, <2>3, <2>4, <2>5
<1>5. ASSUME Head(t).op = "index"
      PROVE  /\ Tail(t) = <<>>
             /\ Owing(t, "write") = {} /\ Owing(t, "unlink") = {}
  <2>1. Len(t) = 1
    BY <1>1, <1>5 DEF IndexLast
  <2>2. Tail(t) = <<>>
    <3> DEFINE rest == Tail(t)
    <3>1. rest \in Seq(Tasks) /\ Len(rest) = 0
      BY <1>1, <2>1
    <3> HIDE DEF rest
    <3>2. rest = <<>>
      BY <3>1
    <3> QED BY <3>2 DEF rest
  <2> QED BY <1>1, <1>5, <2>1, <2>2 DEF Owing
<1> QED BY <1>1, <1>3, <1>4, <1>5

LEMMA OwingNothing == \A op : Owing(<<>>, op) = {}
  BY DEF Owing

-----------------------------------------------------------------------------
(* The steps.                                                              *)

LEMMA HistoryInitInv == HistoryInit => HistoryInv
<1> SUFFICES ASSUME HistoryInit PROVE HistoryInv
  OBVIOUS
<1> USE DEF HistoryInit
<1>1. /\ IdsOf(<<>>) = {} /\ <<>> \in Seq(Entries) /\ <<>> \in Seq(Tasks)
      /\ DOMAIN <<>> = {}
  BY DEF IdsOf
<1>2. WellFormed
  BY <1>1, DictationHistoryConstants
     DEF WellFormed, HistoryTypeOK, IndexLast, NoReport
<1>3. Recorded /\ KeptIsKept /\ GoneIsGone /\ Promised
  BY <1>1 DEF Recorded, Numbered, KeptIsKept, Sounded, GoneIsGone, Promised, NoReport
<1> QED BY <1>2, <1>3 DEF HistoryInv

\* The first call: a clean index vouches for what it lists, a rejected one
\* for nothing.
LEMMA LoadKeepsInv ==
    ASSUME HistoryInv, Load
    PROVE  HistoryInv'
<1> USE DEF HistoryInv, Load
<1>1. todo = <<>> /\ todo' = <<>>
  BY DEF WellFormed
<1>2. IdsOf(<<>>) = {} /\ <<>> \in Seq(Entries) /\ DOMAIN <<>> = {}
  BY DEF IdsOf
<1>3. \A op : Owed(op)' = {} /\ Owed(op) = {}
  BY <1>1, OwingNothing DEF Owed
<1>4. CASE /\ loaded' = "clean" /\ entries' = index
           /\ wavs' = wavs \ Orphans(index) /\ stuck' = {} /\ UNCHANGED kept
  <2>1. wavs' = wavs \cap IdsOf(index)
    BY <1>4 DEF Orphans
  <2>2. WellFormed'
    BY <1>1, <1>4, <2>1 DEF WellFormed, HistoryTypeOK, IndexLast
  <2>3. Recorded'
    BY <1>4 DEF Recorded, Numbered
  <2>4. Sounded(index, kept, wavs \cap IdsOf(index))
    BY DEF KeptIsKept, Sounded, IdsOf
  <2>5. KeptIsKept'
    BY <1>3, <1>4, <2>1, <2>4 DEF KeptIsKept, Sounded
  <2>6. GoneIsGone'
    BY <1>3, <1>4, <2>1 DEF GoneIsGone
  <2>7. Promised'
    BY <1>1 DEF Promised
  <2> QED BY <2>2, <2>3, <2>5, <2>6, <2>7
<1>5. CASE /\ loaded' = "rejected" /\ entries' = <<>>
           /\ kept' = {} /\ UNCHANGED <<wavs, stuck>>
  <2>1. WellFormed'
    BY <1>1, <1>2, <1>5 DEF WellFormed, HistoryTypeOK, IndexLast
  <2>2. Recorded' /\ KeptIsKept' /\ GoneIsGone' /\ Promised'
    BY <1>1, <1>2, <1>3, <1>5
       DEF Recorded, Numbered, KeptIsKept, Sounded, GoneIsGone, Promised
  <2> QED BY <2>1, <2>2
<1> QED BY <1>4, <1>5

\* A run is recorded: its recording is owed before its entry is saved.
LEMMA AddKeepsInv ==
    ASSUME HistoryInv, NEW text \in 1..MaxText, NEW pcm \in 0..1, NEW audio \in 0..1,
           Add(text, pcm, audio)
    PROVE  HistoryInv'
<1> USE DEF HistoryInv
<1> DEFINE id == recorded + 1
           new == [id |-> id, text |-> text, audio |-> audio]
           listed == <<new>> \o entries
           P == Pruned(listed)
           D == Dropped(listed)
           recs == IF audio = 1 THEN <<Write(id)>> ELSE <<>>
<1>1. /\ Ready /\ recorded < MaxRuns /\ recorded' = id
      /\ entries' = P /\ todo' = recs \o Unlinks(D) \o <<Index>>
      /\ report' = [call |-> "add", ids |-> {id}]
      /\ kept' = kept \ IdsOf(D)
      /\ UNCHANGED <<limit, loaded, index, wavs, asked, held, gone, stuck>>
  BY DEF Add
<1>2. entries \in Seq(Entries) /\ recorded \in Nat /\ id \in Ids /\ id \notin 1..recorded
  BY <1>1, DictationHistoryConstants DEF WellFormed, HistoryTypeOK, Ids
<1>3. new \in Entries /\ new.id = id /\ new.audio = audio
  BY <1>2 DEF Entries
<1> HIDE DEF new
<1>4. /\ listed \in Seq(Entries) /\ listed # <<>> /\ Len(listed) = Len(entries) + 1
      /\ listed[1] = new
      /\ \A k \in 1..Len(entries) : listed[k + 1] = entries[k]
  BY <1>2, <1>3, InFront
<1> HIDE DEF listed
<1>5. \A k \in DOMAIN listed : k = 1 \/ (k - 1 \in DOMAIN entries /\ listed[k] = entries[k - 1])
  <2> TAKE k \in DOMAIN listed
  <2>1. SUFFICES ASSUME k # 1 PROVE k - 1 \in DOMAIN entries /\ listed[k] = entries[k - 1]
    OBVIOUS
  <2>2. k - 1 \in 1..Len(entries) /\ (k - 1) + 1 = k
    BY <1>2, <1>4, <2>1
  <2> QED BY <1>2, <1>4, <2>2
<1>6. IdsOf(listed) = {id} \cup IdsOf(entries)
  <2>1. IdsOf(listed) \subseteq {id} \cup IdsOf(entries)
    BY <1>3, <1>4, <1>5 DEF IdsOf
  <2>2. id \in IdsOf(listed)
    BY <1>2, <1>3, <1>4 DEF IdsOf
  <2>3. ASSUME NEW k \in DOMAIN entries PROVE entries[k].id \in IdsOf(listed)
    <3>1. k + 1 \in DOMAIN listed /\ listed[k + 1] = entries[k]
      BY <1>2, <1>4
    <3> QED BY <3>1 DEF IdsOf
  <2>4. IdsOf(entries) \subseteq IdsOf(listed)
    BY <2>3 DEF IdsOf
  <2> QED BY <2>1, <2>2, <2>4
<1>7. IdsOf(entries) \subseteq 1..recorded
  BY DEF Recorded, Numbered
<1>8. \A j, k \in DOMAIN listed : listed[j].id = listed[k].id => j = k
  <2> TAKE j, k \in DOMAIN listed
  <2>1. \A i \in DOMAIN listed : i # 1 => listed[i].id # id
    BY <1>2, <1>5, <1>7 DEF IdsOf
  <2>2. ASSUME j # 1, k # 1, listed[j].id = listed[k].id PROVE j = k
    <3>1. j - 1 = k - 1
      BY <1>5, <2>2 DEF Recorded, Numbered
    <3> QED BY <1>2, <1>4, <3>1
  <2> QED BY <1>3, <1>4, <2>1, <2>2
<1>9. /\ P \in Seq(Entries) /\ D \in Seq(Entries) /\ P # <<>>
      /\ IdsOf(listed) = IdsOf(P) \cup IdsOf(D)
      /\ \A k \in DOMAIN P : k \in DOMAIN listed /\ P[k] = listed[k]
      /\ \A k \in DOMAIN D : \E j \in DOMAIN listed : j > 1 /\ D[k] = listed[j]
  BY <1>4, PrunedIds
<1> HIDE DEF P, D
<1>10. id \notin IdsOf(D)
  <2>1. \A k \in DOMAIN D : D[k].id \in IdsOf(entries)
    BY <1>4, <1>5, <1>9 DEF IdsOf
  <2> QED BY <1>2, <1>7, <2>1 DEF IdsOf
<1>11. id \in IdsOf(P)
  BY <1>6, <1>9, <1>10
<1>12. /\ todo' \in Seq(Tasks) /\ todo' # <<>> /\ IndexLast(todo')
       /\ Owing(todo', "write") = Owing(recs, "write")
       /\ Owing(todo', "unlink") = IdsOf(D)
  <2>1. /\ recs \in Seq(Tasks) /\ \A k \in DOMAIN recs : recs[k].op = "write"
        /\ Owing(recs, "unlink") = {}
    <3>1. CASE audio = 1
      <4>1. Write(id) \in Tasks /\ Write(id).op = "write"
        BY <1>2 DEF Write, Tasks
      <4>2. recs = <<Write(id)>>
        BY <3>1
      <4> QED BY <4>1, <4>2 DEF Owing
    <3>2. CASE audio # 1
      BY <3>2, OwingNothing
    <3> QED BY <3>1, <3>2
  <2> HIDE DEF recs
  <2>2. /\ Unlinks(D) \in Seq(Tasks)
        /\ \A k \in DOMAIN Unlinks(D) : Unlinks(D)[k].op = "unlink"
        /\ Owing(Unlinks(D), "write") = {}
        /\ Owing(Unlinks(D), "unlink") = IdsOf(D)
    BY <1>9, OwingUnlinks
  <2> DEFINE u == Unlinks(D)
             w == recs \o u
  <2> HIDE DEF u
  <2>3. /\ w \in Seq(Tasks)
        /\ Owing(w, "write") = Owing(recs, "write")
        /\ Owing(w, "unlink") = IdsOf(D)
    <3>1. u \in Seq(Tasks) /\ Owing(u, "write") = {} /\ Owing(u, "unlink") = IdsOf(D)
      BY <2>2 DEF u
    <3>2. /\ w \in Seq(Tasks)
          /\ \A op : Owing(w, op) = Owing(recs, op) \cup Owing(u, op)
      BY <2>1, <3>1, OwingConcat
    <3> QED BY <2>1, <3>1, <3>2
  <2>4. \A k \in DOMAIN w : w[k].op # "index"
    <3>1. \A k \in DOMAIN u : u[k].op = "unlink"
      BY <2>2 DEF u
    <3>2. /\ \A k \in DOMAIN w : k \in DOMAIN recs \/ k - Len(recs) \in DOMAIN u
          /\ \A k \in DOMAIN recs : w[k] = recs[k]
          /\ \A k \in DOMAIN u : w[Len(recs) + k] = u[k]
      BY <2>1, <2>2 DEF u
    <3>3. ASSUME NEW k \in DOMAIN w, k - Len(recs) \in DOMAIN u
          PROVE  w[k].op = "unlink"
      <4>1. Len(recs) + (k - Len(recs)) = k
        BY <2>1, <2>3
      <4> QED BY <3>1, <3>2, <3>3, <4>1
    <3> QED BY <2>1, <3>2, <3>3
  <2> HIDE DEF w
  <2>5. todo' = w \o <<Index>>
    BY <1>1 DEF w, u
  <2> QED BY <2>3, <2>4, <2>5, ThenIndex
<1>13. Owing(recs, "write") = IF audio = 1 THEN {id} ELSE {}
  BY DEF Owing, Write
<1> HIDE DEF recs
<1>14. WellFormed'
  <2>1. recorded' \in 0..MaxRuns /\ kept' \subseteq Ids
    <3>1. recorded' \in 0..MaxRuns
      BY <1>1, <1>2, DictationHistoryConstants DEF Ids
    <3>2. kept \subseteq Ids
      BY DEF WellFormed, HistoryTypeOK
    <3> QED BY <1>1, <3>1, <3>2
  <2> QED BY <1>1, <1>9, <1>12, <2>1 DEF WellFormed, HistoryTypeOK, Ready
<1>15. Recorded'
  <2>1. Numbered(entries)'
    <3>1. \A j, k \in DOMAIN P : P[j].id = P[k].id => j = k
      BY <1>8, <1>9
    <3>2. IdsOf(P) \subseteq 1..(recorded + 1)
      BY <1>2, <1>6, <1>7, <1>9
    <3> QED BY <1>1, <3>1, <3>2 DEF Numbered
  <2>2. Numbered(index)'
    BY <1>1, <1>2 DEF Recorded, Numbered, IdsOf
  <2>3. gone' \subseteq 1..recorded'
    BY <1>1, <1>2 DEF Recorded
  <2> QED BY <2>1, <2>2, <2>3 DEF Recorded
<1>16. id \notin kept /\ id \notin gone
  BY <1>2 DEF KeptIsKept, Recorded, Numbered
<1>17. KeptIsKept'
  <2>1. kept \subseteq IdsOf(entries)
    BY <1>1 DEF KeptIsKept, Ready
  <2>2. kept' \subseteq IdsOf(P)
    BY <1>1, <1>6, <1>9, <2>1
  <2>3. Sounded(P, kept', wavs)
    <3> SUFFICES ASSUME NEW k \in DOMAIN P, P[k].id \in kept, P[k].audio = 1
                 PROVE  P[k].id \in wavs
      BY <1>1 DEF Sounded
    <3>1. k \in DOMAIN listed /\ P[k] = listed[k]
      BY <1>9
    <3>2. k # 1
      BY <1>3, <1>4, <1>16, <3>1
    <3>3. k - 1 \in DOMAIN entries /\ P[k] = entries[k - 1]
      BY <1>5, <3>1, <3>2
    <3> QED BY <3>3 DEF Sounded, KeptIsKept
  <2> QED BY <1>1, <1>12, <2>2, <2>3 DEF KeptIsKept, Sounded, Owed, IdsOf
<1>18. GoneIsGone'
  <2>1. gone \cap IdsOf(P) = {}
    BY <1>6, <1>9, <1>16 DEF GoneIsGone
  <2>2. gone \cap Owing(todo', "write") = {}
    BY <1>12, <1>13, <1>16
  <2> QED BY <1>1, <2>1, <2>2 DEF GoneIsGone, Owed, IdsOf
<1>19. Promised'
  <2>1. Sounded(P, {id}, wavs \cup Owing(todo', "write"))
    <3> SUFFICES ASSUME NEW k \in DOMAIN P, P[k].id = id, P[k].audio = 1
                 PROVE  id \in Owing(todo', "write")
      BY DEF Sounded
    <3>1. k = 1
      BY <1>2, <1>3, <1>4, <1>8, <1>9
    <3> QED BY <1>3, <1>4, <1>9, <1>12, <1>13, <3>1
  <2> QED BY <1>1, <1>10, <1>11, <1>12, <2>1 DEF Promised, Owed, Sounded, IdsOf
<1> QED BY <1>14, <1>15, <1>17, <1>18, <1>19

\* A new budget drops what no longer fits, and says so of nothing.
LEMMA SetLimitKeepsInv ==
    ASSUME HistoryInv, NEW l \in Budgets, SetLimit(l)
    PROVE  HistoryInv'
<1> USE DEF HistoryInv
<1> DEFINE P == Pruned(entries)
           D == Dropped(entries)
           u == Unlinks(D)
<1>1. /\ Ready /\ limit' = l /\ entries' = P /\ todo' = u \o <<Index>>
      /\ report' = NoReport /\ kept' = kept \ IdsOf(D)
      /\ UNCHANGED <<loaded, index, wavs, recorded, asked, held, misses, gone, stuck>>
  BY DEF SetLimit
<1>2. entries \in Seq(Entries)
  BY DEF WellFormed, HistoryTypeOK
<1>3. /\ P \in Seq(Entries) /\ D \in Seq(Entries)
      /\ IdsOf(entries) = IdsOf(P) \cup IdsOf(D)
      /\ \A k \in DOMAIN P : k \in DOMAIN entries /\ P[k] = entries[k]
  BY <1>2, PrunedIds
<1> HIDE DEF P, D
<1>4. /\ u \in Seq(Tasks) /\ \A k \in DOMAIN u : u[k].op = "unlink"
      /\ Owing(u, "write") = {} /\ Owing(u, "unlink") = IdsOf(D)
  BY <1>3, OwingUnlinks
<1> HIDE DEF u
<1>5. /\ todo' \in Seq(Tasks) /\ todo' # <<>> /\ IndexLast(todo')
      /\ Owing(todo', "write") = {} /\ Owing(todo', "unlink") = IdsOf(D)
  <2>1. \A k \in DOMAIN u : u[k].op # "index"
    BY <1>4
  <2> QED BY <1>1, <1>4, <2>1, ThenIndex
<1>6. WellFormed'
  BY <1>1, <1>3, <1>5 DEF WellFormed, HistoryTypeOK, Ready, NoReport
<1>7. Recorded'
  BY <1>1, <1>3 DEF Recorded, Numbered, IdsOf
<1>8. KeptIsKept'
  <2>1. kept' \subseteq IdsOf(P)
    BY <1>1, <1>3 DEF KeptIsKept, Ready
  <2>2. Sounded(P, kept', wavs)
    BY <1>1, <1>3 DEF KeptIsKept, Sounded
  <2> QED BY <1>1, <1>5, <2>1, <2>2 DEF KeptIsKept, Sounded, Owed, IdsOf
<1>9. GoneIsGone'
  BY <1>1, <1>3, <1>5 DEF GoneIsGone, Owed, IdsOf
<1>10. Promised'
  BY <1>1 DEF Promised, NoReport
<1> QED BY <1>6, <1>7, <1>8, <1>9, <1>10

\* What is left of a list one entry of which is taken out.
LEMMA RemoveAtFacts ==
    ASSUME NEW es \in Seq(Entries), NEW i \in DOMAIN es,
           \A j, k \in DOMAIN es : es[j].id = es[k].id => j = k
    PROVE  /\ RemoveAt(es, i) \in Seq(Entries)
           /\ \A k \in DOMAIN RemoveAt(es, i) :
                RemoveAt(es, i)[k] = es[IF k < i THEN k ELSE k + 1]
           /\ \A k \in DOMAIN RemoveAt(es, i) :
                (IF k < i THEN k ELSE k + 1) \in DOMAIN es
           /\ \A j, k \in DOMAIN RemoveAt(es, i) :
                RemoveAt(es, i)[j].id = RemoveAt(es, i)[k].id => j = k
           /\ IdsOf(RemoveAt(es, i)) = IdsOf(es) \ {es[i].id}
<1> DEFINE a == SubSeq(es, 1, i - 1)
           b == SubSeq(es, i + 1, Len(es))
           s == a \o b
<1>1. i \in Nat /\ i >= 1 /\ i <= Len(es) /\ Len(es) \in Nat
  OBVIOUS
<1>2. /\ a \in Seq(Entries) /\ Len(a) = i - 1
      /\ \A k \in 1..(i - 1) : a[k] = es[k]
  BY <1>1
<1>3. /\ b \in Seq(Entries) /\ Len(b) = Len(es) - i
      /\ \A k \in 1..(Len(es) - i) : b[k] = es[i + k]
  BY <1>1
<1>4. RemoveAt(es, i) = s
  BY DEF RemoveAt
<1> HIDE DEF a, b
<1>5. /\ s \in Seq(Entries) /\ Len(s) = Len(a) + Len(b)
      /\ \A k \in 1..Len(a) : s[k] = a[k]
      /\ \A k \in 1..Len(b) : s[Len(a) + k] = b[k]
  <2>1. a \in Seq(Entries) /\ b \in Seq(Entries)
    BY <1>2, <1>3
  <2>2. /\ a \o b \in Seq(Entries) /\ Len(a \o b) = Len(a) + Len(b)
        /\ \A k \in 1..Len(a) : (a \o b)[k] = a[k]
        /\ \A k \in 1..Len(b) : (a \o b)[Len(a) + k] = b[k]
    BY <2>1, ConcatFacts
  <2> QED BY <2>2
<1> HIDE DEF s
<1>6. Len(s) = Len(es) - 1
  BY <1>1, <1>2, <1>3, <1>5
<1>7. ASSUME NEW k \in 1..Len(s)
      PROVE  /\ s[k] = es[IF k < i THEN k ELSE k + 1]
             /\ (IF k < i THEN k ELSE k + 1) \in 1..Len(es)
             /\ (IF k < i THEN k ELSE k + 1) # i
  <2>1. CASE k < i
    <3>1. k \in 1..(i - 1) /\ k \in 1..Len(a)
      BY <1>1, <1>2, <2>1
    <3> QED BY <1>1, <1>2, <1>5, <2>1, <3>1
  <2>2. CASE ~(k < i)
    <3>1. k - (i - 1) \in 1..Len(b) /\ Len(a) + (k - (i - 1)) = k /\ i + (k - (i - 1)) = k + 1
      BY <1>1, <1>2, <1>3, <1>6, <2>2
    <3>2. s[k] = b[k - (i - 1)]
      BY <1>5, <3>1
    <3>3. b[k - (i - 1)] = es[k + 1]
      BY <1>3, <3>1
    <3>4. k + 1 \in 1..Len(es) /\ k + 1 # i
      BY <1>1, <1>6, <2>2
    <3> QED BY <2>2, <3>2, <3>3, <3>4
  <2> QED BY <2>1, <2>2
<1>8. \A j, k \in 1..Len(s) : s[j].id = s[k].id => j = k
  <2> TAKE j, k \in 1..Len(s)
  <2> HAVE s[j].id = s[k].id
  <2>1. (IF j < i THEN j ELSE j + 1) = (IF k < i THEN k ELSE k + 1)
    BY <1>7
  <2> QED BY <1>1, <1>5, <2>1
<1>9. IdsOf(s) \subseteq IdsOf(es) \ {es[i].id}
  BY <1>5, <1>7 DEF IdsOf
<1>10. IdsOf(es) \ {es[i].id} \subseteq IdsOf(s)
  <2>1. ASSUME NEW j \in 1..Len(es), j # i PROVE es[j].id \in IdsOf(s)
    <3>1. CASE j < i
      <4>1. j \in 1..Len(s)
        BY <1>1, <1>6, <3>1
      <4> QED BY <1>5, <1>7, <3>1, <4>1 DEF IdsOf
    <3>2. CASE j > i
      <4>1. j - 1 \in 1..Len(s) /\ ~(j - 1 < i) /\ (j - 1) + 1 = j
        BY <1>1, <1>6, <2>1, <3>2
      <4> DEFINE p == j - 1
      <4>2. p \in 1..Len(s) /\ s[p] = es[j]
        BY <1>7, <4>1
      <4> HIDE DEF p
      <4> QED BY <1>5, <4>2 DEF IdsOf
    <3> QED BY <1>1, <2>1, <3>1, <3>2
  <2> QED BY <2>1 DEF IdsOf
<1> QED BY <1>4, <1>5, <1>7, <1>8, <1>9, <1>10

\* A deleted run: its recording is owed before the index.
LEMMA DeleteKeepsInv ==
    ASSUME HistoryInv, NEW id \in Ids, Delete(id)
    PROVE  HistoryInv'
<1> USE DEF HistoryInv
<1> DEFINE at == CHOOSE k \in DOMAIN entries : entries[k].id = id
<1>1. at \in DOMAIN entries /\ entries[at].id = id
  BY DEF Delete, IdsOf
<1> HIDE DEF at
<1>2. /\ Ready /\ held' \in {held, 0} /\ entries' = RemoveAt(entries, at)
      /\ todo' = <<Unlink(id), Index>>
      /\ report' = [call |-> "delete", ids |-> {id}]
      /\ kept' = kept \ {id}
      /\ UNCHANGED <<loaded, index, wavs, limit, recorded, asked, misses, gone, stuck>>
  BY DEF Delete, at
<1>3. /\ entries' \in Seq(Entries)
      /\ \A k \in DOMAIN entries' : \E j \in DOMAIN entries : entries'[k] = entries[j]
      /\ \A j, k \in DOMAIN entries' : entries'[j].id = entries'[k].id => j = k
      /\ IdsOf(entries') = IdsOf(entries) \ {id}
  <2>1. entries \in Seq(Entries)
    BY DEF WellFormed, HistoryTypeOK
  <2>2. \A j, k \in DOMAIN entries : entries[j].id = entries[k].id => j = k
    BY DEF Recorded, Numbered
  <2> QED BY <1>1, <1>2, <2>1, <2>2, RemoveAtFacts
<1>4. /\ todo' \in Seq(Tasks) /\ todo' # <<>> /\ IndexLast(todo')
      /\ Owing(todo', "write") = {} /\ Owing(todo', "unlink") = {id}
  <2> DEFINE s == <<Unlink(id)>>
  <2>1. /\ s \in Seq(Tasks) /\ \A k \in DOMAIN s : s[k].op = "unlink"
        /\ Owing(s, "write") = {} /\ Owing(s, "unlink") = {id}
    <3>1. Unlink(id) \in Tasks /\ Unlink(id).op = "unlink" /\ Unlink(id).id = id
      BY DEF Unlink, Tasks
    <3> QED BY <3>1 DEF Owing
  <2>2. <<Unlink(id), Index>> = s \o <<Index>>
    OBVIOUS
  <2> HIDE DEF s
  <2>3. \A k \in DOMAIN s : s[k].op # "index"
    BY <2>1
  <2> QED BY <1>2, <2>1, <2>2, <2>3, ThenIndex
<1>5. WellFormed'
  BY <1>2, <1>3, <1>4, DictationHistoryConstants DEF WellFormed, HistoryTypeOK, Ready
<1>6. IdsOf(entries) \subseteq 1..recorded /\ id \in IdsOf(entries)
  BY <1>1 DEF Recorded, Numbered, IdsOf
<1>7. Recorded'
  <2>1. IdsOf(entries)' \subseteq 1..recorded'
    BY <1>2, <1>3, <1>6 DEF IdsOf
  <2> QED BY <1>2, <1>3, <2>1 DEF Recorded, Numbered, IdsOf
<1>8. KeptIsKept'
  <2>1. kept' \subseteq IdsOf(entries')
    BY <1>2, <1>3 DEF KeptIsKept, Ready
  <2>2. Sounded(entries', kept', wavs)
    BY <1>2, <1>3 DEF KeptIsKept, Sounded
  <2> QED BY <1>2, <1>4, <2>1, <2>2 DEF KeptIsKept, Sounded, Owed, IdsOf
<1>9. GoneIsGone'
  BY <1>2, <1>3, <1>4 DEF GoneIsGone, Owed, IdsOf
<1>10. Promised'
  <2>1. {id} \cap IdsOf(entries') = {}
    BY <1>3
  <2> QED BY <1>2, <1>4, <1>6, <2>1 DEF Promised, Owed, IdsOf
<1> QED BY <1>5, <1>7, <1>8, <1>9, <1>10

\* The history is cleared: every recording there is, listed or not, is owed.
LEMMA HistoryClearKeepsInv ==
    ASSUME HistoryInv, Clear
    PROVE  HistoryInv'
<1> USE DEF HistoryInv
<1> DEFINE u == Unlinks(entries)
           o == SetToSeq({Unlink(id) : id \in Orphans(entries)})
           w == u \o o
<1>1. /\ Ready /\ held' \in {held, 0} /\ entries' = <<>>
      /\ todo' = w \o <<Index>>
      /\ report' = [call |-> "delete", ids |-> IdsOf(entries)]
      /\ kept' = {}
      /\ UNCHANGED <<loaded, index, wavs, limit, recorded, asked, misses, gone, stuck>>
  BY DEF Clear
<1>2. entries \in Seq(Entries) /\ Orphans(entries) \in SUBSET Ids
  BY DEF WellFormed, HistoryTypeOK, Orphans
<1>3. /\ u \in Seq(Tasks) /\ \A k \in DOMAIN u : u[k].op = "unlink"
      /\ Owing(u, "write") = {} /\ Owing(u, "unlink") = IdsOf(entries)
  BY <1>2, OwingUnlinks
<1>4. /\ o \in Seq(Tasks) /\ \A k \in DOMAIN o : o[k].op = "unlink"
      /\ Owing(o, "write") = {}
  BY <1>2, OwingOrphans
<1> HIDE DEF u, o
<1>5. /\ w \in Seq(Tasks) /\ Owing(w, "write") = {}
      /\ IdsOf(entries) \subseteq Owing(w, "unlink")
  <2>1. w \in Seq(Tasks) /\ \A op : Owing(w, op) = Owing(u, op) \cup Owing(o, op)
    BY <1>3, <1>4, OwingConcat
  <2> QED BY <1>3, <1>4, <2>1
<1>6. \A k \in DOMAIN w : w[k].op # "index"
  <2>1. /\ Len(w) = Len(u) + Len(o)
        /\ \A k \in 1..Len(u) : w[k] = u[k]
        /\ \A k \in 1..Len(o) : w[Len(u) + k] = o[k]
    BY <1>3, <1>4, ConcatFacts
  <2> HIDE DEF w
  <2> SUFFICES ASSUME NEW k \in 1..Len(w) PROVE w[k].op = "unlink"
    BY <1>5
  <2>2. CASE k \in 1..Len(u)
    BY <1>3, <2>1, <2>2
  <2>3. CASE k \notin 1..Len(u)
    <3>1. k - Len(u) \in 1..Len(o) /\ Len(u) + (k - Len(u)) = k
      BY <1>3, <1>4, <1>5, <2>1, <2>3
    <3>2. w[k] = o[k - Len(u)]
      BY <2>1, <3>1
    <3> QED BY <1>4, <3>1, <3>2
  <2> QED BY <2>2, <2>3
<1> HIDE DEF w
<1>7. /\ todo' \in Seq(Tasks) /\ todo' # <<>> /\ IndexLast(todo')
      /\ Owing(todo', "write") = {}
      /\ IdsOf(entries) \subseteq Owing(todo', "unlink")
  BY <1>1, <1>5, <1>6, ThenIndex
<1>8. IdsOf(<<>>) = {} /\ <<>> \in Seq(Entries) /\ DOMAIN <<>> = {}
  BY DEF IdsOf
<1>9. WellFormed'
  BY <1>1, <1>7, <1>8, DictationHistoryConstants DEF WellFormed, HistoryTypeOK, Ready
<1>10. Recorded' /\ KeptIsKept' /\ GoneIsGone'
  BY <1>1, <1>7, <1>8
     DEF Recorded, Numbered, KeptIsKept, Sounded, GoneIsGone, Owed, IdsOf
<1>11. Promised'
  <2>1. IdsOf(entries) \subseteq 1..recorded
    BY DEF Recorded, Numbered
  <2> QED BY <1>1, <1>7, <1>8, <2>1 DEF Promised, Owed, IdsOf
<1> QED BY <1>9, <1>10, <1>11

\* A cleanup's answer changes the text of a run still listed, and no more.
LEMMA AnsweredKeepsInv ==
    ASSUME HistoryInv, NEW text \in 1..MaxText, Answered(text)
    PROVE  HistoryInv'
<1> USE DEF HistoryInv
<1>1. /\ Ready /\ asked' = 0 /\ report' = NoReport
      /\ todo' = <<Index>> \/ todo' = <<>>
      /\ UNCHANGED <<loaded, index, wavs, limit, recorded, held, misses, kept, gone, stuck>>
  BY DEF Answered
<1>2. /\ entries' \in Seq(Entries) /\ DOMAIN entries' = DOMAIN entries
      /\ \A k \in DOMAIN entries : /\ entries'[k].id = entries[k].id
                                   /\ entries'[k].audio = entries[k].audio
  <2>1. entries \in Seq(Entries)
    BY DEF WellFormed, HistoryTypeOK
  <2>2. ASSUME NEW e \in Entries
        PROVE  LET f == [e EXCEPT !.text = text]
               IN  f \in Entries /\ f.id = e.id /\ f.audio = e.audio
    BY DEF Entries
  <2>3. entries' = [k \in DOMAIN entries |->
                      IF entries[k].id = asked THEN [entries[k] EXCEPT !.text = text]
                                               ELSE entries[k]]
    BY DEF Answered
  <2>4. \A k \in DOMAIN entries : entries[k] \in Entries
    BY <2>1
  <2>5. DOMAIN entries' = 1..Len(entries)
    BY <2>1, <2>3
  <2>6. \A k \in DOMAIN entries : /\ entries'[k] \in Entries
                                  /\ entries'[k].id = entries[k].id
                                  /\ entries'[k].audio = entries[k].audio
    BY <2>2, <2>3, <2>4
  <2>7. entries' \in [1..Len(entries) -> Entries]
    BY <2>1, <2>3, <2>6
  <2> QED BY <2>1, <2>5, <2>6, <2>7
<1>3. IdsOf(entries') = IdsOf(entries)
  BY <1>2 DEF IdsOf
<1>4. /\ todo' \in Seq(Tasks) /\ IndexLast(todo')
      /\ \A op : op # "index" => Owing(todo', op) = {}
  <2>1. CASE todo' = <<>>
    BY <2>1, OwingNothing DEF IndexLast
  <2>2. CASE todo' = <<Index>>
    BY <2>2 DEF IndexLast, Owing, Index, Tasks
  <2> QED BY <1>1, <2>1, <2>2
<1>5. WellFormed'
  BY <1>1, <1>2, <1>4, DictationHistoryConstants
     DEF WellFormed, HistoryTypeOK, Ready, NoReport
<1>6. Recorded'
  BY <1>1, <1>2, <1>3 DEF Recorded, Numbered, IdsOf
<1>7. KeptIsKept'
  BY <1>1, <1>2, <1>3, <1>4 DEF KeptIsKept, Sounded, Owed, IdsOf
<1>8. GoneIsGone'
  BY <1>1, <1>3, <1>4 DEF GoneIsGone, Owed, IdsOf
<1>9. Promised'
  BY <1>1 DEF Promised, NoReport
<1> QED BY <1>5, <1>6, <1>7, <1>8, <1>9

\* The calls that leave the list and the disk alone.
LEMMA OthersKeepInv ==
    ASSUME HistoryInv,
           Unanswered \/ Stop \/ (\E id \in Ids : Reprocess(id) \/ Play(id))
             \/ UNCHANGED historyVars
    PROVE  HistoryInv'
<1> USE DEF HistoryInv
<1>1. /\ UNCHANGED <<loaded, entries, index, wavs, limit, todo, report, recorded,
                     kept, gone, stuck>>
      /\ asked' \in 0..MaxRuns /\ held' \in 0..MaxRuns
  BY DictationHistoryConstants
     DEF Unanswered, Stop, Reprocess, Play, historyVars, WellFormed, HistoryTypeOK, Ids
<1>2. WellFormed'
  BY <1>1 DEF WellFormed, HistoryTypeOK, IndexLast
<1>3. Recorded' /\ KeptIsKept' /\ GoneIsGone' /\ Promised'
  BY <1>1 DEF Recorded, Numbered, KeptIsKept, Sounded, GoneIsGone, Promised, Owed,
              Owing, IdsOf
<1> QED BY <1>2, <1>3

-----------------------------------------------------------------------------
(* The disk work and the crash.                                            *)

LEMMA WriteWavKeepsInv ==
    ASSUME HistoryInv, WriteWav
    PROVE  HistoryInv'
<1> USE DEF HistoryInv
<1> DEFINE h == Head(todo)
<1>1. /\ todo # <<>> /\ h.op = "write" /\ wavs' = wavs \cup {h.id} /\ todo' = Tail(todo)
      /\ UNCHANGED <<loaded, entries, index, limit, report, recorded, asked, held,
                     misses, kept, gone, stuck>>
  BY DEF WriteWav
<1>2. /\ todo' \in Seq(Tasks) /\ IndexLast(todo') /\ h \in Tasks
      /\ Owing(todo', "unlink") = Owing(todo, "unlink")
      /\ Owing(todo', "write") \subseteq Owing(todo, "write")
      /\ Owing(todo, "write") \subseteq Owing(todo', "write") \cup {h.id}
      /\ h.id \in Owing(todo, "write")
  BY <1>1, OwingTail DEF WellFormed
<1> HIDE DEF h
<1>3. h.id \in Ids
  BY <1>1, <1>2 DEF Tasks, Index
<1>4. WellFormed'
  BY <1>1, <1>2, <1>3 DEF WellFormed, HistoryTypeOK
<1>5. Recorded'
  BY <1>1 DEF Recorded, Numbered, IdsOf
<1>6. KeptIsKept'
  BY <1>1, <1>2 DEF KeptIsKept, Sounded, Owed, IdsOf
<1>7. GoneIsGone'
  BY <1>1, <1>2 DEF GoneIsGone, Owed, IdsOf
<1>8. Promised'
  BY <1>1, <1>2 DEF Promised, Sounded, Owed, IdsOf
<1> QED BY <1>4, <1>5, <1>6, <1>7, <1>8

LEMMA UnlinkWavKeepsInv ==
    ASSUME HistoryInv, UnlinkWav
    PROVE  HistoryInv'
<1> USE DEF HistoryInv
<1> DEFINE h == Head(todo)
<1>1. /\ todo # <<>> /\ h.op = "unlink" /\ todo' = Tail(todo)
      /\ \/ wavs' = wavs \ {h.id} /\ UNCHANGED stuck
         \/ h.id = held /\ UNCHANGED wavs /\ stuck' = stuck \cup {held}
      /\ UNCHANGED <<loaded, entries, index, limit, report, recorded, asked, held,
                     misses, kept, gone>>
  BY DEF UnlinkWav
<1>2. /\ todo' \in Seq(Tasks) /\ IndexLast(todo') /\ h \in Tasks
      /\ Owing(todo', "write") = Owing(todo, "write")
      /\ Owing(todo', "unlink") \subseteq Owing(todo, "unlink")
      /\ Owing(todo, "unlink") \subseteq Owing(todo', "unlink") \cup {h.id}
      /\ h.id \in Owing(todo, "unlink")
  BY <1>1, OwingTail DEF WellFormed
<1> HIDE DEF h
<1>3. h.id \in Ids
  BY <1>1, <1>2 DEF Tasks, Index
<1>4. /\ wavs' \subseteq wavs /\ wavs \subseteq wavs' \cup {h.id}
      /\ stuck \subseteq stuck' /\ stuck' \subseteq stuck \cup {h.id}
      /\ h.id \in wavs' => h.id \in stuck'
  BY <1>1
<1>5. WellFormed'
  BY <1>1, <1>2, <1>3, <1>4 DEF WellFormed, HistoryTypeOK
<1>6. Recorded'
  BY <1>1 DEF Recorded, Numbered, IdsOf
<1>7. KeptIsKept'
  BY <1>1, <1>2, <1>4 DEF KeptIsKept, Sounded, Owed, IdsOf
<1>8. GoneIsGone'
  BY <1>1, <1>2, <1>4 DEF GoneIsGone, Owed, IdsOf
<1>9. Promised'
  <2>1. CASE report.call = "add"
    BY <1>1, <1>2, <1>4, <2>1 DEF Promised, Sounded, Owed, IdsOf
  <2>2. CASE report.call = "delete"
    BY <1>1, <1>2, <1>4, <2>2 DEF Promised, Owed, IdsOf
  <2> QED BY <1>1, <2>1, <2>2 DEF Promised
<1> QED BY <1>5, <1>6, <1>7, <1>8, <1>9

LEMMA SaveIndexKeepsInv ==
    ASSUME HistoryInv, SaveIndex
    PROVE  HistoryInv'
<1> USE DEF HistoryInv
<1>1. /\ todo # <<>> /\ Head(todo).op = "index" /\ todo' = Tail(todo)
      /\ report' = NoReport
      /\ UNCHANGED <<loaded, entries, wavs, limit, recorded, asked, held, stuck>>
  BY DEF SaveIndex
<1>2. /\ todo' = <<>> /\ Owing(todo, "write") = {} /\ Owing(todo, "unlink") = {}
      /\ todo' \in Seq(Tasks) /\ IndexLast(todo')
  BY <1>1, OwingTail DEF WellFormed
<1>3. \A op : Owed(op)' = {}
  BY <1>2, OwingNothing DEF Owed
<1>4. loaded # "no"
  BY <1>1 DEF WellFormed
<1>5. Promised'
  BY <1>2 DEF Promised
<1>6. CASE UNCHANGED <<index, kept, gone>>
  <2>1. WellFormed'
    BY <1>1, <1>2, <1>6 DEF WellFormed, HistoryTypeOK, NoReport
  <2>2. Recorded' /\ KeptIsKept' /\ GoneIsGone'
    BY <1>1, <1>3, <1>6 DEF Recorded, Numbered, KeptIsKept, Sounded, GoneIsGone, IdsOf
  <2> QED BY <1>5, <2>1, <2>2
<1>7. CASE /\ index' = entries
           /\ kept' = IF report.call = "add" THEN kept \cup report.ids ELSE kept
           /\ gone' = IF report.call = "delete" THEN gone \cup report.ids ELSE gone
  <2>1. kept' \subseteq IdsOf(entries) /\ Sounded(entries, kept', wavs)
    BY <1>1, <1>2, <1>4, <1>7 DEF KeptIsKept, Promised, Sounded, Owed
  <2>2. /\ gone' \subseteq 1..recorded /\ gone' \cap IdsOf(entries) = {}
        /\ gone' \cap wavs \subseteq stuck
    BY <1>1, <1>2, <1>7 DEF Recorded, GoneIsGone, Promised, Owed
  <2>3. recorded \in 0..MaxRuns /\ IdsOf(entries) \subseteq 1..recorded
    BY DEF WellFormed, HistoryTypeOK, Recorded, Numbered
  <2>4. kept' \subseteq Ids /\ gone' \subseteq Ids
    BY <2>1, <2>2, <2>3, DictationHistoryConstants DEF Ids
  <2>5. WellFormed'
    BY <1>1, <1>2, <1>7, <2>4 DEF WellFormed, HistoryTypeOK, NoReport
  <2>6. Recorded'
    BY <1>1, <1>7, <2>2 DEF Recorded, Numbered, IdsOf
  <2>7. KeptIsKept'
    BY <1>1, <1>3, <1>7, <2>1 DEF KeptIsKept, Sounded, IdsOf
  <2>8. GoneIsGone'
    BY <1>1, <1>3, <1>7, <2>2 DEF GoneIsGone, IdsOf
  <2> QED BY <1>5, <2>5, <2>6, <2>7, <2>8
<1> QED BY <1>6, <1>7 DEF SaveIndex

LEMMA HistoryCrashKeepsInv ==
    ASSUME HistoryInv, HistoryCrash
    PROVE  HistoryInv'
<1> USE DEF HistoryInv, HistoryCrash
<1>1. IdsOf(<<>>) = {} /\ <<>> \in Seq(Entries) /\ <<>> \in Seq(Tasks) /\ DOMAIN <<>> = {}
  BY DEF IdsOf
<1>2. \A op : Owed(op)' = {}
  BY OwingNothing DEF Owed
<1>3. WellFormed'
  BY <1>1, DictationHistoryConstants DEF WellFormed, HistoryTypeOK, IndexLast, NoReport
<1>4. Recorded' /\ KeptIsKept' /\ GoneIsGone' /\ Promised'
  BY <1>1, <1>2
     DEF Recorded, Numbered, KeptIsKept, Sounded, GoneIsGone, Promised, NoReport, IdsOf
<1> QED BY <1>3, <1>4

\* What the history reported kept or deleted is still so, for any number of
\* runs, budgets, failures and crashes: the order of its writes - recording,
\* removals, index - never leaves a moment in which a report is not yet, or no
\* longer, true.
THEOREM HistoryIsTrue ==
    HistoryInit /\ [][HistoryNext]_historyVars => []HistoryAsReported
<1>1. HistoryInv /\ [HistoryNext]_historyVars => HistoryInv'
  <2> SUFFICES ASSUME HistoryInv, [HistoryNext]_historyVars PROVE HistoryInv'
    OBVIOUS
  <2> QED
    BY LoadKeepsInv, AddKeepsInv, SetLimitKeepsInv, DeleteKeepsInv, HistoryClearKeepsInv,
       AnsweredKeepsInv, OthersKeepInv, WriteWavKeepsInv, UnlinkWavKeepsInv,
       SaveIndexKeepsInv, HistoryCrashKeepsInv DEF HistoryNext
<1>2. HistoryInv => HistoryAsReported
  BY DEF HistoryInv, WellFormed, KeptIsKept, GoneIsGone, Sounded, HistoryAsReported,
         ReportedKeptIsKept, ReportedDeletedIsGone
<1> QED BY HistoryInitInv, <1>1, <1>2, PTL

=============================================================================
