------------------------------ MODULE MCStores ------------------------------
(***************************************************************************)
(* The three stores on small instances: what the engine learned, the       *)
(* dictation history and the snippets.  They share no state, so each       *)
(* behaviour runs one of them; the first in three slices, whose product    *)
(* adds nothing: imports without packs and packs with a single archive,    *)
(* where what is typed is learned and stays, and typing and forgetting     *)
(* with a single archive and no packs.                                     *)
(***************************************************************************)
EXTENDS UserData, DictationHistory, Snippets

CONSTANTS mine, theirs, pack

ForeignArchives ==
    {[has |-> ModelFiles, learned |-> {theirs}, caps |-> {theirs}, injected |-> {},
      ppm |-> {theirs}, packs |-> {}],
     [has |-> ModelFiles, learned |-> {theirs}, caps |-> {}, injected |-> {},
      ppm |-> {theirs}, packs |-> {pack}],
     [has |-> {"ppm"}, learned |-> {}, caps |-> {}, injected |-> {},
      ppm |-> {theirs}, packs |-> {}]}

ImportedSnippets ==
    {<<[label |-> "Kind", value |-> "a"]>>,
     <<[label |-> "New", value |-> Blank], [label |-> "Kind", value |-> Blank]>>}

VARIABLE store
Stores == {"imports", "packs", "typing", "history", "snippets"}

StoresInit ==
    /\ store \in Stores /\ Init /\ HistoryInit /\ SnippetInit
    /\ store # "history" => limit = 0

\* Slice bounds of the engine's data.
PlainTyping == \E w \in Own : EndSentence({w}) /\ mem.learned \cup {w} = mem'.learned
PackFree == disk'.packs = {} /\ (imp'.stage = "files" => imp'.src.packs = {})
OneArchive == Cardinality(archives') <= 1

StoresNext ==
    /\ UNCHANGED store
    /\ \/ /\ store = "imports" /\ (KeepingNext \/ PlainTyping) /\ PackFree
          /\ UNCHANGED <<historyVars, snippetVars>>
       \/ /\ store = "packs" /\ (KeepingNext \/ PlainTyping) /\ OneArchive
          /\ UNCHANGED <<historyVars, snippetVars>>
       \/ /\ store = "typing" /\ Next /\ PackFree /\ OneArchive
          /\ UNCHANGED <<historyVars, snippetVars>>
       \/ /\ store = "history" /\ HistoryNext
          /\ UNCHANGED <<vars, snippetVars>>
       \/ /\ store = "snippets" /\ SnippetNext
          /\ UNCHANGED <<vars, historyVars>>

StoresSpec == StoresInit /\ [][StoresNext]_<<store, vars, historyVars, snippetVars>>
=============================================================================
