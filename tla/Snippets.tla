------------------------------ MODULE Snippets ------------------------------
(***************************************************************************)
(* The quick-insert snippets: the store and its file (snippets.py), the    *)
(* offer to save a just-typed e-mail, phone number or address with its     *)
(* ledger of answers (keyboard_bridge.py), and the two QML surfaces that   *)
(* act on them from a state of their own: the offer's toast, which runs on *)
(* a timer, and the Snippets window, whose sheet and editor remember an    *)
(* index into a list that offers and imports change underneath them.       *)
(*                                                                         *)
(* One kind of value is detected; its label is Kind, a second one "Kind 2".*)
(* Colours only ride along and are left out.                               *)
(***************************************************************************)
EXTENDS Naturals, Sequences, SequencesExt, FiniteSets

CONSTANTS Values,     \* what can be typed and offered
          MaxSlots,   \* snippets the store holds
          Remembered, \* answers the ledger holds
          Imported,   \* snippet lists an import may bring
          MaxUnwritten \* bound: failed reads and writes

Blank == "blank"
Labels == {"Kind", "Kind 2", "New", "renamed"}
Slots == [label: Labels, value: Values \cup {Blank}]

ASSUME SnippetsConstants ==
    /\ MaxSlots \in Nat \ {0} /\ Remembered \in Nat \ {0} /\ MaxUnwritten \in Nat
    /\ Blank \notin Values
    /\ \A l \in Imported : l \in Seq(Slots) /\ Len(l) \in 1..MaxSlots

VARIABLES
    slots,     \* the list in memory, and in the window
    file,      \* the list on disk
    offer,     \* the value pending an answer, or Blank
    ledger,    \* values already answered, oldest first
    toast,     \* the value the toast shows, or Blank
    armed,     \* the toast's buttons react
    sheet,     \* the window: "grid", or the "menu" or "edit" of one snippet
    privacy,   \* a password field has the focus
    detection, \* the setting
    unwritten  \* failures met so far

snippetVars == <<slots, file, offer, ledger, toast, armed, sheet, privacy, detection, unwritten>>

Default == <<[label |-> "Kind", value |-> Blank]>>
Grid == [view |-> "grid", index |-> 0, identity |-> Default[1]]
ValuesOf(list) == {list[k].value : k \in DOMAIN list} \ {Blank}

SnippetTypeOK ==
    /\ slots \in Seq(Slots) /\ file \in Seq(Slots)
    /\ Len(slots) <= MaxSlots /\ Len(ledger) <= Remembered
    /\ {offer, toast} \subseteq Values \cup {Blank}
    /\ sheet.view \in {"grid", "menu", "edit"}

\* The first load finds no file, seeds the blank slots and writes them.
SnippetInit ==
    /\ slots = Default /\ file = Default
    /\ offer = Blank /\ ledger = <<>> /\ toast = Blank /\ armed = FALSE
    /\ sheet = Grid /\ privacy = FALSE /\ detection = TRUE /\ unwritten = 0

CanMiss == unwritten < MaxUnwritten

\* Every change is written at once; a failure is logged and memory keeps it.
Persist(list) ==
    \/ file' = list /\ UNCHANGED unwritten
    \/ CanMiss /\ unwritten' = unwritten + 1 /\ UNCHANGED file

\* (Slip) Only a sheet whose index ran off the list closes.
AnnounceByIndex(list, at) ==
    sheet' = IF at.view # "grid" /\ at.index \notin DOMAIN list THEN Grid ELSE at

\* The change is announced, and a sheet or editor that is no longer on its
\* snippet closes.
Announce(list, at) ==
    sheet' = IF at.view # "grid" /\ ~(at.index \in DOMAIN list /\ list[at.index] = at.identity)
               THEN Grid ELSE at

Changed(list, at) == slots' = list /\ Persist(list) /\ Announce(list, at)

-----------------------------------------------------------------------------
(* The offer.                                                              *)

\* A word boundary after a value in the text: offered unless one is pending,
\* it was answered, it is already saved, or nothing may be stored now.
MaybeOffer(v) ==
    /\ detection /\ ~privacy /\ offer = Blank
    /\ ~Contains(ledger, v) /\ v \notin ValuesOf(slots)
    /\ offer' = v /\ toast' = v /\ armed' = FALSE
    /\ UNCHANGED <<slots, file, ledger, sheet, privacy, detection, unwritten>>

\* The toast's buttons come alive after a moment.
Arm ==
    /\ toast # Blank /\ ~armed
    /\ armed' = TRUE
    /\ UNCHANGED <<slots, file, offer, ledger, toast, sheet, privacy, detection, unwritten>>

Remember(v) ==
    LET told == IF Contains(ledger, v) THEN ledger ELSE Append(ledger, v)
    IN  ledger' = SubSeq(told, Len(told) - Min({Remembered, Len(told)}) + 1, Len(told))

HideToast == toast' = Blank /\ armed' = FALSE

\* Where an accepted value goes: the first slot with its label if blank, or
\* a new slot, numbered when there is one already.
WithAccepted(v) ==
    LET labelled == {k \in DOMAIN slots : slots[k].label = "Kind"}
        first == CHOOSE k \in labelled : \A j \in labelled : k <= j
        numbered == \E k \in DOMAIN slots : slots[k].label \in {"Kind", "Kind 2"}
    IN  IF labelled # {} /\ slots[first].value = Blank
          THEN [slots EXCEPT ![first].value = v]
          ELSE Append(slots, [label |-> IF numbered THEN "Kind 2" ELSE "Kind", value |-> v])

\* Save is tapped: the offer is taken and remembered, the value stored; a
\* full list refuses it, and says so.
AcceptOffer ==
    /\ toast # Blank /\ armed /\ HideToast
    /\ offer' = Blank
    /\ IF offer = Blank THEN UNCHANGED <<slots, file, ledger, sheet, unwritten>>
       ELSE /\ Remember(offer)
            /\ IF Len(WithAccepted(offer)) > MaxSlots
                 THEN UNCHANGED <<slots, file, sheet, unwritten>>
                 ELSE Changed(WithAccepted(offer), sheet)
    /\ UNCHANGED <<privacy, detection>>

\* The cross is tapped or eight seconds pass: ignoring it is an answer.
DismissOffer ==
    /\ toast # Blank /\ HideToast
    /\ offer' = Blank
    /\ IF offer = Blank THEN UNCHANGED ledger ELSE Remember(offer)
    /\ UNCHANGED <<slots, file, sheet, privacy, detection, unwritten>>

\* A live offer whose text is gone is dropped, unanswered, and its toast too.
Withdrawn == IF offer = Blank THEN UNCHANGED <<offer, toast, armed>>
                              ELSE offer' = Blank /\ HideToast

\* The typing context is reset: an app switch, a mode change.
ResetContext ==
    /\ Withdrawn
    /\ UNCHANGED <<slots, file, ledger, sheet, privacy, detection, unwritten>>

\* Focus enters a password field, which resets the context too, or leaves it.
SetPrivacy(on) ==
    /\ privacy # on /\ privacy' = on
    /\ IF on THEN Withdrawn ELSE UNCHANGED <<offer, toast, armed>>
    /\ UNCHANGED <<slots, file, ledger, sheet, detection, unwritten>>

SetDetection(on) ==
    /\ detection # on /\ detection' = on
    /\ IF on THEN UNCHANGED <<offer, toast, armed>> ELSE Withdrawn
    /\ UNCHANGED <<slots, file, ledger, sheet, privacy, unwritten>>

-----------------------------------------------------------------------------
(* The window.                                                             *)

On(view, k) == [view |-> view, index |-> k, identity |-> slots[k]]

\* A tile opens its snippet's actions, or a blank one's editor.
OpenMenu(k) ==
    /\ sheet.view = "grid" /\ k \in DOMAIN slots
    /\ sheet' = On("menu", k)
    /\ UNCHANGED <<slots, file, offer, ledger, toast, armed, privacy, detection, unwritten>>
BeginEdit(k) ==
    /\ k \in DOMAIN slots
    /\ \/ sheet.view = "grid" /\ slots[k].value = Blank
       \/ sheet.view = "menu" /\ sheet.index = k
    /\ sheet' = On("edit", k)
    /\ UNCHANGED <<slots, file, offer, ledger, toast, armed, privacy, detection, unwritten>>
CloseSheet ==
    /\ sheet.view # "grid" /\ sheet' = Grid
    /\ UNCHANGED <<slots, file, offer, ledger, toast, armed, privacy, detection, unwritten>>

\* The editor saves label and value over the snippet at its index, and
\* returns to the grid whatever the answer.
SaveEdit(slot) ==
    /\ sheet.view = "edit"
    /\ IF sheet.index \in DOMAIN slots
         THEN slots' = [slots EXCEPT ![sheet.index] = slot] /\ Persist(slots')
         ELSE UNCHANGED <<slots, file, unwritten>>
    /\ sheet' = Grid
    /\ UNCHANGED <<offer, ledger, toast, armed, privacy, detection>>

AddSnippet ==
    /\ sheet.view = "grid" /\ Len(slots) < MaxSlots
    /\ Changed(Append(slots, [label |-> "New", value |-> Blank]), sheet)
    /\ UNCHANGED <<offer, ledger, toast, armed, privacy, detection>>

DeleteSnippet ==
    /\ sheet.view = "menu"
    /\ IF sheet.index \in DOMAIN slots
         THEN slots' = RemoveAt(slots, sheet.index) /\ Persist(slots')
         ELSE UNCHANGED <<slots, file, unwritten>>
    /\ sheet' = Grid
    /\ UNCHANGED <<offer, ledger, toast, armed, privacy, detection>>

\* The sheet follows its snippet: it points at the destination before the
\* list changes.
MoveSnippet(direction) ==
    /\ sheet.view = "menu"
    /\ LET target == IF direction = "up" THEN sheet.index - 1 ELSE sheet.index + 1
       IN /\ target \in DOMAIN slots
          /\ Changed([slots EXCEPT ![sheet.index] = slots[target],
                                   ![target] = slots[sheet.index]],
                     [sheet EXCEPT !.index = target])
    /\ UNCHANGED <<offer, ledger, toast, armed, privacy, detection>>

\* An import replaced the file and the store re-reads it (an unreadable file
\* gives the default slots, in memory only).
ImportSnippets(list) ==
    /\ file' = list
    /\ \/ slots' = list /\ UNCHANGED unwritten
       \/ slots' = Default /\ CanMiss /\ unwritten' = unwritten + 1
    /\ Announce(slots', sheet)
    /\ UNCHANGED <<offer, ledger, toast, armed, privacy, detection>>

\* The keyboard restarts: the list comes back from the file.
RestartSnippets ==
    /\ slots' = file
    /\ offer' = Blank /\ ledger' = <<>> /\ HideToast /\ sheet' = Grid
    /\ privacy' = FALSE
    /\ UNCHANGED <<file, detection, unwritten>>

SnippetNext ==
    \/ \E v \in Values : MaybeOffer(v)
    \/ Arm \/ AcceptOffer \/ DismissOffer \/ ResetContext
    \/ \E on \in BOOLEAN : SetPrivacy(on) \/ SetDetection(on)
    \/ \E k \in 1..MaxSlots : OpenMenu(k) \/ BeginEdit(k)
    \/ CloseSheet \/ AddSnippet \/ DeleteSnippet
    \/ \E slot \in [label: {"renamed"}, value: Values \cup {Blank}] : SaveEdit(slot)
    \/ \E direction \in {"up", "down"} : MoveSnippet(direction)
    \/ \E list \in Imported : ImportSnippets(list)
    \/ RestartSnippets

-----------------------------------------------------------------------------
(* Properties.                                                             *)

\* The sheet and the editor are on the snippet they were opened for, whatever
\* offers, moves and imports did to the list since: an index is not an
\* identity, and Delete or Save on a stale one would take another snippet.
SheetIsOnItsSnippet ==
    sheet.view # "grid" =>
        sheet.index \in DOMAIN slots /\ slots[sheet.index] = sheet.identity

=============================================================================
