------------------------------ MODULE MCFocus ------------------------------
(***************************************************************************)
(* Where the typing goes, on small instances: whether the focused field    *)
(* holds a secret, and whether the caret is still where the context is.    *)
(* The two read the desktop through different calls and share no state     *)
(* here, so each behaviour runs one of them.                               *)
(***************************************************************************)
EXTENDS FocusPrivacy, CaretPolls

At(w, f, s) == [win |-> w, field |-> f, spot |-> s]

\* Window 1 is an editor over the whole screen with two fields, one of two
\* lines, window 2 a web page that publishes nothing.
Start == At(1, 1, 1)
FewPlaces == {Start, At(1, 2, 1), At(2, 1, 1), At(2, 2, 1)}

VARIABLE slice
focusVars == <<slice, vars, pollVars>>

FocusInit ==
    /\ slice \in {"privacy", "polls"} /\ Init /\ PollsInit
    /\ slice = "polls" => window = Home.win

FocusNext ==
    /\ UNCHANGED slice
    /\ \/ slice = "privacy" /\ Next /\ UNCHANGED pollVars
       \/ slice = "polls" /\ PollsNext /\ UNCHANGED vars

Of(A) == slice = "privacy" /\ A /\ UNCHANGED <<slice, pollVars>>

FocusSpec ==
    /\ FocusInit /\ [][FocusNext]_focusVars
    /\ WF_focusVars(Of(Probe))
    /\ WF_focusVars(Of(AnswerArrives))
    /\ WF_focusVars(Of(SignalArrives))
    /\ WF_focusVars(Of(ForegroundReturns))
=============================================================================
