---------------------------- MODULE TypingQueue ----------------------------
(***************************************************************************)
(* What the key injector promises its callers, whatever thread does the    *)
(* work: one queue of units, typed one whole unit at a time in the order   *)
(* they were handed in.  A cancel drops text and nothing else, and may let *)
(* the unit in flight finish.                                              *)
(***************************************************************************)
EXTENDS Integers, Sequences

CONSTANTS
    Bursts,   \* the numbers bursts are given, in the order handed in
    Lengths   \* how many units a burst may have

VARIABLES
    backlog,  \* units still owed, oldest first
    last      \* the burst the last unit typed belongs to

vars == <<backlog, last>>

Init == backlog = <<>> /\ last = 0

Submit(burst, text, n) ==
    /\ \A i \in DOMAIN backlog : backlog[i].burst < burst
    /\ last < burst
    /\ backlog' = backlog \o [i \in 1..n |-> [burst |-> burst, text |-> text]]
    /\ UNCHANGED last

TypeUnit ==
    /\ backlog # <<>>
    /\ last' = Head(backlog).burst
    /\ backlog' = Tail(backlog)

\* The units of s that are not text.
Switches(s) ==
    LET kept[i \in 0..Len(s)] ==
            IF i = 0 THEN <<>>
            ELSE IF s[i].text THEN kept[i - 1] ELSE Append(kept[i - 1], s[i])
    IN kept[Len(s)]

Cancel(finish) ==
    /\ backlog' = IF finish /\ backlog # <<>>
                  THEN <<Head(backlog)>> \o Switches(Tail(backlog))
                  ELSE Switches(backlog)
    /\ UNCHANGED last

Next ==
    \/ \E burst \in Bursts, text \in BOOLEAN, n \in Lengths : Submit(burst, text, n)
    \/ TypeUnit
    \/ \E finish \in BOOLEAN : Cancel(finish)

Spec == Init /\ [][Next]_vars

=============================================================================
