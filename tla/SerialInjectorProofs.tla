------------------------ MODULE SerialInjectorProofs ------------------------
(***************************************************************************)
(* The key injector, for any number of bursts of any length and any set of *)
(* modifiers: the UI thread, the worker and the lock between them never    *)
(* leave a key down, and every burst of text meets the modifiers its       *)
(* events were built for, however long the queue it waited in.  Together   *)
(* they are one queue of units, TypingQueue.                               *)
(***************************************************************************)
EXTENDS SerialInjector, FiniteSetTheorems, SequenceTheorems, WellFoundedInduction, TLAPS

-----------------------------------------------------------------------------
(* Induction over the naturals, and the sequence a cancel leaves.          *)

\* Every nonempty set of naturals has a least element.
LEMMA NatMin ==
    ASSUME NEW T \in SUBSET Nat, T # {}
    PROVE  \E x \in T : \A y \in T : x <= y
<1> DEFINE R == {p \in Nat \X Nat : p[1] < p[2]}
<1>1. IsWellFoundedOn(OpToRel(<, Nat), Nat)
  BY NatLessThanWellFounded
<1>2. IsWellFoundedOn(R, Nat)
  BY <1>1 DEF OpToRel
<1>3. \A x, y \in Nat : x < y => <<x, y>> \in R
  OBVIOUS
<1> HIDE DEF R
<1>4. PICK x \in T : \A y \in T : ~ (<<y, x>> \in R)
  BY <1>2, WFMin
<1>5. \A y \in T : x <= y
  <2> TAKE y \in T
  <2>1. x \in Nat /\ y \in Nat
    OBVIOUS
  <2>2. ~(y < x)
    BY <1>3, <1>4, <2>1
  <2> QED BY <2>1, <2>2
<1> QED BY <1>5

\* Induction up to n, over the set of numbers a claim holds for.
LEMMA Induction ==
    ASSUME NEW S, NEW n \in Nat, 0 \in S, \A i \in 0..(n - 1) : i \in S => i + 1 \in S
    PROVE  n \in S
<1> DEFINE T == {i \in Nat : i <= n /\ i \notin S}
<1>1. SUFFICES ASSUME T # {}
               PROVE  FALSE
  OBVIOUS
<1>2. PICK x \in T : \A y \in T : x <= y
  <2>1. T \in SUBSET Nat
    OBVIOUS
  <2> QED BY <1>1, <2>1, NatMin
<1>3. x \in Nat /\ x <= n /\ x \notin S /\ x # 0
  BY <1>2
<1>4. x - 1 \in 0..(n - 1) /\ x - 1 \notin T /\ x - 1 \in Nat
  BY <1>2, <1>3
<1>5. (x - 1) + 1 \in S
  BY <1>4
<1> QED BY <1>3, <1>5

\* How Uncancellable keeps element i.
KeptNext(q, kept, i) ==
    IF i = 0 THEN <<>>
    ELSE IF q[i].kind = "text" THEN kept[i - 1]
    ELSE Append(kept[i - 1], q[i])

\* The function that Uncancellable defines by recursion is there.
LEMMA KeptExists ==
    ASSUME NEW q, Len(q) \in Nat
    PROVE  \E kept : /\ kept = [i \in 0..Len(q) |-> KeptNext(q, kept, i)]
                     /\ Uncancellable(q) = kept[Len(q)]
<1> DEFINE Kept(k, n) == k = [i \in 0..n |-> KeptNext(q, k, i)]
           S == {n \in Nat : \E k : Kept(k, n)}
<1>1. 0 \in S
  <2>1. Kept([i \in 0..0 |-> <<>>], 0)
    BY DEF KeptNext
  <2> QED BY <2>1
<1>2. \A n \in 0..(Len(q) - 1) : n \in S => n + 1 \in S
  <2> SUFFICES ASSUME NEW n \in Nat, NEW k, Kept(k, n)
               PROVE  \E g : Kept(g, n + 1)
    OBVIOUS
  <2> DEFINE g == [i \in 0..(n + 1) |-> IF i <= n THEN k[i] ELSE KeptNext(q, k, n + 1)]
  <2>1. \A i \in 0..n : g[i] = k[i] /\ k[i] = KeptNext(q, k, i)
    OBVIOUS
  <2>2. \A i \in 0..(n + 1) : KeptNext(q, g, i) = KeptNext(q, k, i)
    BY <2>1 DEF KeptNext
  <2>3. \A i \in 0..(n + 1) : g[i] = KeptNext(q, g, i)
    BY <2>1, <2>2
  <2>4. g = [i \in 0..(n + 1) |-> KeptNext(q, g, i)]
    BY <2>3
  <2> QED BY <2>4
<1>3. Len(q) \in S
  <2> HIDE DEF S
  <2> QED BY <1>1, <1>2, Induction
<1>4. PICK k : Kept(k, Len(q))
  BY <1>3
<1> DEFINE kept == CHOOSE f : Kept(f, Len(q))
<1>5. Kept(kept, Len(q))
  BY <1>4
<1>6. Uncancellable(q) = kept[Len(q)]
  BY DEF Uncancellable, KeptNext
<1> QED BY <1>5, <1>6

-----------------------------------------------------------------------------
(* What a queue of bursts does to the modifiers.                           *)

\* The modifiers down after burst j, if those in S were before.
After(S, j) ==
    IF j.kind = "hold" THEN S \cup {j.m}
    ELSE IF j.kind = "release" THEN S \ {j.m} ELSE S

\* f is the modifiers down after each of the bursts of q, and those of text
\* were built for what they meet.
Course(f, q) ==
    /\ f \in [0..Len(q) -> SUBSET Modifiers]
    /\ \A i \in 1..Len(q) :
         /\ f[i] = After(f[i - 1], q[i])
         /\ q[i].kind = "text" => q[i].built = f[i - 1]

\* From the modifiers in S, q leads to those in E.
Leads(q, S, E) == \E f : Course(f, q) /\ f[0] = S /\ f[Len(q)] = E

LEMMA AfterType ==
    ASSUME NEW S \in SUBSET Modifiers, NEW j \in Jobs
    PROVE  After(S, j) \in SUBSET Modifiers
BY DEF After, Jobs

LEMMA LeadsEmpty ==
    ASSUME NEW S \in SUBSET Modifiers
    PROVE  Leads(<<>>, S, S) /\ \A E : Leads(<<>>, S, E) => E = S
<1>1. Course([i \in 0..0 |-> S], <<>>)
  BY DEF Course
<1>2. Leads(<<>>, S, S)
  BY <1>1 DEF Leads
<1>3. ASSUME NEW E, Leads(<<>>, S, E)
      PROVE  E = S
  BY <1>3 DEF Leads
<1> QED BY <1>2, <1>3

LEMMA LeadsAppend ==
    ASSUME NEW q \in Seq(Jobs), NEW S, NEW E, NEW j \in Jobs, Leads(q, S, E),
           j.kind = "text" => j.built = E
    PROVE  Leads(Append(q, j), S, After(E, j))
<1>1. PICK f : Course(f, q) /\ f[0] = S /\ f[Len(q)] = E
  BY DEF Leads
<1> DEFINE n == Len(q)
           r == Append(q, j)
           g == [i \in 0..(n + 1) |-> IF i <= n THEN f[i] ELSE After(E, j)]
<1>2. /\ n \in Nat /\ Len(r) = n + 1 /\ r[n + 1] = j
      /\ \A i \in 1..n : r[i] = q[i]
  OBVIOUS
<1>3. E \in SUBSET Modifiers
  BY <1>1, <1>2 DEF Course
<1>4. g \in [0..(n + 1) -> SUBSET Modifiers]
  BY <1>1, <1>2, <1>3, AfterType DEF Course
<1>5. \A i \in 0..n : g[i] = f[i]
  BY <1>2
<1>6. g[n + 1] = After(E, j) /\ g[n] = E /\ g[0] = S
  BY <1>1, <1>2
<1> HIDE DEF g, r, n
<1>7. \A i \in 1..(n + 1) :
        /\ g[i] = After(g[i - 1], r[i])
        /\ r[i].kind = "text" => r[i].built = g[i - 1]
  <2> TAKE i \in 1..(n + 1)
  <2>1. CASE i = n + 1
    BY <1>2, <1>6, <2>1
  <2>2. CASE i # n + 1
    <3>1. i \in 1..n /\ i \in 0..n /\ i - 1 \in 0..n
      BY <1>2, <2>2
    <3>2. /\ f[i] = After(f[i - 1], q[i])
          /\ q[i].kind = "text" => q[i].built = f[i - 1]
      BY <1>1, <3>1 DEF Course, n
    <3> QED BY <1>2, <1>5, <3>1, <3>2
  <2> QED BY <2>1, <2>2
<1>8. Course(g, r)
  BY <1>2, <1>4, <1>7 DEF Course
<1> QED BY <1>2, <1>6, <1>8 DEF Leads, r

LEMMA LeadsTail ==
    ASSUME NEW q \in Seq(Jobs), q # <<>>, NEW S, NEW E, Leads(q, S, E)
    PROVE  /\ Leads(Tail(q), After(S, Head(q)), E)
           /\ Head(q).kind = "text" => Head(q).built = S
<1>1. PICK f : Course(f, q) /\ f[0] = S /\ f[Len(q)] = E
  BY DEF Leads
<1> DEFINE n == Len(q)
           r == Tail(q)
           g == [i \in 0..(n - 1) |-> f[i + 1]]
<1>2. /\ n \in Nat \ {0} /\ Len(r) = n - 1 /\ Head(q) = q[1]
      /\ \A i \in 1..(n - 1) : r[i] = q[i + 1]
  OBVIOUS
<1>3. \A i \in 1..n :
        /\ f[i] = After(f[i - 1], q[i])
        /\ q[i].kind = "text" => q[i].built = f[i - 1]
  BY <1>1 DEF Course
<1>4. g \in [0..(n - 1) -> SUBSET Modifiers]
  BY <1>1, <1>2 DEF Course
<1>5. g[0] = f[1] /\ g[n - 1] = f[n] /\ \A i \in 0..(n - 1) : g[i] = f[i + 1]
  BY <1>2
<1>6. f[1] = After(S, Head(q)) /\ (Head(q).kind = "text" => Head(q).built = S)
  BY <1>1, <1>2, <1>3
<1> HIDE DEF g, r
<1>7. \A i \in 1..(n - 1) :
        /\ g[i] = After(g[i - 1], r[i])
        /\ r[i].kind = "text" => r[i].built = g[i - 1]
  <2> TAKE i \in 1..(n - 1)
  <2>1. i + 1 \in 1..n /\ (i + 1) - 1 = i /\ i \in 0..(n - 1) /\ i - 1 \in 0..(n - 1)
        /\ (i - 1) + 1 = i
    BY <1>2
  <2> QED BY <1>2, <1>3, <1>5, <2>1
<1>8. Course(g, r)
  BY <1>2, <1>4, <1>7 DEF Course
<1> QED BY <1>1, <1>2, <1>5, <1>6, <1>8 DEF Leads, r

\* A cancel takes text out of the queue, and what is left leads where all did.
LEMMA LeadsUncancellable ==
    ASSUME NEW q \in Seq(Jobs), NEW S, NEW E, Leads(q, S, E)
    PROVE  /\ Uncancellable(q) \in Seq({q[i] : i \in DOMAIN q})
           /\ Leads(Uncancellable(q), S, E)
<1> DEFINE n == Len(q)
           R == {q[i] : i \in DOMAIN q}
<1>1. PICK f : Course(f, q) /\ f[0] = S /\ f[n] = E
  BY DEF Leads
<1>2. n \in Nat /\ R \subseteq Jobs /\ DOMAIN q = 1..n
  OBVIOUS
<1>3. PICK kept : /\ kept = [i \in 0..n |-> KeptNext(q, kept, i)]
                  /\ Uncancellable(q) = kept[n]
  BY <1>2, KeptExists
<1> DEFINE T == {i \in 0..n : kept[i] \in Seq(R) /\ Leads(kept[i], S, f[i])}
<1>4. 0 \in T
  <2>1. kept[0] = <<>> /\ S \in SUBSET Modifiers
    BY <1>1, <1>2, <1>3 DEF KeptNext, Course
  <2>2. kept[0] \in Seq(R) /\ Leads(kept[0], S, f[0])
    BY <1>1, <2>1, LeadsEmpty
  <2> QED BY <1>2, <2>2
<1>5. ASSUME NEW i \in 0..(n - 1), i \in T
      PROVE  i + 1 \in T
  <2> DEFINE k == i + 1
  <2>1. k \in 1..n /\ k \in 0..n /\ k - 1 = i /\ k # 0
    BY <1>2
  <2>2. q[k] \in R /\ q[k] \in Jobs
    BY <1>2, <2>1
  <2>3. /\ f[k] = After(f[i], q[k])
        /\ q[k].kind = "text" => q[k].built = f[i]
    BY <1>1, <2>1 DEF Course
  <2>4. kept[k] = IF q[k].kind = "text" THEN kept[i] ELSE Append(kept[i], q[k])
    BY <1>3, <2>1 DEF KeptNext
  <2> HIDE DEF k, R
  <2>5. kept[i] \in Seq(R) /\ Leads(kept[i], S, f[i])
    BY <1>5
  <2>6. ASSUME q[k].kind = "text"
        PROVE  kept[k] \in Seq(R) /\ Leads(kept[k], S, f[k])
    BY <2>1, <2>3, <2>4, <2>5, <2>6 DEF After
  <2>7. ASSUME q[k].kind # "text"
        PROVE  kept[k] \in Seq(R) /\ Leads(kept[k], S, f[k])
    <3>1. kept[i] \in Seq(Jobs)
      BY <1>2, <2>5
    <3> QED BY <2>1, <2>2, <2>3, <2>4, <2>5, <2>7, <3>1, LeadsAppend
  <2>8. kept[k] \in Seq(R) /\ Leads(kept[k], S, f[k])
    BY <2>6, <2>7
  <2> QED BY <2>1, <2>8 DEF k
<1>6. n \in T
  <2> HIDE DEF T, n
  <2> QED BY <1>2, <1>4, <1>5, Induction
<1> QED BY <1>1, <1>3, <1>6

-----------------------------------------------------------------------------
(* The invariant.                                                          *)

Numbers == nextId + Cardinality(wanted) <= MaxJobs + 1 + Cardinality(Modifiers)

\* The worker delivers under the lock, a queue has a worker, and the UI thread
\* delivers only while there is none.
Handles ==
    /\ worker = "draining" <=> lock = "worker"
    /\ job["worker"] # NoJob => worker = "draining"
    /\ worker = "none" => queue = <<>>
    /\ job["ui"] # NoJob => worker = "none"
    /\ lock = "ui" => job["ui"] # NoJob

\* A thread between two groups of a unit has the lock and a burst with that
\* unit in it, and only text has a second group.
Steps ==
    \A t \in Threads :
       /\ step[t] # "check" => lock = t /\ job[t] # NoJob /\ unit[t] < job[t].units
       /\ step[t] = "up" => job[t].kind = "text"
       /\ job[t] = NoJob => unit[t] = 0

KeyIsHeld == key # 0 => \E t \in Threads : step[t] = "up"

\* No switch is ever cancelled, and one on its way has been predicted.
Foreseen(j) ==
    j.kind # "text" => j.units = 1 /\ ~j.cancelled /\ pending[j.m] # "none"

SwitchesForeseen ==
    /\ \A i \in DOMAIN queue : Foreseen(queue[i])
    /\ \A t \in Threads : job[t] # NoJob => Foreseen(job[t])

TextFits == \A t \in Threads : job[t] # NoJob /\ job[t].kind = "text" => job[t].built = os

\* The modifiers down once the worker's burst is sent.
Settled == IF unit["worker"] > 0 THEN os ELSE After(os, job["worker"])

Predicted == {m \in Modifiers : OsKeyDown(m)}

\* What the next burst is built for is what the queue leads to, and so is
\* every burst of text in it.
QueueFits == Busy => Leads(queue, Settled, Predicted)

Inv == /\ TypeOK /\ Numbers /\ Handles /\ Steps /\ KeyIsHeld
       /\ SwitchesForeseen /\ TextFits /\ QueueFits

LEMMA CountAssumption == Cardinality(Modifiers) \in Nat
BY ConstantsAssumption, FS_CardinalityType

LEMMA NoJobFacts == NoJob.kind = "none" /\ NoJob \notin Jobs /\ \A S : After(S, NoJob) = S
BY DEF NoJob, Jobs, After

LEMMA WantedCounts ==
    ASSUME NEW S \in SUBSET Modifiers
    PROVE  /\ IsFiniteSet(S) /\ Cardinality(S) \in Nat
           /\ Cardinality(S) <= Cardinality(Modifiers)
           /\ \A m \in S : Cardinality(S \ {m}) = Cardinality(S) - 1 /\ Cardinality(S) > 0
<1>1. IsFiniteSet(S) /\ Cardinality(S) \in Nat /\ Cardinality(S) <= Cardinality(Modifiers)
  BY ConstantsAssumption, FS_Subset, FS_CardinalityType
<1>2. ASSUME NEW m \in S
      PROVE  Cardinality(S \ {m}) = Cardinality(S) - 1 /\ Cardinality(S) > 0
  <2>1. Cardinality(S \ {m}) = Cardinality(S) - 1
    BY <1>1, FS_RemoveElement
  <2>2. Cardinality(S) # 0
    BY <1>1, FS_EmptySet
  <2> QED BY <1>1, <2>1, <2>2
<1> QED BY <1>1, <1>2

LEMMA InitInv == Init => Inv
<1> SUFFICES ASSUME Init
             PROVE  Inv
  OBVIOUS
<1> USE DEF Init
<1>1. TypeOK
  BY ConstantsAssumption, CountAssumption DEF TypeOK, Threads
<1>2. Numbers
  BY ConstantsAssumption, CountAssumption, FS_EmptySet DEF Numbers
<1>3. Handles /\ Steps /\ KeyIsHeld
  BY DEF Handles, Steps, KeyIsHeld, Threads
<1>4. SwitchesForeseen /\ TextFits /\ QueueFits
  BY NoJobFacts DEF SwitchesForeseen, TextFits, QueueFits, Busy, Threads
<1> QED BY <1>1, <1>2, <1>3, <1>4 DEF Inv

-----------------------------------------------------------------------------
(* Bursts are handed in.                                                   *)

\* j is predicted, and built for what it will meet.
Fits(j) ==
    /\ j \in Jobs /\ j.id = nextId
    /\ j.kind # "text" => j.units = 1 /\ ~j.cancelled /\ pending'[j.m] # "none"
    /\ j.kind = "text" => j.built = IF Busy THEN Predicted ELSE os
    /\ Busy => /\ \A m \in Modifiers : pending[m] # "none" => pending'[m] # "none"
               /\ {m \in Modifiers : IF pending'[m] # "none" THEN pending'[m] = "down"
                                     ELSE m \in os} = After(Predicted, j)
    /\ ~Busy /\ j.kind = "text" => \A m \in Modifiers : pending'[m] = "none"

LEMMA InjectKeepsInv ==
    ASSUME Inv, UIFree, NEW j, Fits(j), Inject(j),
           UNCHANGED <<lock, unit, step, os, key, last, closing>>,
           pending' \in [Modifiers -> {"none", "down", "up"}],
           wanted' \in SUBSET Modifiers, Numbers'
    PROVE  Inv'
<1> USE DEF Inv, Threads
<1>0. /\ job["ui"] = NoJob /\ unit["ui"] = 0 /\ step["ui"] = "check" /\ lock # "ui"
      /\ TypeOK /\ os \in SUBSET Modifiers /\ j \in Jobs /\ nextId' = nextId + 1 /\ j # NoJob
  BY NoJobFacts DEF UIFree, Steps, Handles, TypeOK, Fits, Inject
<1>1. nextId' \in 1..(MaxJobs + Cardinality(Modifiers) + 1)
  <2>1. Cardinality(wanted') \in Nat
    BY WantedCounts
  <2> QED BY <1>0, <2>1, CountAssumption, ConstantsAssumption DEF Numbers, TypeOK
<1>2. CASE Inline(j)
  <2>1. /\ job' = [job EXCEPT !["ui"] = j] /\ UNCHANGED <<queue, worker>>
        /\ worker = "none" /\ queue = <<>> /\ lock # "worker" /\ job["worker"] = NoJob
    BY <1>2 DEF Inject, Inline, Busy, Handles
  <2>2. job' \in [Threads -> Jobs \cup {NoJob}] /\ job'["ui"] = j /\ job'["worker"] = NoJob
    BY <1>0, <2>1 DEF TypeOK
  <2>3. TypeOK'
    BY <1>0, <1>1, <2>1, <2>2 DEF TypeOK
  <2>4. Handles' /\ Steps' /\ KeyIsHeld'
    BY <1>0, <2>1, <2>2 DEF Handles, Steps, KeyIsHeld
  <2>5. SwitchesForeseen' /\ TextFits' /\ QueueFits'
    BY <1>0, <2>1, <2>2 DEF SwitchesForeseen, Foreseen, TextFits, QueueFits, Busy, Fits
  <2> QED BY <2>3, <2>4, <2>5
<1>3. CASE ~Inline(j)
  <2>1. /\ UNCHANGED job /\ queue' = Append(queue, j)
        /\ worker' = IF Busy THEN worker ELSE "started"
    BY <1>3 DEF Inject, Enqueue
  <2>2. /\ queue' \in Seq(Jobs) /\ Len(queue') = Len(queue) + 1 /\ queue'[Len(queue) + 1] = j
        /\ \A i \in 1..Len(queue) : queue'[i] = queue[i]
        /\ DOMAIN queue = 1..Len(queue) /\ DOMAIN queue' = 1..(Len(queue) + 1)
    BY <1>0, <2>1 DEF TypeOK
  <2>3. TypeOK'
    BY <1>0, <1>1, <2>1, <2>2 DEF TypeOK
  <2>4. Handles' /\ Steps' /\ KeyIsHeld'
    BY <1>0, <2>1, <2>2 DEF Handles, Steps, KeyIsHeld, Busy
  <2>5. TextFits'
    BY <1>0, <2>1 DEF TextFits
  <2>6. CASE Busy
    <3>1. Predicted' = After(Predicted, j)
      BY <2>1, <2>6 DEF Predicted, OsKeyDown, Busy, Fits
    <3>2. Settled' = Settled
      BY <1>0, <2>1 DEF Settled
    <3>3. Leads(Append(queue, j), Settled, After(Predicted, j))
      BY <1>0, <2>6, LeadsAppend DEF QueueFits, Fits, TypeOK
    <3>4. QueueFits'
      BY <2>1, <3>1, <3>2, <3>3 DEF QueueFits
    <3>5. SwitchesForeseen'
      <4> DEFINE Now(k) == k.kind # "text" =>
                             k.units = 1 /\ ~k.cancelled /\ pending'[k.m] # "none"
      <4>1. \A k \in Jobs : Foreseen(k) => Now(k)
        BY <2>6 DEF Foreseen, Fits, Jobs
      <4>2. Now(j)
        BY DEF Fits
      <4>3. \A i \in DOMAIN queue : Now(queue[i])
        BY <1>0, <4>1 DEF TypeOK, SwitchesForeseen
      <4>4. \A i \in DOMAIN queue' : Now(queue'[i])
        <5> TAKE i \in DOMAIN queue'
        <5>1. CASE i \in DOMAIN queue
          BY <2>2, <4>3, <5>1
        <5>2. CASE i = Len(queue) + 1
          BY <2>2, <4>2, <5>2
        <5> QED BY <1>0, <2>2, <5>1, <5>2 DEF TypeOK
      <4>5. \A t \in Threads : job[t] # NoJob => Now(job[t])
        BY <1>0, <4>1 DEF TypeOK, SwitchesForeseen
      <4> QED BY <2>1, <4>4, <4>5 DEF SwitchesForeseen, Foreseen
    <3> QED BY <2>3, <2>4, <2>5, <3>4, <3>5
  <2>7. CASE ~Busy
    <3>1. j.kind = "text" /\ worker = "none" /\ queue = <<>> /\ job["worker"] = NoJob
      BY <1>3, <2>7 DEF Inline, Busy, Handles
    <3>2. Predicted' = os
      BY <1>0, <2>1, <2>7, <3>1 DEF Predicted, OsKeyDown, Busy, Fits
    <3>3. Settled' = os /\ After(os, j) = os
      BY <1>0, <2>1, <3>1, NoJobFacts DEF Settled, After
    <3>4. Leads(Append(queue, j), os, After(os, j))
      BY <1>0, <2>7, <3>1, LeadsEmpty, LeadsAppend DEF Fits, TypeOK
    <3>5. QueueFits'
      BY <2>1, <3>2, <3>3, <3>4 DEF QueueFits
    <3>6. SwitchesForeseen'
      BY <1>0, <2>1, <2>2, <3>1 DEF SwitchesForeseen, Foreseen
    <3> QED BY <2>3, <2>4, <2>5, <3>5, <3>6
  <2> QED BY <2>6, <2>7
<1> QED BY <1>2, <1>3

LEMMA SendTextKeepsInv ==
    ASSUME Inv, NEW n \in 1..MaxUnits, SendText(n)
    PROVE  Inv'
<1> DEFINE m0 == CHOOSE m \in Modifiers : TRUE
           j == [id |-> nextId, kind |-> "text", m |-> m0, units |-> n,
                 built |-> {m \in Modifiers : OsKeyDown(m)}, cancelled |-> FALSE]
<1>0. TypeOK
  BY DEF Inv
<1>1. /\ UIFree /\ Inject(j) /\ nextId \in 1..MaxJobs
      /\ UNCHANGED <<lock, unit, step, os, key, last, wanted, closing>>
      /\ pending' = IF Busy THEN pending ELSE [m \in Modifiers |-> "none"]
  BY <1>0, ConstantsAssumption, CountAssumption DEF SendText, TypeOK
<1>2. m0 \in Modifiers
  BY ConstantsAssumption
<1>3. j \in Jobs
  <2>1. nextId \in 1..(MaxJobs + Cardinality(Modifiers))
    BY <1>1, ConstantsAssumption, CountAssumption
  <2> HIDE DEF m0
  <2> QED BY <1>2, <2>1 DEF Jobs
<1>4. j.id = nextId /\ j.kind = "text" /\ j.built = Predicted
  BY DEF Predicted
<1> HIDE DEF j
<1>5. pending' \in [Modifiers -> {"none", "down", "up"}]
  BY <1>0, <1>1 DEF TypeOK
<1>6. Fits(j)
  <2>1. ~Busy => Predicted = os
    BY <1>0 DEF Predicted, OsKeyDown, TypeOK
  <2>2. CASE Busy
    <3>1. pending' = pending /\ After(Predicted, j) = Predicted
      BY <1>1, <1>4, <2>2 DEF After
    <3>2. {m \in Modifiers : IF pending[m] # "none" THEN pending[m] = "down"
                             ELSE m \in os} = Predicted
      BY <2>2 DEF Predicted, OsKeyDown
    <3> QED BY <1>3, <1>4, <2>2, <3>1, <3>2 DEF Fits
  <2>3. CASE ~Busy
    BY <1>1, <1>3, <1>4, <2>1, <2>3 DEF Fits
  <2> QED BY <2>2, <2>3
<1>7. Numbers'
  <2>1. /\ nextId' = nextId + 1 /\ wanted' = wanted /\ wanted \in SUBSET Modifiers
    BY <1>0, <1>1 DEF Inject, TypeOK
  <2> QED BY <1>1, <2>1, WantedCounts, CountAssumption, ConstantsAssumption DEF Numbers
<1> QED BY <1>0, <1>1, <1>5, <1>6, <1>7, InjectKeepsInv DEF TypeOK

LEMMA SwitchKeepsInv ==
    ASSUME Inv, UIFree, NEW kind \in {"hold", "release"}, NEW m \in Modifiers,
           Switch(kind, m), UNCHANGED closing,
           nextId <= MaxJobs \/ (kind = "release" /\ m \in wanted)
    PROVE  Inv'
<1> DEFINE j == [id |-> nextId, kind |-> kind, m |-> m, units |-> 1, built |-> {},
                 cancelled |-> FALSE]
<1>0. TypeOK /\ nextId \in Nat \ {0} /\ wanted \in SUBSET Modifiers
  BY CountAssumption, ConstantsAssumption DEF Inv, TypeOK
<1>1. /\ Inject(j) /\ UNCHANGED <<lock, unit, step, os, key, last, closing>>
      /\ pending' = [pending EXCEPT ![m] = IF kind = "hold" THEN "down" ELSE "up"]
      /\ wanted' = IF kind = "hold" THEN wanted \cup {m} ELSE wanted \ {m}
      /\ nextId' = nextId + 1
  BY DEF Switch, Inject
<1>2. Cardinality(wanted) \in Nat /\ Cardinality(wanted') \in Nat
      /\ Cardinality(wanted') <= Cardinality(Modifiers)
      /\ wanted' \in SUBSET Modifiers
  BY <1>0, <1>1, WantedCounts
<1>3. kind = "release" /\ m \in wanted =>
        Cardinality(wanted') = Cardinality(wanted) - 1 /\ Cardinality(wanted) > 0
  BY <1>0, <1>1, WantedCounts
<1>4. nextId \in 1..(MaxJobs + Cardinality(Modifiers)) /\ Numbers'
  BY <1>0, <1>1, <1>2, <1>3, CountAssumption, ConstantsAssumption DEF Inv, Numbers
<1>5. j \in Jobs /\ j.id = nextId /\ j.kind = kind /\ j.m = m /\ j.units = 1 /\ ~j.cancelled
  BY <1>4, ConstantsAssumption DEF Jobs
<1> HIDE DEF j
<1>6. /\ pending' \in [Modifiers -> {"none", "down", "up"}]
      /\ pending'[m] = IF kind = "hold" THEN "down" ELSE "up"
      /\ \A k \in Modifiers \ {m} : pending'[k] = pending[k]
  BY <1>0, <1>1 DEF TypeOK
<1>7. Fits(j)
  <2>1. ASSUME Busy
        PROVE  {k \in Modifiers : IF pending'[k] # "none" THEN pending'[k] = "down"
                                  ELSE k \in os} = After(Predicted, j)
    BY <1>5, <1>6, <2>1 DEF After, Predicted, OsKeyDown
  <2>2. \A k \in Modifiers : pending[k] # "none" => pending'[k] # "none"
    BY <1>6
  <2>3. pending'[m] # "none"
    BY <1>6
  <2> QED BY <1>5, <2>1, <2>2, <2>3 DEF Fits
<1> QED BY <1>1, <1>2, <1>4, <1>6, <1>7, InjectKeepsInv

-----------------------------------------------------------------------------
(* A cancel.                                                               *)

\* Nothing of the queue but its text is lost, and a burst under way is marked
\* only if it is text.
LEMMA CancelKeepsInv ==
    ASSUME Inv, CancelPending, closing' \in {"no", "joining"},
           UNCHANGED <<worker, lock, unit, step, pending, os, key, last, wanted, nextId>>
    PROVE  Inv'
<1> USE DEF Inv, Threads
<1>0. TypeOK /\ queue' = Uncancellable(queue) /\ queue \in Seq(Jobs)
  BY DEF CancelPending, TypeOK
<1> DEFINE w == job["worker"]
<1>1. /\ job' \in [Threads -> Jobs \cup {NoJob}] /\ job'["ui"] = job["ui"]
      /\ \/ job' = job
         \/ /\ w \in Jobs /\ w.kind = "text" /\ job'["worker"] \in Jobs
            /\ job'["worker"].kind = "text" /\ job'["worker"].units = w.units
            /\ job'["worker"].built = w.built
  <2>1. CASE w.kind = "text"
    <3>1. w \in Jobs
      BY <1>0, <2>1, NoJobFacts DEF TypeOK
    <3> DEFINE v == [w EXCEPT !.cancelled = TRUE]
    <3>2. v \in Jobs /\ v.kind = "text" /\ v.units = w.units /\ v.built = w.built
      BY <2>1, <3>1 DEF Jobs
    <3>3. job' = [job EXCEPT !["worker"] = v]
      BY <1>0, <2>1 DEF CancelPending, MarkCurrent, TypeOK
    <3> HIDE DEF v
    <3>4. job' \in [Threads -> Jobs \cup {NoJob}] /\ job'["ui"] = job["ui"]
          /\ job'["worker"] = v
      BY <1>0, <3>2, <3>3 DEF TypeOK
    <3> QED BY <2>1, <3>1, <3>2, <3>4
  <2>2. CASE w.kind # "text"
    BY <1>0, <2>2 DEF CancelPending, MarkCurrent, TypeOK
  <2> QED BY <2>1, <2>2
<1>2. job'["worker"] = NoJob <=> w = NoJob
  BY <1>1, NoJobFacts
<1>3. \E S, E : Leads(queue, S, E)
  <2>1. CASE Busy
    BY <2>1 DEF QueueFits
  <2>2. CASE ~Busy
    BY <2>2, LeadsEmpty DEF Handles, Busy
  <2> QED BY <2>1, <2>2
<1>4. /\ queue' \in Seq({queue[i] : i \in DOMAIN queue})
      /\ \A S, E : Leads(queue, S, E) => Leads(queue', S, E)
  BY <1>0, <1>3, LeadsUncancellable
<1>5. /\ queue' \in Seq(Jobs)
      /\ \A i \in DOMAIN queue' : \E k \in DOMAIN queue : queue'[i] = queue[k]
      /\ queue = <<>> => queue' = <<>>
  <2>1. \A i \in DOMAIN queue : queue[i] \in Jobs
    BY <1>0
  <2> QED BY <1>4, <2>1
<1>6. TypeOK'
  BY <1>0, <1>1, <1>5 DEF TypeOK
<1>7. Numbers' /\ Handles' /\ KeyIsHeld'
  BY <1>1, <1>2, <1>5 DEF Numbers, Handles, KeyIsHeld
<1>8. Steps'
  BY <1>1, <1>2 DEF Steps
<1>9. TextFits'
  BY <1>1, <1>2, NoJobFacts DEF TextFits
<1>10. SwitchesForeseen'
  <2>1. \A i \in DOMAIN queue' : queue'[i].kind # "text" =>
          queue'[i].units = 1 /\ ~queue'[i].cancelled /\ pending[queue'[i].m] # "none"
    BY <1>5 DEF SwitchesForeseen, Foreseen
  <2>2. \A t \in Threads : job'[t] # NoJob /\ job'[t].kind # "text" => job'[t] = job[t]
    BY <1>1, <1>2
  <2> QED BY <2>1, <2>2 DEF SwitchesForeseen, Foreseen
<1>11. QueueFits'
  <2>1. After(os, job'["worker"]) = After(os, w)
    BY <1>1 DEF After
  <2>2. Settled' = Settled /\ Predicted' = Predicted /\ (Busy' <=> Busy)
    BY <2>1 DEF Settled, Predicted, OsKeyDown, Busy
  <2> QED BY <1>4, <2>2 DEF QueueFits
<1> QED BY <1>6, <1>7, <1>8, <1>9, <1>10, <1>11

-----------------------------------------------------------------------------
(* The lock, the worker and the bridge's shutdown.                         *)

LEMMA LockKeepsInv ==
    ASSUME Inv, AcquireInline \/ StartDraining \/ StopDraining \/ ReleaseOldLock
    PROVE  Inv'
<1> USE DEF Inv, Threads
<1>0. UNCHANGED <<queue, job, unit, step, pending, os, key, last, wanted, nextId, closing>>
  BY DEF AcquireInline, StartDraining, StopDraining, ReleaseOldLock
<1>1. \/ /\ lock = "free" /\ lock' = "ui" /\ job["ui"] # NoJob /\ worker' = worker
      \/ /\ lock = "free" /\ lock' = "worker" /\ worker = "started" /\ worker' = "draining"
      \/ /\ worker = "draining" /\ worker' = "none" /\ lock' = "old"
         /\ job["worker"] = NoJob /\ queue = <<>>
      \/ lock = "old" /\ lock' = "free" /\ worker' = worker
  BY DEF AcquireInline, StartDraining, StopDraining, ReleaseOldLock
<1>2. TypeOK'
  BY <1>0, <1>1 DEF TypeOK
<1>3. Numbers' /\ KeyIsHeld' /\ SwitchesForeseen' /\ TextFits'
  BY <1>0 DEF Numbers, KeyIsHeld, SwitchesForeseen, Foreseen, TextFits
<1>4. Handles'
  BY <1>0, <1>1 DEF Handles
<1>5. Steps'
  BY <1>0, <1>1 DEF Steps, Handles
<1>6. QueueFits'
  <2>1. Busy' => Busy
    BY <1>1 DEF Busy
  <2>2. ASSUME Busy, Busy'
        PROVE  Settled' = Settled /\ Predicted' = Predicted
    BY <1>0, <2>2 DEF Settled, Predicted, OsKeyDown
  <2> QED BY <1>0, <2>1, <2>2 DEF QueueFits
<1> QED BY <1>2, <1>3, <1>4, <1>5, <1>6

LEMMA ClosingKeepsInv ==
    ASSUME Inv, Joined \/ JoinTimesOut \/ Exit
    PROVE  Inv'
<1> USE DEF Inv
<1>0. /\ UNCHANGED <<queue, worker, lock, job, unit, step, pending, os, key, last, wanted,
                     nextId>>
      /\ closing' \in {"no", "joining", "releasing", "exited", "killed"}
  BY DEF Joined, JoinTimesOut, Exit
<1> QED BY <1>0 DEF TypeOK, Numbers, Handles, Steps, KeyIsHeld, SwitchesForeseen, Foreseen,
                    TextFits, QueueFits, Settled, Predicted, OsKeyDown, Busy

\* The worker takes the oldest burst, which meets what it was built for.
LEMMA PopKeepsInv ==
    ASSUME Inv, PopJob
    PROVE  Inv'
<1> USE DEF Inv, Threads
<1> DEFINE j == Head(queue)
<1>0. /\ worker = "draining" /\ lock = "worker" /\ job["worker"] = NoJob /\ queue # <<>>
      /\ job' = [job EXCEPT !["worker"] = j] /\ queue' = Tail(queue)
      /\ UNCHANGED <<worker, lock, unit, step, pending, os, key, last, wanted, nextId, closing>>
      /\ TypeOK /\ job["ui"] = NoJob /\ os \in SUBSET Modifiers
  BY DEF PopJob, Handles, TypeOK
<1>1. /\ queue \in Seq(Jobs) /\ queue' \in Seq(Jobs) /\ j \in Jobs /\ j = queue[1]
      /\ 1 \in DOMAIN queue
      /\ \A i \in DOMAIN queue' : queue'[i] = queue[i + 1] /\ i + 1 \in DOMAIN queue
  BY <1>0 DEF TypeOK
<1> HIDE DEF j
<1>2. job' \in [Threads -> Jobs \cup {NoJob}] /\ job'["worker"] = j /\ job'["ui"] = NoJob
  BY <1>0, <1>1 DEF TypeOK
<1>3. TypeOK'
  BY <1>0, <1>1, <1>2 DEF TypeOK
<1>4. Numbers' /\ Handles' /\ KeyIsHeld'
  BY <1>0, <1>2 DEF Numbers, Handles, KeyIsHeld
<1>5. unit["worker"] = 0 /\ \A t \in Threads : step[t] = "check"
  BY <1>0 DEF Steps, TypeOK
<1>6. Steps'
  BY <1>0, <1>2, <1>5 DEF Steps
<1>7. SwitchesForeseen'
  <2>1. Foreseen(j) /\ \A i \in DOMAIN queue' : Foreseen(queue'[i])
    BY <1>1 DEF SwitchesForeseen
  <2> QED BY <1>0, <1>2, <2>1 DEF SwitchesForeseen, Foreseen
<1>8. Settled = os /\ Settled' = After(os, j)
  BY <1>0, <1>2, <1>5, NoJobFacts DEF Settled
<1>9. /\ Leads(Tail(queue), After(os, j), Predicted)
      /\ j.kind = "text" => j.built = os
  <2>1. Leads(queue, os, Predicted)
    BY <1>0, <1>8 DEF QueueFits, Busy
  <2> QED BY <1>0, <1>1, <2>1, LeadsTail DEF j
<1>10. TextFits'
  BY <1>0, <1>2, <1>9 DEF TextFits
<1>11. QueueFits'
  <2>1. Predicted' = Predicted
    BY <1>0 DEF Predicted, OsKeyDown, Busy
  <2> QED BY <1>0, <1>8, <1>9, <2>1 DEF QueueFits
<1> QED BY <1>3, <1>4, <1>6, <1>7, <1>10, <1>11

-----------------------------------------------------------------------------
(* Delivery, by either thread.                                             *)

\* What a thread that delivers knows.
LEMMA DeliveringFacts ==
    ASSUME Inv, NEW t \in Threads, Delivering(t)
    PROVE  /\ TypeOK /\ lock = t /\ job[t] \in Jobs /\ unit[t] \in 0..MaxUnits
           /\ job[t].units \in 1..MaxUnits
           /\ \A u \in Threads \ {t} : step[u] = "check" /\ job[u] = NoJob
           /\ t = "ui" => ~Busy
           /\ Foreseen(job[t]) /\ (job[t].kind = "text" => job[t].built = os)
           /\ os \in SUBSET Modifiers
<1> USE DEF Inv, Delivering, Threads
<1>1. TypeOK /\ lock = t /\ job[t] # NoJob /\ job[t] \in Jobs
      /\ unit[t] \in 0..MaxUnits /\ os \in SUBSET Modifiers
  BY DEF TypeOK
<1>2. job[t].units \in 1..MaxUnits
  BY <1>1 DEF Jobs
<1>3. \A u \in Threads \ {t} : step[u] = "check"
  BY <1>1 DEF Steps
<1>4. \A u \in Threads \ {t} : job[u] = NoJob
  BY <1>1 DEF Handles
<1>5. t = "ui" => ~Busy
  BY <1>1 DEF Handles, Busy
<1>6. Foreseen(job[t]) /\ (job[t].kind = "text" => job[t].built = os)
  BY <1>1 DEF SwitchesForeseen, TextFits
<1> QED BY <1>1, <1>2, <1>3, <1>4, <1>5, <1>6

\* The top of the loop: a unit is begun, or the burst is done.
LEMMA LoopKeepsInv ==
    ASSUME Inv, NEW t \in Threads, BeginUnit(t) \/ FinishJob(t)
    PROVE  Inv'
<1> USE DEF Inv
<1>0. /\ Delivering(t) /\ step[t] = "check" /\ UNCHANGED <<queue, worker, pending, os, key,
         last, wanted, nextId, closing>>
  BY DEF BeginUnit, FinishJob
<1>1. /\ TypeOK /\ lock = t /\ job[t] \in Jobs /\ job[t] # NoJob /\ unit[t] \in 0..MaxUnits
      /\ job[t].units \in 1..MaxUnits
      /\ \A u \in Threads \ {t} : step[u] = "check" /\ job[u] = NoJob
      /\ t = "ui" => ~Busy
      /\ Foreseen(job[t])
  BY <1>0, DeliveringFacts, NoJobFacts
<1>2. CASE BeginUnit(t)
  <2>1. /\ UNCHANGED <<lock, job, unit>> /\ step' = [step EXCEPT ![t] = "down"]
        /\ unit[t] < job[t].units
    BY <1>2 DEF BeginUnit, More
  <2>2. TypeOK'
    BY <1>0, <1>1, <2>1 DEF TypeOK
  <2>3. \A u \in Threads : step'[u] = IF u = t THEN "down" ELSE "check"
    BY <1>1, <2>1 DEF TypeOK
  <2>4. Steps'
    BY <1>1, <2>1, <2>3 DEF Steps
  <2>5. KeyIsHeld'
    BY <1>0, <1>1, <2>3 DEF KeyIsHeld
  <2>6. Numbers' /\ Handles' /\ SwitchesForeseen' /\ TextFits'
    BY <1>0, <2>1 DEF Numbers, Handles, SwitchesForeseen, Foreseen, TextFits
  <2>7. QueueFits'
    BY <1>0, <2>1 DEF QueueFits, Settled, Predicted, OsKeyDown, Busy
  <2> QED BY <2>2, <2>4, <2>5, <2>6, <2>7
<1>3. CASE FinishJob(t)
  <2>1. /\ UNCHANGED step /\ job' = [job EXCEPT ![t] = NoJob]
        /\ unit' = [unit EXCEPT ![t] = 0] /\ ~More(t)
        /\ lock' = IF t = "ui" THEN "free" ELSE lock
    BY <1>3 DEF FinishJob
  <2>2. job' \in [Threads -> Jobs \cup {NoJob}] /\ \A u \in Threads : job'[u] = NoJob
    BY <1>1, <2>1 DEF TypeOK
  <2>3. unit' \in [Threads -> 0..MaxUnits] /\ unit'[t] = 0
        /\ \A u \in Threads \ {t} : unit'[u] = unit[u]
    BY <1>1, <2>1, ConstantsAssumption DEF TypeOK
  <2>4. TypeOK'
    BY <1>0, <1>1, <2>1, <2>2, <2>3 DEF TypeOK
  <2>5. \A u \in Threads : step'[u] = "check"
    BY <1>0, <1>1, <2>1
  <2>6. Steps'
    BY <1>1, <2>1, <2>2, <2>3, <2>5 DEF Steps
  <2>7. KeyIsHeld'
    BY <1>0, <2>1, <2>5 DEF KeyIsHeld
  <2>8. Numbers' /\ SwitchesForeseen' /\ TextFits'
    BY <1>0, <2>1, <2>2 DEF Numbers, SwitchesForeseen, Foreseen, TextFits
  <2>9. Handles'
    BY <1>0, <1>1, <2>1, <2>2 DEF Handles, Threads, Busy
  <2>10. QueueFits'
    <3>1. CASE t = "ui"
      BY <1>0, <1>1, <3>1 DEF QueueFits, Busy
    <3>2. CASE t = "worker"
      <4>1. Settled = os
        BY <1>1, <2>1, <3>2 DEF Settled, More, After, Foreseen
      <4>2. Settled' = os
        BY <1>0, <2>2, <2>3, <3>2, NoJobFacts DEF Settled
      <4>3. Predicted' = Predicted /\ (Busy' <=> Busy)
        BY <1>0 DEF Predicted, OsKeyDown, Busy
      <4> QED BY <1>0, <4>1, <4>2, <4>3 DEF QueueFits
    <3> QED BY <3>1, <3>2 DEF Threads
  <2> QED BY <2>4, <2>6, <2>7, <2>8, <2>9, <2>10
<1> QED BY <1>2, <1>3

\* A switch that is sent is the one that was predicted.
LEMMA SendSwitchKeepsInv ==
    ASSUME Inv, NEW t \in Threads, SendSwitch(t)
    PROVE  Inv'
<1> USE DEF Inv
<1>0. /\ Delivering(t) /\ step[t] = "down" /\ job[t].kind # "text"
      /\ os' = IF job[t].kind = "hold" THEN os \cup {job[t].m} ELSE os \ {job[t].m}
      /\ unit' = [unit EXCEPT ![t] = unit[t] + 1] /\ last' = job[t].id
      /\ step' = [step EXCEPT ![t] = "check"]
      /\ UNCHANGED <<queue, worker, lock, job, pending, key, wanted, nextId, closing>>
  BY DEF SendSwitch
<1>1. /\ TypeOK /\ lock = t /\ job[t] \in Jobs /\ job[t] # NoJob /\ unit[t] \in 0..MaxUnits
      /\ job[t].units \in 1..MaxUnits
      /\ \A u \in Threads \ {t} : step[u] = "check" /\ job[u] = NoJob
      /\ t = "ui" => ~Busy
      /\ os \in SUBSET Modifiers /\ job[t].units = 1 /\ pending[job[t].m] # "none"
  BY <1>0, DeliveringFacts, NoJobFacts DEF Foreseen
<1>2. unit[t] = 0 /\ unit' \in [Threads -> 0..MaxUnits] /\ unit'[t] = 1
      /\ \A u \in Threads \ {t} : unit'[u] = unit[u]
  BY <1>0, <1>1, ConstantsAssumption DEF Steps, TypeOK
<1>3. job[t].kind \in {"hold", "release"} /\ job[t].m \in Modifiers
      /\ job[t].id \in 1..(MaxJobs + Cardinality(Modifiers))
  BY <1>0, <1>1 DEF Jobs
<1>4. os' = After(os, job[t]) /\ os' \in SUBSET Modifiers
  BY <1>0, <1>1, <1>3 DEF After
<1>5. step' \in [Threads -> {"check", "down", "up"}] /\ \A u \in Threads : step'[u] = "check"
  BY <1>0, <1>1 DEF TypeOK
<1>6. TypeOK'
  BY <1>0, <1>1, <1>2, <1>3, <1>4, <1>5, CountAssumption, ConstantsAssumption DEF TypeOK
<1>7. Numbers' /\ Handles' /\ SwitchesForeseen'
  BY <1>0 DEF Numbers, Handles, SwitchesForeseen, Foreseen
<1>8. Steps'
  BY <1>0, <1>1, <1>2, <1>5 DEF Steps
<1>9. KeyIsHeld'
  BY <1>0, <1>1 DEF KeyIsHeld
<1>10. TextFits'
  BY <1>0, <1>1 DEF TextFits
<1>11. QueueFits'
  <2>1. CASE t = "ui"
    BY <1>0, <1>1, <2>1 DEF QueueFits, Busy
  <2>2. CASE t = "worker"
    <3>1. Settled' = Settled
      BY <1>0, <1>2, <1>4, <2>2 DEF Settled
    <3>2. \A m \in Modifiers : pending[m] # "none" \/ (m \in os' <=> m \in os)
      BY <1>0, <1>1
    <3>3. ASSUME Busy
          PROVE  Predicted' = Predicted
      BY <1>0, <3>2, <3>3 DEF Predicted, OsKeyDown, Busy
    <3>4. Busy' <=> Busy
      BY <1>0 DEF Busy
    <3> QED BY <1>0, <3>1, <3>3, <3>4 DEF QueueFits
  <2> QED BY <2>1, <2>2 DEF Threads
<1> QED BY <1>6, <1>7, <1>8, <1>9, <1>10, <1>11

\* The two groups of a unit of text.
LEMMA SendKeyKeepsInv ==
    ASSUME Inv, NEW t \in Threads, SendKeyDown(t) \/ SendKeyUp(t)
    PROVE  Inv'
<1> USE DEF Inv
<1>0. /\ Delivering(t) /\ step[t] # "check" /\ job[t].kind = "text"
      /\ UNCHANGED <<queue, worker, lock, job, pending, os, wanted, nextId, closing>>
  BY DEF SendKeyDown, SendKeyUp, Steps
<1>1. /\ TypeOK /\ lock = t /\ job[t] \in Jobs /\ job[t] # NoJob /\ unit[t] \in 0..MaxUnits
      /\ job[t].units \in 1..MaxUnits /\ unit[t] < job[t].units
      /\ \A u \in Threads \ {t} : step[u] = "check" /\ job[u] = NoJob
      /\ t = "ui" => ~Busy
      /\ job[t].id \in 1..(MaxJobs + Cardinality(Modifiers))
  BY <1>0, DeliveringFacts, NoJobFacts DEF Steps, Jobs
<1>2. Numbers' /\ Handles' /\ SwitchesForeseen' /\ TextFits'
  BY <1>0 DEF Numbers, Handles, SwitchesForeseen, Foreseen, TextFits
<1>3. ASSUME unit' \in [Threads -> 0..MaxUnits],
             unit'["worker"] > 0 <=> unit["worker"] > 0 \/ t = "worker"
      PROVE  QueueFits'
  <2>1. t = "worker" => After(os, job["worker"]) = os
    BY <1>0 DEF After
  <2>2. Settled' = Settled
    BY <1>0, <1>3, <2>1 DEF Settled
  <2>3. Predicted' = Predicted /\ (Busy' <=> Busy)
    BY <1>0 DEF Predicted, OsKeyDown, Busy
  <2> QED BY <1>0, <2>2, <2>3 DEF QueueFits
<1>4. CASE SendKeyDown(t)
  <2>1. /\ key' = job[t].id /\ step' = [step EXCEPT ![t] = "up"] /\ UNCHANGED <<unit, last>>
    BY <1>4 DEF SendKeyDown
  <2>2. step' \in [Threads -> {"check", "down", "up"}] /\ step'[t] = "up"
        /\ \A u \in Threads \ {t} : step'[u] = "check"
    BY <1>1, <2>1 DEF TypeOK
  <2>3. TypeOK'
    BY <1>0, <1>1, <2>1, <2>2, CountAssumption, ConstantsAssumption DEF TypeOK
  <2>4. Steps'
    BY <1>0, <1>1, <2>1, <2>2 DEF Steps
  <2>5. KeyIsHeld'
    BY <2>2 DEF KeyIsHeld
  <2>6. QueueFits'
    BY <1>0, <2>1 DEF QueueFits, Settled, Predicted, OsKeyDown, Busy
  <2> QED BY <1>2, <2>3, <2>4, <2>5, <2>6
<1>5. CASE SendKeyUp(t)
  <2>1. /\ key' = 0 /\ unit' = [unit EXCEPT ![t] = unit[t] + 1] /\ last' = job[t].id
        /\ step' = [step EXCEPT ![t] = "check"]
    BY <1>5 DEF SendKeyUp
  <2>2. step' \in [Threads -> {"check", "down", "up"}] /\ \A u \in Threads : step'[u] = "check"
    BY <1>1, <2>1 DEF TypeOK
  <2>3. unit' \in [Threads -> 0..MaxUnits] /\ unit'[t] = unit[t] + 1
        /\ \A u \in Threads \ {t} : unit'[u] = unit[u]
    BY <1>1, <2>1, ConstantsAssumption DEF TypeOK
  <2>4. TypeOK'
    BY <1>0, <1>1, <2>1, <2>2, <2>3, CountAssumption, ConstantsAssumption DEF TypeOK
  <2>5. Steps'
    BY <1>0, <1>1, <2>2, <2>3 DEF Steps
  <2>6. KeyIsHeld'
    BY <2>1 DEF KeyIsHeld
  <2>7. QueueFits'
    BY <1>1, <1>3, <2>3 DEF Threads
  <2> QED BY <1>2, <2>4, <2>5, <2>6, <2>7
<1> QED BY <1>4, <1>5

-----------------------------------------------------------------------------
(* The theorems.                                                           *)

LEMMA NextInv == Inv /\ [Next]_vars => Inv'
<1> SUFFICES ASSUME Inv, [Next]_vars
             PROVE  Inv'
  OBVIOUS
<1>0. wanted \in SUBSET Modifiers
  BY DEF Inv, TypeOK
<1>1. CASE \E n \in 1..MaxUnits : SendText(n)
  BY <1>1, SendTextKeepsInv
<1>2. CASE \E m \in Modifiers : Toggle(m)
  <2>1. PICK m \in Modifiers : Toggle(m)
    BY <1>2
  <2>2. PICK kind \in {"hold", "release"} : Switch(kind, m)
    BY <2>1 DEF Toggle
  <2> QED BY <2>1, <2>2, SwitchKeepsInv DEF Toggle
<1>3. CASE Cancel \/ BeginShutdown
  BY <1>3, CancelKeepsInv DEF Cancel, BeginShutdown
<1>4. CASE AcquireInline \/ StartDraining \/ StopDraining \/ ReleaseOldLock
  BY <1>4, LockKeepsInv
<1>5. CASE PopJob
  BY <1>5, PopKeepsInv
<1>6. CASE \E t \in Threads : Deliver(t)
  BY <1>6, LoopKeepsInv, SendSwitchKeepsInv, SendKeyKeepsInv DEF Deliver
<1>7. CASE Joined \/ JoinTimesOut \/ Exit
  BY <1>7, ClosingKeepsInv
<1>8. CASE \E m \in Modifiers : ReleaseActive(m)
  BY <1>8, SwitchKeepsInv DEF ReleaseActive
<1>9. CASE UNCHANGED vars
  BY <1>9 DEF vars, Inv, TypeOK, Numbers, Handles, Steps, KeyIsHeld, SwitchesForeseen,
              Foreseen, TextFits, QueueFits, Settled, Predicted, OsKeyDown, Busy
<1> QED BY <1>1, <1>2, <1>3, <1>4, <1>5, <1>6, <1>7, <1>8, <1>9 DEF Next, Worker, Closing

\* Whatever is typed, toggled and cancelled while either thread is at work, and
\* through shutdown.
THEOREM InvHolds == Spec => []Inv
<1> QED BY InitInv, NextInv, PTL DEF Spec

\* TypeOK for every value of the constants: every burst that is handed in,
\* those of shutdown included, has a number of its own to be told by.
THEOREM TypeCorrect == Spec => []TypeOK
<1>1. Inv => TypeOK
  BY DEF Inv
<1> QED BY <1>1, InvHolds, PTL

\* A cancel, or a shutdown, that meets a burst between a key's two groups
\* (_deliver) leaves no key down once all is quiet.
THEOREM KeysComeUp == Spec => []NoKeyLeftDown
<1>1. Inv => NoKeyLeftDown
  BY DEF Inv, NoKeyLeftDown, Quiet, KeyIsHeld, Handles, Steps, Threads
<1> QED BY <1>1, InvHolds, PTL

\* _os_key_down predicts right: the modifiers a burst of text was built around
\* are those it meets, whatever was queued before it and whatever of that a
\* cancel took out.
THEOREM TextMeetsItsModifiers == Spec => []BuiltForWhatIsDown
<1>1. Inv => BuiltForWhatIsDown
  BY DEF Inv, BuiltForWhatIsDown, TextFits, Delivering
<1> QED BY <1>1, InvHolds, PTL

-----------------------------------------------------------------------------
(* The refinement of TypingQueue: what the units of a queue are.           *)

\* What is owed is made of these.
Units == [burst : Nat, text : BOOLEAN]

\* How FlattenSeq joins sequence i to those before it.
FlattenNext(s, f, i) == IF i = 1 THEN s[i] ELSE f[i - 1] \o s[i]

\* The function that FlattenSeq defines by recursion is there.
LEMMA FlattenExists ==
    ASSUME NEW s, Len(s) \in Nat \ {0}
    PROVE  \E f : /\ \A i \in 1..Len(s) : f[i] = FlattenNext(s, f, i)
                  /\ FlattenSeq(s) = f[Len(s)]
<1> DEFINE Flattens(f, n) == f = [i \in 1..n |-> FlattenNext(s, f, i)]
           S == {n \in Nat : \E f : Flattens(f, n)}
<1>1. 0 \in S
  <2>1. Flattens([i \in 1..0 |-> <<>>], 0)
    OBVIOUS
  <2> QED BY <2>1
<1>2. \A n \in 0..(Len(s) - 1) : n \in S => n + 1 \in S
  <2> SUFFICES ASSUME NEW n \in Nat, NEW f, Flattens(f, n)
               PROVE  \E g : Flattens(g, n + 1)
    OBVIOUS
  <2> DEFINE g == [i \in 1..(n + 1) |-> IF i <= n THEN f[i] ELSE FlattenNext(s, f, n + 1)]
  <2>1. \A i \in 1..n : g[i] = f[i] /\ f[i] = FlattenNext(s, f, i)
    OBVIOUS
  <2>2. \A i \in 1..(n + 1) : FlattenNext(s, g, i) = FlattenNext(s, f, i)
    <3> TAKE i \in 1..(n + 1)
    <3>1. CASE i = 1
      BY <3>1 DEF FlattenNext
    <3>2. CASE i # 1
      <4>1. g[i - 1] = f[i - 1]
        BY <2>1, <3>2
      <4> HIDE DEF g
      <4> QED BY <3>2, <4>1, Zenon DEF FlattenNext
    <3> QED BY <3>1, <3>2
  <2>3. \A i \in 1..(n + 1) : g[i] = FlattenNext(s, f, i)
    BY <2>1
  <2>4. \A i \in 1..(n + 1) : g[i] = FlattenNext(s, g, i)
    BY <2>2, <2>3
  <2>5. g = [i \in 1..(n + 1) |-> FlattenNext(s, g, i)]
    BY <2>4
  <2> QED BY <2>5
<1>3. Len(s) \in S
  <2> HIDE DEF S
  <2> QED BY <1>1, <1>2, Induction
<1>4. PICK k : Flattens(k, Len(s))
  BY <1>3
<1> DEFINE f == CHOOSE f : Flattens(f, Len(s))
<1>5. Flattens(f, Len(s))
  BY <1>4
<1>6. FlattenSeq(s) = f[Len(s)]
  BY Zenon DEF FlattenSeq, FlattenNext
<1>7. \A i \in 1..Len(s) : f[i] = FlattenNext(s, f, i)
  <2> HIDE DEF f
  <2> QED BY <1>5
<1> QED BY <1>6, <1>7

\* A sequence more joins its elements behind those of the others.
LEMMA FlattenAppend ==
    ASSUME NEW s \in Seq(Seq(Units)), NEW t \in Seq(Units)
    PROVE  /\ FlattenSeq(s) \in Seq(Units)
           /\ FlattenSeq(Append(s, t)) = FlattenSeq(s) \o t
<1> DEFINE n == Len(s)
           r == Append(s, t)
<1>1. /\ n \in Nat /\ Len(r) = n + 1 /\ r[n + 1] = t
      /\ \A i \in 1..n : r[i] = s[i] /\ s[i] \in Seq(Units)
  OBVIOUS
<1> HIDE DEF r
<1>2. PICK g : /\ \A i \in 1..(n + 1) : g[i] = FlattenNext(r, g, i)
               /\ FlattenSeq(r) = g[n + 1]
  <2> HIDE DEF n
  <2>1. Len(r) \in Nat \ {0} /\ Len(r) = n + 1
    BY <1>1
  <2> QED BY <2>1, FlattenExists
<1>3. CASE n = 0
  <2>1. s = <<>> /\ FlattenSeq(s) = s
    BY <1>3 DEF FlattenSeq
  <2>2. FlattenSeq(r) = t
    BY <1>1, <1>2, <1>3 DEF FlattenNext
  <2>3. <<>> \o t = t
    BY ConcatEmptySeq
  <2>4. <<>> \in Seq(Units)
    OBVIOUS
  <2> HIDE DEF n
  <2> QED BY <2>1, <2>2, <2>3, <2>4, Zenon DEF r
<1>4. CASE n # 0
  <2>1. PICK f : /\ \A i \in 1..n : f[i] = FlattenNext(s, f, i)
                 /\ FlattenSeq(s) = f[n]
    BY <1>1, <1>4, FlattenExists
  <2> DEFINE T == {i \in 0..n : i # 0 => f[i] = g[i] /\ f[i] \in Seq(Units)}
  <2> HIDE DEF n
  <2>2. 0 \in T
    BY <1>1
  <2>3. ASSUME NEW i \in 0..(n - 1), i \in T
        PROVE  i + 1 \in T
    <3> DEFINE k == i + 1
    <3>1. k \in 1..n /\ k \in 1..(n + 1) /\ k - 1 = i /\ k \in 0..n
      BY <1>1
    <3>2. r[k] = s[k] /\ s[k] \in Seq(Units)
      BY <1>1, <3>1
    <3>3. CASE i = 0
      BY <1>2, <2>1, <3>1, <3>2, <3>3 DEF FlattenNext
    <3>4. CASE i # 0
      <4>1. f[k] = f[i] \o s[k]
        <5>1. f[k] = FlattenNext(s, f, k) /\ k # 1
          BY <2>1, <3>1, <3>4
        <5> QED BY <3>1, <5>1, Zenon DEF FlattenNext
      <4>2. g[k] = g[i] \o r[k]
        <5>1. g[k] = FlattenNext(r, g, k) /\ k # 1
          BY <1>2, <3>1, <3>4
        <5> QED BY <3>1, <5>1, Zenon DEF FlattenNext
      <4>3. f[i] = g[i] /\ f[i] \in Seq(Units)
        BY <2>3, <3>4
      <4> HIDE DEF k
      <4>4. f[k] = g[k] /\ f[k] \in Seq(Units)
        BY <3>2, <4>1, <4>2, <4>3, ConcatProperties
      <4> QED BY <3>1, <4>4 DEF k
    <3> QED BY <3>3, <3>4
  <2>4. n \in T
    <3> HIDE DEF T
    <3> QED BY <1>1, <2>2, <2>3, Induction
  <2>5. f[n] = g[n] /\ f[n] \in Seq(Units)
    BY <1>4, <2>4
  <2>6. g[n + 1] = g[n] \o t
    <3>1. g[n + 1] = FlattenNext(r, g, n + 1) /\ n + 1 # 1 /\ (n + 1) - 1 = n
      BY <1>1, <1>2, <1>4
    <3> QED BY <1>1, <3>1, Zenon DEF FlattenNext
  <2> QED BY <1>2, <2>1, <2>5, <2>6 DEF r
<1> QED BY <1>3, <1>4

\* A job's units.
LEMMA UnitsFacts ==
    ASSUME NEW j \in Jobs, NEW n \in Nat
    PROVE  /\ UnitsOf(j, n) \in Seq(Units) /\ Len(UnitsOf(j, n)) = n
           /\ \A i \in 1..n : UnitsOf(j, n)[i] = [burst |-> j.id, text |-> (j.kind = "text")]
<1>1. [burst |-> j.id, text |-> (j.kind = "text")] \in Units
  <2>1. j.id \in 1..(MaxJobs + Cardinality(Modifiers))
    BY DEF Jobs
  <2>2. j.id \in Nat
    BY <2>1, ConstantsAssumption, CountAssumption
  <2> QED BY <2>2 DEF Units
<1> DEFINE u == [burst |-> j.id, text |-> (j.kind = "text")]
<1> HIDE DEF u
<1>2. UnitsOf(j, n) = [i \in 1..n |-> u]
  BY DEF UnitsOf, u
<1>3. [i \in 1..n |-> u] \in Seq(Units)
  BY <1>1 DEF u
<1>4. Len([i \in 1..n |-> u]) = n
  OBVIOUS
<1> QED BY <1>2, <1>3, <1>4 DEF u

\* A burst has a unit.
LEMMA UnitsNatural ==
    ASSUME NEW j \in Jobs
    PROVE  j.units \in Nat \ {0}
BY ConstantsAssumption DEF Jobs

\* No burst, no unit.
LEMMA FlatEmpty == Flat(<<>>) = <<>>
<1>1. [i \in DOMAIN <<>> |-> UnitsOf(<<>>[i], <<>>[i].units)] = <<>>
  OBVIOUS
<1> QED BY <1>1 DEF Flat, FlattenSeq

\* A burst queued puts its units behind the others.
LEMMA FlatAppend ==
    ASSUME NEW q \in Seq(Jobs), NEW j \in Jobs
    PROVE  /\ Flat(q) \in Seq(Units)
           /\ Flat(Append(q, j)) = Flat(q) \o UnitsOf(j, j.units)
<1> DEFINE s == [i \in DOMAIN q |-> UnitsOf(q[i], q[i].units)]
           t == UnitsOf(j, j.units)
           r == Append(q, j)
           w == [i \in DOMAIN r |-> UnitsOf(r[i], r[i].units)]
<1>1. \A i \in DOMAIN q : UnitsOf(q[i], q[i].units) \in Seq(Units)
  <2> TAKE i \in DOMAIN q
  <2>1. q[i] \in Jobs
    OBVIOUS
  <2> QED BY <2>1, UnitsFacts, UnitsNatural
<1>2. s \in Seq(Seq(Units)) /\ Len(s) = Len(q) /\ Len(q) \in Nat /\ DOMAIN q = 1..Len(q)
  BY <1>1
<1>3. t \in Seq(Units)
  BY UnitsFacts, UnitsNatural
<1>4. /\ Len(r) = Len(q) + 1 /\ r[Len(q) + 1] = j
      /\ \A i \in 1..Len(q) : r[i] = q[i]
      /\ DOMAIN r = 1..(Len(q) + 1)
  OBVIOUS
<1>5. /\ w = [i \in 1..(Len(q) + 1) |-> UnitsOf(r[i], r[i].units)]
      /\ \A i \in 1..Len(q) : w[i] = s[i]
      /\ w[Len(q) + 1] = t
  BY <1>2, <1>4
<1> HIDE DEF s, r, t
<1>6. w = Append(s, t)
  <2>1. w \in Seq(Seq(Units)) /\ Append(s, t) \in Seq(Seq(Units))
    <3>0. \A i \in 1..Len(q) : w[i] \in Seq(Units)
      <4> TAKE i \in 1..Len(q)
      <4>1. s[i] \in Seq(Units)
        BY <1>2, ElementOfSeq
      <4> HIDE DEF w
      <4> QED BY <1>5, <4>1, Zenon
    <3>1. \A i \in 1..(Len(q) + 1) : w[i] \in Seq(Units)
      <4> TAKE i \in 1..(Len(q) + 1)
      <4>1. i \in 1..Len(q) \/ i = Len(q) + 1
        BY <1>2
      <4> HIDE DEF w
      <4> QED BY <1>3, <1>5, <3>0, <4>1, Zenon
    <3>2. w = [i \in 1..(Len(q) + 1) |-> w[i]]
      BY <1>5
    <3> HIDE DEF w
    <3> QED BY <1>2, <1>3, <3>1, <3>2
  <2>2. Len(w) = Len(q) + 1
    BY <1>2, <1>5
  <2> HIDE DEF w
  <2>3. \A i \in 1..(Len(q) + 1) : w[i] = Append(s, t)[i]
    <3> DEFINE a == Append(s, t)
    <3>1. (\A i \in 1..Len(s) : a[i] = s[i]) /\ a[Len(s) + 1] = t
      BY <1>2, <1>3
    <3> HIDE DEF a
    <3> TAKE i \in 1..(Len(q) + 1)
    <3>2. i \in 1..Len(q) \/ i = Len(q) + 1
      BY <1>2
    <3>3. w[i] = a[i]
      BY <1>2, <1>5, <3>1, <3>2, Zenon
    <3> QED BY <3>3 DEF a
  <2>4. Len(Append(s, t)) = Len(q) + 1
    BY <1>2, <1>3
  <2> QED BY <2>1, <2>2, <2>3, <2>4, SeqEqual
<1>7. FlattenSeq(s) = Flat(q) /\ FlattenSeq(w) = Flat(r)
  BY DEF Flat, s
<1> QED BY <1>2, <1>3, <1>6, <1>7, FlattenAppend DEF r, t

\* A prefix grows by its next element.
LEMMA PrefixGrows ==
    ASSUME NEW S, NEW s \in Seq(S), NEW i \in 0..(Len(s) - 1)
    PROVE  /\ SubSeq(s, 1, i) \in Seq(S) /\ s[i + 1] \in S
           /\ SubSeq(s, 1, i + 1) = Append(SubSeq(s, 1, i), s[i + 1])
<1>1. Len(s) \in Nat /\ i + 1 \in 1..Len(s) /\ \A k \in 1..Len(s) : s[k] \in S
  OBVIOUS
<1> DEFINE p == SubSeq(s, 1, i)
           r == SubSeq(s, 1, i + 1)
           e == s[i + 1]
           a == Append(p, e)
<1>2. /\ p \in Seq(S) /\ Len(p) = i
      /\ \A k \in 1..i : p[k] = s[k]
  <2>1. \A k \in 1..i : s[k] \in S
    BY <1>1
  <2>2. /\ p \in Seq(S) /\ Len(p) = IF 1 <= i THEN i - 1 + 1 ELSE 0
        /\ \A k \in 1..(i - 1 + 1) : p[k] = s[1 + k - 1]
    BY <2>1, <1>1, SubSeqProperties
  <2> HIDE DEF p
  <2> QED BY <2>2
<1>3. /\ r \in Seq(S) /\ Len(r) = i + 1
      /\ \A k \in 1..(i + 1) : r[k] = s[k]
  <2>1. \A k \in 1..(i + 1) : s[k] \in S
    BY <1>1
  <2>2. /\ r \in Seq(S) /\ Len(r) = IF 1 <= i + 1 THEN (i + 1) - 1 + 1 ELSE 0
        /\ \A k \in 1..((i + 1) - 1 + 1) : r[k] = s[1 + k - 1]
    BY <2>1, <1>1, SubSeqProperties
  <2> HIDE DEF r
  <2> QED BY <2>2
<1>4. e \in S
  BY <1>1
<1> HIDE DEF p, r, e
<1>5. /\ a \in Seq(S) /\ Len(a) = i + 1 /\ a[i + 1] = e
      /\ \A k \in 1..i : a[k] = p[k]
  BY <1>2, <1>4
<1> HIDE DEF a
<1>6. \A k \in 1..(i + 1) : r[k] = a[k]
  <2> TAKE k \in 1..(i + 1)
  <2>1. CASE k = i + 1
    BY <1>3, <1>5, <2>1 DEF e
  <2>2. CASE k # i + 1
    <3>1. k \in 1..i
      BY <2>2
    <3>2. r[k] = s[k] /\ p[k] = s[k] /\ a[k] = p[k]
      BY <1>2, <1>3, <1>5, <3>1, Zenon
    <3> QED BY <3>2
  <2> QED BY <2>1, <2>2
<1>7. r = a
  BY <1>3, <1>5, <1>6, SeqEqual
<1> QED BY <1>2, <1>4, <1>7 DEF p, r, e, a

\* A queue's units are those of its first burst and of the rest.
LEMMA FlatTail ==
    ASSUME NEW q \in Seq(Jobs), q # <<>>
    PROVE  /\ Head(q) \in Jobs /\ Tail(q) \in Seq(Jobs)
           /\ Flat(q) = UnitsOf(Head(q), Head(q).units) \o Flat(Tail(q))
<1> DEFINE t == Tail(q)
           j == Head(q)
           n == Len(t)
           h == UnitsOf(j, j.units)
           T == {i \in 0..n : Flat(SubSeq(q, 1, i + 1)) = h \o Flat(SubSeq(t, 1, i))}
<1>1. /\ t \in Seq(Jobs) /\ j \in Jobs /\ n \in Nat /\ Len(q) = n + 1 /\ q[1] = j
      /\ \A i \in 1..n : t[i] = q[i + 1]
  OBVIOUS
<1>2. h \in Seq(Units)
  BY <1>1, UnitsFacts, UnitsNatural
<1> HIDE DEF j, t, h, n
<1>3. 0 \in T
  <2>1. SubSeq(q, 1, 0) = <<>> /\ SubSeq(t, 1, 0) = <<>>
    BY SubSeqEmpty
  <2>2. 0 \in 0..(Len(q) - 1) /\ 0 + 1 = 1
    BY <1>1
  <2>3. SubSeq(q, 1, 0 + 1) = Append(<<>>, j)
    BY <1>1, <2>1, <2>2, PrefixGrows
  <2>4. <<>> \in Seq(Jobs)
    OBVIOUS
  <2>5. Flat(Append(<<>>, j)) = Flat(<<>>) \o h
    BY <1>1, <2>4, FlatAppend DEF h
  <2>6. <<>> \o h = h /\ h \o <<>> = h
    BY <1>2, ConcatEmptySeq
  <2>7. Flat(SubSeq(q, 1, 0 + 1)) = h \o Flat(SubSeq(t, 1, 0))
    BY <2>1, <2>3, <2>5, <2>6, FlatEmpty, Zenon
  <2>8. 0 \in 0..n
    BY <1>1
  <2> QED BY <2>7, <2>8
<1>4. ASSUME NEW i \in 0..(n - 1), i \in T
      PROVE  i + 1 \in T
  <2> DEFINE p == SubSeq(q, 1, i + 1)
             r == SubSeq(t, 1, i)
             e == t[i + 1]
             u == UnitsOf(e, e.units)
  <2>1. i \in 0..(Len(t) - 1) /\ i + 1 \in 0..(Len(q) - 1) /\ i + 1 \in 1..n /\ i + 1 \in 0..n
    BY <1>1 DEF n
  <2>2. /\ r \in Seq(Jobs) /\ e \in Jobs
        /\ SubSeq(t, 1, i + 1) = Append(r, e)
    BY <1>1, <2>1, PrefixGrows
  <2>3. /\ p \in Seq(Jobs) /\ SubSeq(q, 1, (i + 1) + 1) = Append(p, q[(i + 1) + 1])
    BY <2>1, PrefixGrows
  <2>4. q[(i + 1) + 1] = e
    BY <1>1, <2>1
  <2>5. Flat(p) = h \o Flat(r)
    BY <1>4
  <2>6. u \in Seq(Units)
    BY <2>2, UnitsFacts, UnitsNatural
  <2> HIDE DEF p, r, e, T
  <2>7. Flat(Append(p, e)) = Flat(p) \o u /\ Flat(Append(r, e)) = Flat(r) \o u
    BY <2>2, <2>3, FlatAppend
  <2>8. Flat(r) \in Seq(Units)
    BY <2>2, FlatAppend
  <2> HIDE DEF u
  <2>9. (h \o Flat(r)) \o u = h \o (Flat(r) \o u)
    BY <1>2, <2>6, <2>8, ConcatAssociative
  <2>10. Flat(SubSeq(q, 1, (i + 1) + 1)) = h \o Flat(SubSeq(t, 1, i + 1))
    BY <2>2, <2>3, <2>4, <2>5, <2>7, <2>9, Zenon
  <2> QED BY <2>1, <2>10 DEF T
<1>5. n \in T
  <2> HIDE DEF T
  <2> QED BY <1>1, <1>3, <1>4, Induction
<1>6. SubSeq(q, 1, n + 1) = q /\ SubSeq(t, 1, n) = t
  BY <1>1, SubSeqFull DEF n
<1>7. Flat(q) = h \o Flat(t)
  BY <1>5, <1>6
<1> QED BY <1>1, <1>7 DEF h, j, t

-----------------------------------------------------------------------------
(* What a cancel leaves of the units.                                      *)

\* How Switches keeps unit i.
SwitchesNext(s, kept, i) ==
    IF i = 0 THEN <<>>
    ELSE IF s[i].text THEN kept[i - 1]
    ELSE Append(kept[i - 1], s[i])

\* The function that Switches defines by recursion is there.
LEMMA SwitchesExist ==
    ASSUME NEW s, Len(s) \in Nat
    PROVE  \E kept : /\ \A i \in 0..Len(s) : kept[i] = SwitchesNext(s, kept, i)
                     /\ Abstract!Switches(s) = kept[Len(s)]
<1> DEFINE Kept(k, n) == k = [i \in 0..n |-> SwitchesNext(s, k, i)]
           S == {n \in Nat : \E k : Kept(k, n)}
<1>1. 0 \in S
  <2>1. Kept([i \in 0..0 |-> <<>>], 0)
    BY DEF SwitchesNext
  <2> QED BY <2>1
<1>2. \A n \in 0..(Len(s) - 1) : n \in S => n + 1 \in S
  <2> SUFFICES ASSUME NEW n \in Nat, NEW k, Kept(k, n)
               PROVE  \E g : Kept(g, n + 1)
    OBVIOUS
  <2> DEFINE g == [i \in 0..(n + 1) |-> IF i <= n THEN k[i] ELSE SwitchesNext(s, k, n + 1)]
  <2>1. \A i \in 0..n : g[i] = k[i] /\ k[i] = SwitchesNext(s, k, i)
    OBVIOUS
  <2>2. \A i \in 0..(n + 1) : SwitchesNext(s, g, i) = SwitchesNext(s, k, i)
    BY <2>1 DEF SwitchesNext
  <2>3. \A i \in 0..(n + 1) : g[i] = SwitchesNext(s, g, i)
    BY <2>1, <2>2
  <2>4. g = [i \in 0..(n + 1) |-> SwitchesNext(s, g, i)]
    BY <2>3
  <2> QED BY <2>4
<1>3. Len(s) \in S
  <2> HIDE DEF S
  <2> QED BY <1>1, <1>2, Induction
<1>4. PICK k : Kept(k, Len(s))
  BY <1>3
<1> DEFINE kept == CHOOSE f : Kept(f, Len(s))
<1>5. Kept(kept, Len(s))
  BY <1>4
<1>6. Abstract!Switches(s) = kept[Len(s)]
  BY DEF Abstract!Switches, SwitchesNext
<1>7. \A i \in 0..Len(s) : kept[i] = SwitchesNext(s, kept, i)
  <2> HIDE DEF kept
  <2> QED BY <1>5
<1> QED BY <1>6, <1>7

\* Nothing owed, nothing kept.
LEMMA SwitchesEmpty == Abstract!Switches(<<>>) = <<>>
<1>1. Len(<<>>) = 0
  OBVIOUS
<1>2. PICK kept : /\ \A i \in 0..0 : kept[i] = SwitchesNext(<<>>, kept, i)
                  /\ Abstract!Switches(<<>>) = kept[0]
  BY <1>1, SwitchesExist
<1> QED BY <1>2 DEF SwitchesNext

\* Whether the last unit is kept.
LEMMA SwitchesAppend ==
    ASSUME NEW s \in Seq(Units), NEW u \in Units
    PROVE  /\ Abstract!Switches(s) \in Seq(Units)
           /\ Abstract!Switches(Append(s, u)) =
                IF u.text THEN Abstract!Switches(s) ELSE Append(Abstract!Switches(s), u)
<1> DEFINE n == Len(s)
           r == Append(s, u)
<1>1. n \in Nat /\ Len(r) = n + 1 /\ r[n + 1] = u /\ \A i \in 1..n : r[i] = s[i] /\ s[i] \in Units
  OBVIOUS
<1>2. PICK f : /\ \A i \in 0..n : f[i] = SwitchesNext(s, f, i)
               /\ Abstract!Switches(s) = f[n]
  BY <1>1, SwitchesExist
<1> HIDE DEF r
<1>3. PICK g : /\ \A i \in 0..(n + 1) : g[i] = SwitchesNext(r, g, i)
               /\ Abstract!Switches(r) = g[n + 1]
  <2> HIDE DEF n
  <2>1. Len(r) \in Nat /\ Len(r) = n + 1
    BY <1>1
  <2> QED BY <2>1, SwitchesExist
<1> DEFINE T == {i \in 0..n : f[i] = g[i] /\ f[i] \in Seq(Units)}
<1> HIDE DEF n
<1>4. 0 \in T
  <2>1. f[0] = <<>> /\ g[0] = <<>>
    BY <1>1, <1>2, <1>3 DEF SwitchesNext
  <2>2. f[0] \in Seq(Units)
    BY <2>1
  <2>3. 0 \in 0..n
    BY <1>1
  <2> QED BY <2>1, <2>2, <2>3, Zenon
<1>5. ASSUME NEW i \in 0..(n - 1), i \in T
      PROVE  i + 1 \in T
  <2> DEFINE k == i + 1
  <2>1. k \in 1..n /\ k \in 0..n /\ k \in 0..(n + 1) /\ k - 1 = i /\ k # 0
    BY <1>1
  <2>2. f[k] = SwitchesNext(s, f, k) /\ g[k] = SwitchesNext(r, g, k)
    BY <1>2, <1>3, <2>1
  <2>3. r[k] = s[k] /\ s[k] \in Units
    BY <1>1, <2>1
  <2> HIDE DEF k
  <2>4. f[i] = g[i] /\ f[i] \in Seq(Units)
    BY <1>5
  <2>5. f[k] = g[k] /\ f[k] \in Seq(Units)
    BY <2>1, <2>2, <2>3, <2>4 DEF SwitchesNext
  <2> QED BY <2>1, <2>5 DEF k
<1>6. n \in T
  <2> HIDE DEF T
  <2> QED BY <1>1, <1>4, <1>5, Induction
<1>7. g[n + 1] = SwitchesNext(r, g, n + 1) /\ n + 1 # 0 /\ (n + 1) - 1 = n
  BY <1>1, <1>3
<1>8. g[n + 1] = IF u.text THEN g[n] ELSE Append(g[n], u)
  BY <1>1, <1>7, Zenon DEF SwitchesNext
<1> QED BY <1>2, <1>3, <1>6, <1>8 DEF r

\* An element more at the end of the second of two sequences.
LEMMA ConcatAppend ==
    ASSUME NEW S, NEW s \in Seq(S), NEW t \in Seq(S), NEW e \in S
    PROVE  s \o t \in Seq(S) /\ s \o Append(t, e) = Append(s \o t, e)
<1> DEFINE c == s \o t
           a == Append(t, e)
           l == s \o a
           r == Append(c, e)
<1>1. /\ c \in Seq(S) /\ Len(c) = Len(s) + Len(t)
      /\ \A i \in 1..(Len(s) + Len(t)) : c[i] = IF i <= Len(s) THEN s[i] ELSE t[i - Len(s)]
  BY ConcatProperties
<1>2. /\ a \in Seq(S) /\ Len(a) = Len(t) + 1 /\ a[Len(t) + 1] = e
      /\ \A i \in 1..Len(t) : a[i] = t[i]
  OBVIOUS
<1> HIDE DEF c, a
<1>3. /\ l \in Seq(S) /\ Len(l) = Len(s) + Len(a)
      /\ \A i \in 1..(Len(s) + Len(a)) : l[i] = IF i <= Len(s) THEN s[i] ELSE a[i - Len(s)]
  BY <1>2, ConcatProperties
<1>5. Len(s) \in Nat /\ Len(t) \in Nat
  OBVIOUS
<1>4. /\ r \in Seq(S) /\ Len(r) = Len(s) + Len(t) + 1 /\ r[Len(s) + Len(t) + 1] = e
      /\ \A i \in 1..(Len(s) + Len(t)) : r[i] = c[i]
  <2>1. /\ r \in Seq(S) /\ Len(r) = Len(c) + 1 /\ r[Len(c) + 1] = e
        /\ \A i \in 1..Len(c) : r[i] = c[i]
    <3>1. c \in Seq(S)
      BY <1>1
    <3> QED BY <3>1
  <2> HIDE DEF r
  <2> QED BY <1>1, <2>1
<1> HIDE DEF l, r
<1>6. \A i \in 1..Len(l) : l[i] = r[i]
  <2> TAKE i \in 1..Len(l)
  <2>1. CASE i <= Len(s)
    <3>1. i \in 1..(Len(s) + Len(a)) /\ i \in 1..(Len(s) + Len(t))
      BY <1>2, <1>3, <1>5, <2>1
    <3>2. l[i] = s[i] /\ c[i] = s[i] /\ r[i] = c[i]
      BY <1>1, <1>3, <1>4, <2>1, <3>1, Zenon
    <3> QED BY <3>2
  <2>2. CASE i > Len(s) /\ i <= Len(s) + Len(t)
    <3>1. /\ i - Len(s) \in 1..Len(t) /\ ~(i <= Len(s))
          /\ i \in 1..(Len(s) + Len(a)) /\ i \in 1..(Len(s) + Len(t))
      BY <1>2, <1>3, <1>5, <2>2
    <3>2. l[i] = a[i - Len(s)] /\ c[i] = t[i - Len(s)] /\ r[i] = c[i]
      BY <1>1, <1>3, <1>4, <3>1, Zenon
    <3> QED BY <1>2, <3>1, <3>2
  <2>3. CASE i = Len(s) + Len(t) + 1
    BY <1>1, <1>2, <1>3, <1>4, <1>5, <2>3
  <2> QED BY <1>2, <1>3, <1>5, <2>1, <2>2, <2>3
<1>7. Len(l) = Len(r)
  BY <1>1, <1>2, <1>3, <1>4, <1>5
<1>8. l = r
  BY <1>3, <1>4, <1>6, <1>7, SeqEqual
<1> QED BY <1>1, <1>8 DEF l, r, a, c

\* A cancel looks at each unit for itself.
LEMMA SwitchesConcat ==
    ASSUME NEW s \in Seq(Units), NEW t \in Seq(Units)
    PROVE  Abstract!Switches(s \o t) = Abstract!Switches(s) \o Abstract!Switches(t)
<1> DEFINE W(q) == Abstract!Switches(q)
           n == Len(t)
           T == {i \in 0..n : W(s \o SubSeq(t, 1, i)) = W(s) \o W(SubSeq(t, 1, i))}
<1>0. \A q \in Seq(Units) : W(q) \in Seq(Units)
  <2> TAKE q \in Seq(Units)
  <2>1. [burst |-> 0, text |-> TRUE] \in Units
    BY DEF Units
  <2> QED BY <2>1, SwitchesAppend
<1>1. n \in Nat
  OBVIOUS
<1>2. 0 \in T
  <2>1. SubSeq(t, 1, 0) = <<>>
    BY SubSeqEmpty
  <2>2. s \o <<>> = s /\ W(s) \o <<>> = W(s)
    <3> HIDE DEF W
    <3> QED BY <1>0, ConcatEmptySeq
  <2>3. W(s \o SubSeq(t, 1, 0)) = W(s) \o W(SubSeq(t, 1, 0))
    BY <2>1, <2>2, SwitchesEmpty, Zenon
  <2>4. 0 \in 0..n
    BY <1>1
  <2> HIDE DEF n
  <2> QED BY <2>3, <2>4, Zenon
<1>3. ASSUME NEW i \in 0..(n - 1), i \in T
      PROVE  i + 1 \in T
  <2> DEFINE p == SubSeq(t, 1, i)
             e == t[i + 1]
  <2>1. p \in Seq(Units) /\ e \in Units /\ SubSeq(t, 1, i + 1) = Append(p, e)
    BY PrefixGrows
  <2>2. W(s \o p) = W(s) \o W(p)
    BY <1>3
  <2>3. i + 1 \in 0..n
    BY <1>1
  <2> HIDE DEF p, e, T, n
  <2>4. s \o p \in Seq(Units) /\ s \o Append(p, e) = Append(s \o p, e)
    BY <2>1, ConcatAppend
  <2>5. /\ W(Append(s \o p, e)) = IF e.text THEN W(s \o p) ELSE Append(W(s \o p), e)
        /\ W(Append(p, e)) = IF e.text THEN W(p) ELSE Append(W(p), e)
    BY <2>1, <2>4, SwitchesAppend
  <2>6. W(s) \in Seq(Units) /\ W(p) \in Seq(Units)
    BY <1>0, <2>1
  <2> HIDE DEF W
  <2>7. W(s) \o Append(W(p), e) = Append(W(s) \o W(p), e)
    BY <2>1, <2>6, ConcatAppend
  <2>8. W(s \o SubSeq(t, 1, i + 1)) = W(s) \o W(SubSeq(t, 1, i + 1))
    BY <2>1, <2>2, <2>4, <2>5, <2>7, Zenon
  <2> QED BY <2>3, <2>8 DEF T
<1>4. n \in T
  <2> HIDE DEF T
  <2> QED BY <1>1, <1>2, <1>3, Induction
<1>5. SubSeq(t, 1, n) = t
  BY SubSeqFull
<1> QED BY <1>4, <1>5

\* The units of a burst, from the front and from the end.
LEMMA UnitsEnds ==
    ASSUME NEW j \in Jobs, NEW n \in Nat
    PROVE  LET u == [burst |-> j.id, text |-> (j.kind = "text")]
           IN  /\ u \in Units
               /\ UnitsOf(j, 0) = <<>>
               /\ UnitsOf(j, n + 1) = Append(UnitsOf(j, n), u)
               /\ UnitsOf(j, n + 1) = <<u>> \o UnitsOf(j, n)
<1> DEFINE u == [burst |-> j.id, text |-> (j.kind = "text")]
           a == Append(UnitsOf(j, n), u)
           b == <<u>> \o UnitsOf(j, n)
           c == UnitsOf(j, n + 1)
           d == UnitsOf(j, n)
<1>1. n + 1 \in Nat /\ 1 \in 1..(n + 1)
  OBVIOUS
<1>2. /\ c \in Seq(Units) /\ Len(c) = n + 1
      /\ \A i \in 1..(n + 1) : c[i] = u
  BY <1>1, UnitsFacts
<1>3. /\ d \in Seq(Units) /\ Len(d) = n
      /\ \A i \in 1..n : d[i] = u
  BY UnitsFacts
<1>4. u \in Units
  <2>1. c[1] \in Units
    BY <1>1, <1>2, ElementOfSeq
  <2> QED BY <1>1, <1>2, <2>1
<1> HIDE DEF u
<1>5. UnitsOf(j, 0) = <<>>
  BY DEF UnitsOf
<1> HIDE DEF c
<1>6. a \in Seq(Units) /\ Len(a) = n + 1 /\ \A i \in 1..(n + 1) : a[i] = u
  <2> HIDE DEF d
  <2>1. Append(d, u) \in Seq(Units) /\ Len(Append(d, u)) = n + 1
    BY <1>3, <1>4
  <2>2. \A i \in 1..(n + 1) : Append(d, u)[i] = u
    <3> TAKE i \in 1..(n + 1)
    <3>1. CASE i = n + 1
      BY <1>3, <1>4, <3>1
    <3>2. CASE i # n + 1
      <4>1. i \in 1..n
        BY <3>2
      <4> QED BY <1>3, <1>4, <4>1
    <3> QED BY <3>1, <3>2
  <2> QED BY <2>1, <2>2 DEF d
<1>7. b \in Seq(Units) /\ Len(b) = n + 1 /\ \A i \in 1..(n + 1) : b[i] = u
  <2> DEFINE o == <<u>>
  <2>1. o \in Seq(Units) /\ Len(o) = 1 /\ o[1] = u
    BY <1>4
  <2> HIDE DEF o, d
  <2>2. /\ o \o d \in Seq(Units) /\ Len(o \o d) = 1 + n
        /\ \A i \in 1..(1 + n) : (o \o d)[i] = IF i <= 1 THEN o[i] ELSE d[i - 1]
    <3>1. /\ o \o d \in Seq(Units) /\ Len(o \o d) = Len(o) + Len(d)
          /\ \A i \in 1..(Len(o) + Len(d)) :
               (o \o d)[i] = IF i <= Len(o) THEN o[i] ELSE d[i - Len(o)]
      BY <1>3, <2>1, ConcatProperties
    <3> QED BY <1>3, <2>1, <3>1, Zenon
  <2> DEFINE e == o \o d
  <2> HIDE DEF e
  <2>3. \A i \in 1..(n + 1) : e[i] = u
    <3> TAKE i \in 1..(n + 1)
    <3>1. CASE i = 1
      BY <2>1, <2>2, <3>1 DEF e
    <3>2. CASE i # 1
      <4>1. i - 1 \in 1..n /\ i \in 1..(1 + n) /\ ~(i <= 1)
        BY <3>2
      <4> QED BY <1>3, <2>2, <4>1 DEF e
    <3> QED BY <3>1, <3>2
  <2>4. 1 + n = n + 1
    OBVIOUS
  <2> QED BY <2>2, <2>3, <2>4 DEF e, o, d
<1> HIDE DEF a, b
<1>8. c = a
  BY <1>2, <1>6, SeqEqual
<1>9. c = b
  BY <1>2, <1>7, SeqEqual
<1> QED BY <1>4, <1>5, <1>8, <1>9 DEF u, a, b, c

\* A cancel keeps all the units of a burst or none.
LEMMA SwitchesOfUnits ==
    ASSUME NEW j \in Jobs, NEW n \in Nat
    PROVE  Abstract!Switches(UnitsOf(j, n)) =
             IF j.kind = "text" THEN <<>> ELSE UnitsOf(j, n)
<1> DEFINE u == [burst |-> j.id, text |-> (j.kind = "text")]
           U(i) == UnitsOf(j, i)
           W(q) == Abstract!Switches(q)
           T == {i \in Nat : W(U(i)) = IF j.kind = "text" THEN <<>> ELSE U(i)}
<1>1. \A i \in Nat : /\ U(i) \in Seq(Units) /\ u \in Units
                     /\ U(0) = <<>> /\ U(i + 1) = Append(U(i), u)
  BY UnitsFacts, UnitsEnds
<1>2. u.text <=> j.kind = "text"
  OBVIOUS
<1>3. 0 \in T
  BY <1>1, SwitchesEmpty
<1>4. ASSUME NEW i \in Nat, i \in T
      PROVE  i + 1 \in T
  <2> HIDE DEF u, U
  <2>1. W(Append(U(i), u)) = IF u.text THEN W(U(i)) ELSE Append(W(U(i)), u)
    BY <1>1, SwitchesAppend
  <2>2. W(U(i)) = IF j.kind = "text" THEN <<>> ELSE U(i)
    BY <1>4
  <2> HIDE DEF W
  <2>3. W(U(i + 1)) = IF j.kind = "text" THEN <<>> ELSE U(i + 1)
    BY <1>1, <1>2, <2>1, <2>2, Zenon
  <2> QED BY <2>3
<1>5. n \in T
  <2> HIDE DEF T
  <2>1. \A i \in 0..(n - 1) : i \in T => i + 1 \in T
    BY <1>4
  <2> QED BY <1>3, <2>1, Induction
<1> QED BY <1>5

\* Cancelling bursts in the queue is cancelling their units.
LEMMA FlatUncancellable ==
    ASSUME NEW q \in Seq(Jobs)
    PROVE  /\ Uncancellable(q) \in Seq(Jobs)
           /\ Flat(Uncancellable(q)) = Abstract!Switches(Flat(q))
<1> DEFINE W(r) == Abstract!Switches(r)
           n == Len(q)
           P(i) == SubSeq(q, 1, i)
<1>1. n \in Nat
  OBVIOUS
<1>2. PICK kept : /\ kept = [i \in 0..n |-> KeptNext(q, kept, i)]
                  /\ Uncancellable(q) = kept[n]
  BY <1>1, KeptExists
<1>3. \A i \in 0..n : kept[i] = KeptNext(q, kept, i)
  BY <1>2
<1> DEFINE T == {i \in 0..n : kept[i] \in Seq(Jobs) /\ Flat(kept[i]) = W(Flat(P(i)))}
<1>4. 0 \in T
  <2>1. kept[0] = <<>>
    BY <1>1, <1>3 DEF KeptNext
  <2>2. P(0) = <<>>
    BY SubSeqEmpty
  <2>3. kept[0] \in Seq(Jobs) /\ Flat(kept[0]) = W(Flat(P(0)))
    <3>1. <<>> \in Seq(Jobs)
      OBVIOUS
    <3> HIDE DEF P
    <3> QED BY <2>1, <2>2, <3>1, FlatEmpty, SwitchesEmpty, Zenon
  <2>4. 0 \in 0..n
    BY <1>1
  <2> HIDE DEF P, W
  <2> QED BY <2>3, <2>4
<1>5. ASSUME NEW i \in 0..(n - 1), i \in T
      PROVE  i + 1 \in T
  <2> DEFINE k == i + 1
             j == q[k]
             u == UnitsOf(j, j.units)
             p == P(i)
  <2>1. k \in 1..n /\ k \in 0..n /\ k - 1 = i /\ k # 0
    BY <1>1
  <2>2. p \in Seq(Jobs) /\ j \in Jobs /\ P(k) = Append(p, j)
    BY PrefixGrows
  <2>3. kept[k] = IF j.kind = "text" THEN kept[i] ELSE Append(kept[i], j)
    <3>1. kept[k] = KeptNext(q, kept, k)
      BY <1>3, <2>1
    <3> QED BY <2>1, <3>1, Zenon DEF KeptNext
  <2>4. kept[i] \in Seq(Jobs) /\ Flat(kept[i]) = W(Flat(p))
    BY <1>5
  <2> HIDE DEF P, k, j, p, n
  <2>5. /\ Flat(Append(p, j)) = Flat(p) \o u
        /\ Flat(Append(kept[i], j)) = Flat(kept[i]) \o u
        /\ Flat(p) \in Seq(Units)
    BY <2>2, <2>4, FlatAppend
  <2>6. u \in Seq(Units) /\ W(u) = IF j.kind = "text" THEN <<>> ELSE u
    BY <2>2, UnitsFacts, UnitsNatural, SwitchesOfUnits
  <2> HIDE DEF u
  <2>7. W(Flat(p) \o u) = W(Flat(p)) \o W(u)
    BY <2>5, <2>6, SwitchesConcat
  <2>8. W(Flat(p)) \in Seq(Units)
    <3>1. [burst |-> 0, text |-> TRUE] \in Units
      BY DEF Units
    <3> QED BY <2>5, <3>1, SwitchesAppend
  <2> HIDE DEF W
  <2>9. W(Flat(p)) \o <<>> = W(Flat(p))
    BY <2>8, ConcatEmptySeq
  <2>10. Flat(kept[k]) = W(Flat(P(k)))
    BY <2>2, <2>3, <2>4, <2>5, <2>6, <2>7, <2>9, Zenon
  <2>11. kept[k] \in Seq(Jobs)
    BY <2>2, <2>3, <2>4
  <2> QED BY <2>1, <2>10, <2>11 DEF k, n
<1>6. n \in T
  <2> HIDE DEF T, n
  <2> QED BY <1>1, <1>4, <1>5, Induction
<1>7. P(n) = q
  BY SubSeqFull
<1> QED BY <1>2, <1>6, <1>7

\* The bursts of a queue number its units.
LEMMA FlatBelow ==
    ASSUME NEW q \in Seq(Jobs), NEW m, \A i \in DOMAIN q : q[i].id < m
    PROVE  \A i \in DOMAIN Flat(q) : Flat(q)[i].burst < m
<1> DEFINE B == {u \in Units : u.burst < m}
           n == Len(q)
           P(i) == SubSeq(q, 1, i)
           T == {i \in 0..n : Flat(P(i)) \in Seq(B)}
<1>1. n \in Nat /\ DOMAIN q = 1..n
  OBVIOUS
<1>2. 0 \in T
  <2>1. P(0) = <<>>
    BY SubSeqEmpty
  <2>2. 0 \in 0..n
    BY <1>1
  <2>3. Flat(P(0)) \in Seq(B)
    <3>1. <<>> \in Seq(B)
      OBVIOUS
    <3> HIDE DEF B, P
    <3> QED BY <2>1, <3>1, FlatEmpty, Zenon
  <2> HIDE DEF B, P
  <2> QED BY <2>2, <2>3
<1>3. ASSUME NEW i \in 0..(n - 1), i \in T
      PROVE  i + 1 \in T
  <2> DEFINE j == q[i + 1]
             p == P(i)
             u == UnitsOf(j, j.units)
  <2>1. p \in Seq(Jobs) /\ j \in Jobs /\ P(i + 1) = Append(p, j)
    BY PrefixGrows
  <2>2. j.id < m
    BY <1>1
  <2>3. Flat(p) \in Seq(B) /\ i + 1 \in 0..n
    BY <1>1, <1>3
  <2> HIDE DEF P, p, j, n
  <2>4. u \in Seq(B)
    <3>1. /\ u \in Seq(Units) /\ Len(u) = j.units /\ j.units \in Nat
          /\ \A l \in 1..j.units : u[l] = [burst |-> j.id, text |-> (j.kind = "text")]
      BY <2>1, UnitsFacts, UnitsNatural
    <3>2. \A l \in 1..j.units : u[l] \in Units
      BY <3>1, ElementOfSeq
    <3>3. \A l \in 1..j.units : u[l] \in B
      BY <2>2, <3>1, <3>2
    <3>4. u = [l \in 1..j.units |-> u[l]]
      BY UnitsNatural DEF u, UnitsOf
    <3> HIDE DEF u, B
    <3>5. [l \in 1..j.units |-> u[l]] \in Seq(B)
      BY <3>1, <3>3
    <3> QED BY <3>4, <3>5
  <2> HIDE DEF u, B
  <2>5. Flat(Append(p, j)) = Flat(p) \o u
    BY <2>1, FlatAppend DEF u
  <2>6. Flat(p) \o u \in Seq(B)
    BY <2>3, <2>4, ConcatProperties
  <2> QED BY <2>1, <2>3, <2>5, <2>6
<1>4. n \in T
  <2> HIDE DEF T, n
  <2> QED BY <1>1, <1>2, <1>3, Induction
<1>5. P(n) = q
  BY SubSeqFull
<1>6. Flat(q) \in Seq(B)
  BY <1>4, <1>5
<1> HIDE DEF P, T
<1> QED BY <1>6

\* An element in front of a sequence.
LEMMA ConsFacts ==
    ASSUME NEW S, NEW e \in S, NEW q \in Seq(S)
    PROVE  /\ <<e>> \o q # <<>>
           /\ Head(<<e>> \o q) = e /\ Tail(<<e>> \o q) = q
<1> DEFINE o == <<e>>
           r == o \o q
<1>1. o \in Seq(S) /\ Len(o) = 1 /\ o[1] = e
  OBVIOUS
<1> HIDE DEF o
<1>2. /\ r \in Seq(S) /\ Len(r) = 1 + Len(q)
      /\ \A i \in 1..(1 + Len(q)) : r[i] = IF i <= 1 THEN o[i] ELSE q[i - 1]
  <2>1. /\ r \in Seq(S) /\ Len(r) = Len(o) + Len(q)
        /\ \A i \in 1..(Len(o) + Len(q)) : r[i] = IF i <= Len(o) THEN o[i] ELSE q[i - Len(o)]
    BY <1>1, ConcatProperties
  <2> QED BY <1>1, <2>1, Zenon
<1> HIDE DEF r
<1>3. Len(q) \in Nat
  OBVIOUS
<1>4. r # <<>> /\ Head(r) = r[1] /\ r[1] = e
  BY <1>1, <1>2, <1>3
<1>5. /\ Tail(r) \in Seq(S) /\ Len(Tail(r)) = Len(r) - 1
      /\ \A i \in 1..Len(Tail(r)) : Tail(r)[i] = r[i + 1]
  BY <1>2, <1>4, HeadTailProperties
<1> DEFINE t == Tail(r)
<1> HIDE DEF t
<1>6. Len(t) = Len(q) /\ \A i \in 1..Len(t) : t[i] = q[i]
  <2>1. Len(t) = Len(q)
    BY <1>2, <1>3, <1>5 DEF t
  <2> SUFFICES ASSUME NEW i \in 1..Len(t)
               PROVE  t[i] = q[i]
    BY <2>1
  <2>2. i + 1 \in 1..(1 + Len(q)) /\ ~(i + 1 <= 1) /\ (i + 1) - 1 = i
    BY <1>3, <2>1
  <2>3. t[i] = r[i + 1]
    BY <1>5 DEF t
  <2> QED BY <1>2, <2>2, <2>3
<1>7. t = q
  BY <1>5, <1>6, SeqEqual DEF t
<1> QED BY <1>4, <1>7 DEF r, o, t

-----------------------------------------------------------------------------
(* Every step is a step of the abstract queue, or none.                    *)

\* Bursts are numbered as they are handed in, a queued one is not cancelled,
\* and no thread sends more units than there are.
Numbered ==
    /\ last < nextId
    /\ \A i \in DOMAIN queue : queue[i].id < nextId /\ ~queue[i].cancelled
    /\ \A t \in Threads :
         job[t] # NoJob => job[t].id < nextId /\ unit[t] <= job[t].units

\* What a thread owes is a sequence of units, of the burst it has.
LEMMA OwedFacts ==
    ASSUME Inv, Numbered, NEW t \in Threads
    PROVE  /\ OwedBy(t) \in Seq(Units) /\ Flat(queue) \in Seq(Units)
           /\ job[t] # NoJob => job[t] \in Jobs /\ Owed(t) \in Nat
           /\ \A i \in DOMAIN OwedBy(t) : OwedBy(t)[i].burst < nextId
<1>1. TypeOK /\ queue \in Seq(Jobs)
  BY DEF Inv, TypeOK
<1>2. Flat(queue) \in Seq(Units)
  <2>1. CASE queue = <<>>
    <3>1. <<>> \in Seq(Units)
      OBVIOUS
    <3> QED BY <2>1, <3>1, FlatEmpty, Zenon
  <2>2. CASE queue # <<>>
    <3>1. queue[1] \in Jobs
      BY <1>1, <2>2
    <3> QED BY <1>1, <3>1, FlatAppend
  <2> QED BY <2>1, <2>2
<1>3. CASE job[t] = NoJob
  <2>1. OwedBy(t) = <<>>
    BY <1>3 DEF OwedBy
  <2> QED BY <1>2, <1>3, <2>1
<1>4. CASE job[t] # NoJob
  <2>1. /\ job[t] \in Jobs /\ unit[t] \in 0..MaxUnits /\ job[t].id < nextId
        /\ unit[t] <= job[t].units
    BY <1>1, <1>4 DEF TypeOK, Numbered
  <2>2. job[t].units \in Nat
    BY <2>1, UnitsNatural
  <2>3. job[t].units - unit[t] \in Nat
    BY <2>1, <2>2, ConstantsAssumption
  <2>4. Owed(t) \in Nat
    BY <1>4, <2>3 DEF Owed
  <2>5. OwedBy(t) = UnitsOf(job[t], Owed(t))
    BY <1>4 DEF OwedBy
  <2> DEFINE u == UnitsOf(job[t], Owed(t))
  <2>6. /\ u \in Seq(Units) /\ Len(u) = Owed(t)
        /\ \A i \in 1..Owed(t) : u[i].burst = job[t].id
    <3>1. /\ u \in Seq(Units) /\ Len(u) = Owed(t)
          /\ \A i \in 1..Owed(t) :
               u[i] = [burst |-> job[t].id, text |-> (job[t].kind = "text")]
      BY <2>1, <2>4, UnitsFacts
    <3> HIDE DEF u
    <3> QED BY <3>1
  <2>7. DOMAIN u = 1..Owed(t)
    <3> HIDE DEF u
    <3> QED BY <2>6
  <2> HIDE DEF u
  <2>8. \A i \in DOMAIN u : u[i].burst < nextId
    BY <2>1, <2>6, <2>7
  <2> QED BY <1>2, <2>1, <2>4, <2>5, <2>6, <2>8 DEF u
<1> QED BY <1>3, <1>4

\* Where neither the queue nor a thread moves, nothing is owed less.
LEMMA SameBacklog ==
    ASSUME UNCHANGED <<queue, job, unit, step, last>>
    PROVE  UNCHANGED Abstract!vars
BY DEF Abstract!vars, Backlog, OwedBy, Owed

\* A thread that looks at its burst again: nothing is owed less.
LEMMA LoopOwesTheSame ==
    ASSUME Inv, Numbered, NEW t \in Threads,
           BeginUnit(t) \/ FinishJob(t) \/ SendKeyDown(t)
    PROVE  UNCHANGED Abstract!vars /\ Numbered'
<1>0. Delivering(t) /\ UNCHANGED <<queue, last, nextId>> /\ TypeOK /\ job[t] # NoJob
  BY DEF BeginUnit, FinishJob, SendKeyDown, Delivering, Inv
<1>1. ASSUME NEW u \in Threads
      PROVE  OwedBy(u)' = OwedBy(u)
  <2>1. CASE BeginUnit(t)
    <3>1. UNCHANGED <<job, unit>> /\ ~job[t].cancelled
      BY <2>1 DEF BeginUnit, More
    <3>2. u # t => step'[u] = step[u]
      BY <1>0, <2>1 DEF BeginUnit, TypeOK
    <3> QED BY <3>1, <3>2 DEF OwedBy, Owed
  <2>2. CASE SendKeyDown(t)
    <3>1. UNCHANGED <<job, unit>> /\ step[t] # "check"
      BY <2>2 DEF SendKeyDown
    <3>2. (u # t => step'[u] = step[u]) /\ (u = t => step'[u] # "check")
      BY <1>0, <2>2 DEF SendKeyDown, TypeOK
    <3> QED BY <3>1, <3>2 DEF OwedBy, Owed
  <2>3. CASE FinishJob(t)
    <3>1. /\ UNCHANGED step /\ step[t] = "check" /\ ~More(t)
          /\ job' = [job EXCEPT ![t] = NoJob] /\ unit' = [unit EXCEPT ![t] = 0]
      BY <2>3 DEF FinishJob
    <3>2. CASE u # t
      <4>1. job'[u] = job[u] /\ unit'[u] = unit[u] /\ step'[u] = step[u]
        BY <1>0, <3>1, <3>2 DEF TypeOK
      <4> QED BY <4>1 DEF OwedBy, Owed
    <3>3. CASE u = t
      <4>1. job'[u] = NoJob
        BY <1>0, <3>1, <3>3 DEF TypeOK
      <4>2. job[t] \in Jobs /\ unit[t] \in Nat /\ unit[t] <= job[t].units
        BY <1>0, ConstantsAssumption DEF TypeOK, Numbered
      <4>3. job[t].units \in Nat
        BY <4>2, UnitsNatural
      <4>4. Owed(t) = 0
        BY <1>0, <3>1, <4>2, <4>3 DEF Owed, More
      <4>5. OwedBy(t) = <<>>
        BY <1>0, <4>2, <4>4, UnitsEnds DEF OwedBy
      <4> QED BY <3>3, <4>1, <4>5 DEF OwedBy
    <3> QED BY <3>2, <3>3
  <2> QED BY <2>1, <2>2, <2>3
<1>2. OwedBy("ui")' = OwedBy("ui") /\ OwedBy("worker")' = OwedBy("worker")
  BY <1>1 DEF Threads
<1>3. Numbered'
  <2>1. \A u \in Threads : job'[u] # NoJob => job'[u] = job[u] /\ unit'[u] = unit[u]
    BY <1>0 DEF TypeOK, BeginUnit, FinishJob, SendKeyDown
  <2> QED BY <1>0, <2>1 DEF Numbered
<1> QED BY <1>0, <1>2, <1>3 DEF Abstract!vars, Backlog

\* The unit a thread has sent is the one the queue had in front.
LEMMA SendTypesUnit ==
    ASSUME Inv, Numbered, NEW t \in Threads, SendSwitch(t) \/ SendKeyUp(t)
    PROVE  Abstract!TypeUnit /\ Numbered'
<1> DEFINE k == Owed(t)
           b == OwedBy(t)
           c == Flat(queue)
           j == job[t]
<1>0. /\ Delivering(t) /\ step[t] # "check" /\ UNCHANGED <<queue, job, nextId>>
      /\ unit' = [unit EXCEPT ![t] = unit[t] + 1] /\ last' = j.id
      /\ step' = [step EXCEPT ![t] = "check"]
  BY DEF SendSwitch, SendKeyUp
<1>1. /\ TypeOK /\ j \in Jobs /\ j # NoJob /\ unit[t] \in 0..MaxUnits
      /\ \A u \in Threads \ {t} : job[u] = NoJob
      /\ unit[t] < j.units /\ j.units \in Nat
  BY <1>0, DeliveringFacts, NoJobFacts, UnitsNatural DEF Inv, Steps
<1>2. unit'[t] = unit[t] + 1 /\ step'[t] = "check" /\ unit[t] \in Nat
      /\ \A u \in Threads \ {t} : unit'[u] = unit[u]
  BY <1>0, <1>1, ConstantsAssumption DEF TypeOK
<1>3. k \in Nat /\ k # 0 /\ Owed(t)' = k - 1
  <2>1. CASE j.cancelled
    BY <1>0, <1>1, <1>2, <2>1 DEF Owed
  <2>2. CASE ~j.cancelled
    BY <1>0, <1>1, <1>2, <2>2 DEF Owed
  <2> QED BY <2>1, <2>2
<1>4. b = UnitsOf(j, k) /\ OwedBy(t)' = UnitsOf(j, k - 1)
  BY <1>0, <1>1, <1>3 DEF OwedBy
<1>5. \A u \in Threads \ {t} : OwedBy(u) = <<>> /\ OwedBy(u)' = <<>>
  BY <1>0, <1>1 DEF OwedBy
<1> DEFINE d == UnitsOf(j, k - 1)
           u == [burst |-> j.id, text |-> (j.kind = "text")]
<1>6. b = <<u>> \o d /\ u \in Units /\ d \in Seq(Units) /\ b \in Seq(Units)
  <2>1. k - 1 \in Nat /\ (k - 1) + 1 = k
    BY <1>3
  <2>2. u \in Units /\ UnitsOf(j, (k - 1) + 1) = <<u>> \o d
    BY <1>1, <2>1, UnitsEnds
  <2>3. d \in Seq(Units) /\ UnitsOf(j, k) \in Seq(Units)
    BY <1>1, <1>3, <2>1, UnitsFacts
  <2> HIDE DEF u, d, b
  <2> QED BY <1>4, <2>1, <2>2, <2>3 DEF b
<1>7. c \in Seq(Units) /\ c' = c
  BY <1>0, OwedFacts
<1>8. u.burst = j.id
  OBVIOUS
<1> HIDE DEF u, d, b, c, k
<1>9. Backlog = b \o c /\ Backlog' = d \o c
  <2>1. CASE t = "ui"
    <3>1. /\ OwedBy("worker") = <<>> /\ OwedBy("worker")' = <<>>
          /\ OwedBy("ui") = b /\ OwedBy("ui")' = d
      BY <1>4, <1>5, <2>1 DEF Threads, b, d
    <3>2. b \o <<>> = b /\ d \o <<>> = d
      BY <1>6, ConcatEmptySeq
    <3> QED BY <1>7, <3>1, <3>2 DEF Backlog, c
  <2>2. CASE t = "worker"
    <3>1. /\ OwedBy("ui") = <<>> /\ OwedBy("ui")' = <<>>
          /\ OwedBy("worker") = b /\ OwedBy("worker")' = d
      BY <1>4, <1>5, <2>2 DEF Threads, b, d
    <3>2. <<>> \o b = b /\ <<>> \o d = d
      BY <1>6, ConcatEmptySeq
    <3> QED BY <1>7, <3>1, <3>2 DEF Backlog, c
  <2> QED BY <2>1, <2>2 DEF Threads
<1>10. Backlog = <<u>> \o (d \o c) /\ d \o c \in Seq(Units)
  <2>1. <<u>> \in Seq(Units)
    BY <1>6
  <2>2. (<<u>> \o d) \o c = <<u>> \o (d \o c)
    BY <1>6, <1>7, <2>1, ConcatAssociative
  <2> QED BY <1>6, <1>7, <1>9, <2>2, ConcatProperties
<1>11. Backlog # <<>> /\ Head(Backlog) = u /\ Tail(Backlog) = d \o c
  BY <1>6, <1>10, ConsFacts
<1>12. Abstract!TypeUnit
  BY <1>0, <1>8, <1>9, <1>11 DEF Abstract!TypeUnit
<1>13. Numbered'
  <2>1. \A v \in Threads : job[v] # NoJob => v = t
    BY <1>1
  <2> QED BY <1>0, <1>1, <1>2, <2>1 DEF Numbered
<1> QED BY <1>12, <1>13

\* The worker's next burst was the front of the queue all along.
LEMMA PopOwesTheSame ==
    ASSUME Inv, Numbered, PopJob
    PROVE  UNCHANGED Abstract!vars /\ Numbered'
<1> DEFINE j == Head(queue)
           h == UnitsOf(j, j.units)
           c == Flat(Tail(queue))
<1>0. /\ job["worker"] = NoJob /\ queue # <<>> /\ job' = [job EXCEPT !["worker"] = j]
      /\ queue' = Tail(queue) /\ UNCHANGED <<unit, step, last, nextId>>
      /\ TypeOK /\ queue \in Seq(Jobs) /\ unit["worker"] = 0
  BY DEF PopJob, Inv, TypeOK, Steps, Threads
<1>1. j \in Jobs /\ Tail(queue) \in Seq(Jobs) /\ Flat(queue) = h \o c
  BY <1>0, FlatTail
<1>2. /\ j = queue[1] /\ 1 \in DOMAIN queue
      /\ \A i \in DOMAIN queue' : queue'[i] = queue[i + 1] /\ i + 1 \in DOMAIN queue
  BY <1>0
<1>3. ~j.cancelled /\ j.id < nextId /\ j.units \in Nat
  BY <1>1, <1>2, UnitsNatural DEF Numbered
<1>4. h \in Seq(Units)
  BY <1>1, <1>3, UnitsFacts
<1> HIDE DEF j, h, c
<1>5. job'["worker"] = j /\ job'["ui"] = job["ui"] /\ j # NoJob
  BY <1>0, <1>1, NoJobFacts DEF TypeOK, Threads
<1>6. OwedBy("worker") = <<>> /\ OwedBy("worker")' = h
  <2>1. Owed("worker")' = j.units
    BY <1>0, <1>3, <1>5 DEF Owed
  <2> QED BY <1>0, <1>5, <2>1 DEF OwedBy, h
<1>7. OwedBy("ui")' = OwedBy("ui") /\ OwedBy("ui") \in Seq(Units)
  BY <1>0, <1>5, OwedFacts DEF OwedBy, Owed, Threads
<1>8. c \in Seq(Units)
  BY <1>1, FlatAppend DEF c
<1>9. Backlog' = Backlog
  <2> DEFINE a == OwedBy("ui")
  <2> HIDE DEF a
  <2>1. a \o <<>> = a /\ (a \o h) \o c = a \o (h \o c)
    BY <1>4, <1>7, <1>8, ConcatEmptySeq, ConcatAssociative DEF a
  <2>2. Backlog = a \o (h \o c)
    BY <1>1, <1>6, <2>1 DEF Backlog, a
  <2>3. Backlog' = (a \o h) \o c
    BY <1>0, <1>6, <1>7 DEF Backlog, a, c
  <2> QED BY <2>1, <2>2, <2>3
<1>10. Numbered'
  <2>1. \A i \in DOMAIN queue' : queue'[i].id < nextId /\ ~queue'[i].cancelled
    BY <1>2 DEF Numbered
  <2>2. \A t \in Threads : job'[t] # NoJob => job'[t].id < nextId /\ unit[t] <= job'[t].units
    BY <1>0, <1>3, <1>5 DEF Numbered, Threads
  <2> QED BY <1>0, <2>1, <2>2 DEF Numbered
<1> QED BY <1>0, <1>9, <1>10 DEF Abstract!vars

\* A burst handed in is the last of what is owed, whoever will deliver it.
LEMMA InjectSubmits ==
    ASSUME Inv, Numbered, UIFree, NEW j \in Jobs, j.id = nextId, ~j.cancelled, Inject(j),
           UNCHANGED <<unit, step, last>>
    PROVE  Abstract!Submit(j.id, j.kind = "text", j.units) /\ Numbered'
<1> DEFINE h == UnitsOf(j, j.units)
           w == OwedBy("worker")
           c == Flat(queue)
<1>0. /\ TypeOK /\ job["ui"] = NoJob /\ unit["ui"] = 0 /\ nextId' = nextId + 1
      /\ nextId \in Nat /\ last \in Nat /\ queue \in Seq(Jobs) /\ j # NoJob
  BY CountAssumption, ConstantsAssumption, NoJobFacts
  DEF Inv, TypeOK, UIFree, Inject, Steps, Threads
<1>1. h \in Seq(Units) /\ j.units \in Nat
  BY UnitsFacts, UnitsNatural
<1>2. /\ w \in Seq(Units) /\ c \in Seq(Units)
      /\ \A i \in DOMAIN w : w[i].burst < nextId
  BY OwedFacts DEF Threads
<1>3. \A i \in DOMAIN c : c[i].burst < nextId
  BY <1>0, FlatBelow DEF Numbered
<1>4. OwedBy("ui") = <<>>
  BY <1>0 DEF OwedBy
<1> HIDE DEF h, w, c
<1>5. Backlog = w \o c /\ w \o c \in Seq(Units)
  <2>1. <<>> \o w = w /\ w \o c \in Seq(Units)
    BY <1>2, ConcatEmptySeq, ConcatProperties
  <2> QED BY <1>4, <2>1 DEF Backlog, w, c
<1>6. Backlog' = Backlog \o h
  <2>1. CASE Inline(j)
    <3>1. /\ job' = [job EXCEPT !["ui"] = j] /\ UNCHANGED queue /\ worker = "none"
          /\ queue = <<>> /\ job["worker"] = NoJob
      BY <2>1 DEF Inject, Inline, Busy, Inv, Handles
    <3>2. job'["ui"] = j /\ job'["worker"] = NoJob
      BY <1>0, <3>1 DEF TypeOK, Threads
    <3>3. OwedBy("ui")' = h
      <4>1. Owed("ui")' = j.units
        BY <1>0, <1>1, <3>2 DEF Owed
      <4> QED BY <1>0, <3>2, <4>1 DEF OwedBy, h
    <3>4. OwedBy("worker")' = <<>> /\ w = <<>>
      BY <3>1, <3>2 DEF OwedBy, w
    <3>5. c = <<>> /\ c' = <<>>
      BY <3>1, FlatEmpty DEF c
    <3>6. /\ h \o <<>> = h /\ <<>> \o h = h /\ <<>> \o <<>> = <<>>
      BY <1>1, <1>2, <3>4, ConcatEmptySeq
    <3> QED BY <1>5, <3>3, <3>4, <3>5, <3>6 DEF Backlog, c
  <2>2. CASE ~Inline(j)
    <3>1. UNCHANGED job /\ queue' = Append(queue, j)
      BY <2>2 DEF Inject, Enqueue
    <3>2. OwedBy("ui")' = <<>> /\ OwedBy("worker")' = w
      BY <1>0, <3>1 DEF OwedBy, Owed, w
    <3>3. Flat(queue)' = c \o h
      BY <1>0, <3>1, FlatAppend DEF c, h
    <3>4. (w \o c) \o h = w \o (c \o h) /\ <<>> \o w = w
      <4>1. (w \o c) \o h = w \o (c \o h)
        <5>1. w \in Seq(Units) /\ c \in Seq(Units) /\ h \in Seq(Units)
          BY <1>1, <1>2
        <5> QED BY <5>1, ConcatAssociative
      <4>2. <<>> \o w = w
        BY <1>2, ConcatEmptySeq
      <4> QED BY <4>1, <4>2
    <3> QED BY <1>5, <3>2, <3>3, <3>4 DEF Backlog
  <2> QED BY <2>1, <2>2
<1>7. \A i \in DOMAIN Backlog : Backlog[i].burst < nextId
  <2> DEFINE b == w \o c
  <2>1. /\ b \in Seq(Units) /\ Len(b) = Len(w) + Len(c)
        /\ \A i \in 1..(Len(w) + Len(c)) : b[i] = IF i <= Len(w) THEN w[i] ELSE c[i - Len(w)]
    BY <1>2, ConcatProperties
  <2> HIDE DEF b
  <2>2. /\ Len(w) \in Nat /\ Len(c) \in Nat /\ DOMAIN w = 1..Len(w) /\ DOMAIN c = 1..Len(c)
        /\ DOMAIN b = 1..Len(b)
    BY <1>2, <2>1
  <2>3. \A i \in DOMAIN b : b[i].burst < nextId
    <3> TAKE i \in DOMAIN b
    <3>1. CASE i <= Len(w)
      <4>1. i \in DOMAIN w /\ i \in 1..(Len(w) + Len(c))
        BY <2>1, <2>2, <3>1
      <4> QED BY <1>2, <2>1, <3>1, <4>1
    <3>2. CASE ~(i <= Len(w))
      <4>1. i - Len(w) \in DOMAIN c /\ i \in 1..(Len(w) + Len(c))
        BY <2>1, <2>2, <3>2
      <4> QED BY <1>3, <2>1, <3>2, <4>1
    <3> QED BY <3>1, <3>2
  <2> QED BY <1>5, <2>3 DEF b
<1>8. h = [i \in 1..j.units |-> [burst |-> j.id, text |-> (j.kind = "text")]]
  BY DEF h, UnitsOf
<1>9. Abstract!Submit(j.id, j.kind = "text", j.units)
  <2>1. last < j.id
    BY DEF Numbered
  <2>2. \A i \in DOMAIN Backlog : Backlog[i].burst < j.id
    BY <1>7
  <2> QED BY <1>6, <1>8, <2>1, <2>2 DEF Abstract!Submit
<1>10. Numbered'
  <2>1. last' < nextId'
    BY <1>0 DEF Numbered
  <2>2. \A i \in DOMAIN queue' : queue'[i].id < nextId' /\ ~queue'[i].cancelled
    <3>1. \A i \in DOMAIN queue : queue[i] \in Jobs /\ queue[i].id \in Nat
      <4>1. \A k \in Jobs : k.id \in Nat
        BY CountAssumption, ConstantsAssumption DEF Jobs
      <4> QED BY <1>0, <4>1
    <3>2. \A i \in DOMAIN queue : queue[i].id < nextId' /\ ~queue[i].cancelled
      BY <1>0, <3>1 DEF Numbered
    <3>3. CASE queue' = queue
      BY <3>2, <3>3
    <3>4. CASE queue' = Append(queue, j)
      <4>1. j.id < nextId'
        BY <1>0
      <4>2. \A i \in DOMAIN queue' : (i \in DOMAIN queue /\ queue'[i] = queue[i])
                                     \/ queue'[i] = j
        BY <1>0, <3>4
      <4> QED BY <3>2, <4>1, <4>2
    <3> QED BY <3>3, <3>4 DEF Inject, Enqueue
  <2>3. \A t \in Threads : job'[t] # NoJob => job'[t].id < nextId' /\ unit'[t] <= job'[t].units
    <3>1. \A t \in Threads : job[t] # NoJob => job[t].id \in Nat
      <4>1. \A k \in Jobs : k.id \in Nat
        BY CountAssumption, ConstantsAssumption DEF Jobs
      <4> QED BY <1>0, <4>1 DEF TypeOK
    <3>2. \A t \in Threads : job[t] # NoJob => job[t].id < nextId' /\ unit[t] <= job[t].units
      BY <1>0, <3>1 DEF Numbered
    <3>3. CASE job' = job
      BY <3>2, <3>3
    <3>4. CASE job' = [job EXCEPT !["ui"] = j]
      <4>1. job'["ui"] = j /\ \A t \in Threads \ {"ui"} : job'[t] = job[t]
        BY <1>0, <3>4 DEF TypeOK, Threads
      <4>2. j.id < nextId' /\ unit["ui"] <= j.units
        BY <1>0, <1>1
      <4> QED BY <3>2, <4>1, <4>2
    <3> QED BY <3>3, <3>4 DEF Inject, Enqueue
  <2> QED BY <2>1, <2>2, <2>3 DEF Numbered
<1> QED BY <1>9, <1>10

\* What a cancel leaves in the queue was in it.
LEMMA KeptFromQueue ==
    ASSUME NEW q \in Seq(Jobs)
    PROVE  \A i \in DOMAIN Uncancellable(q) :
             \E k \in DOMAIN q : Uncancellable(q)[i] = q[k]
<1> DEFINE n == Len(q)
           R == {q[i] : i \in DOMAIN q}
<1>1. n \in Nat /\ DOMAIN q = 1..n
  OBVIOUS
<1>2. PICK kept : /\ kept = [i \in 0..n |-> KeptNext(q, kept, i)]
                  /\ Uncancellable(q) = kept[n]
  BY <1>1, KeptExists
<1>3. \A i \in 0..n : kept[i] = KeptNext(q, kept, i)
  BY <1>2
<1> DEFINE T == {i \in 0..n : kept[i] \in Seq(R)}
<1>4. 0 \in T
  <2>1. kept[0] = <<>>
    BY <1>1, <1>3 DEF KeptNext
  <2>2. <<>> \in Seq(R) /\ 0 \in 0..n
    BY <1>1
  <2> HIDE DEF R, n
  <2> QED BY <2>1, <2>2
<1>5. ASSUME NEW i \in 0..(n - 1), i \in T
      PROVE  i + 1 \in T
  <2> DEFINE k == i + 1
  <2>1. k \in 1..n /\ k \in 0..n /\ k - 1 = i /\ k # 0 /\ q[k] \in R
    BY <1>1
  <2>2. kept[k] = KeptNext(q, kept, k) /\ kept[i] \in Seq(R)
    BY <1>3, <1>5, <2>1
  <2> HIDE DEF k, R
  <2>3. kept[k] = kept[i] \/ kept[k] = Append(kept[i], q[k])
    BY <2>1, <2>2, Zenon DEF KeptNext
  <2>4. Append(kept[i], q[k]) \in Seq(R)
    BY <2>1, <2>2, AppendProperties
  <2>5. kept[k] \in Seq(R)
    BY <2>2, <2>3, <2>4, Zenon
  <2> QED BY <2>1, <2>5 DEF k
<1>6. n \in T
  <2> HIDE DEF T, n
  <2> QED BY <1>1, <1>4, <1>5, Induction
<1>7. Uncancellable(q) \in Seq(R)
  BY <1>2, <1>6
<1> HIDE DEF T, n
<1> QED BY <1>7

\* A cancel takes the text out of what is owed, but for the unit that the
\* worker is in the middle of.
LEMMA CancelCancels ==
    ASSUME Inv, Numbered, UIFree, CancelPending, UNCHANGED <<unit, step, last, nextId>>
    PROVE  (\E finish \in BOOLEAN : Abstract!Cancel(finish)) /\ Numbered'
<1> DEFINE j == job["worker"]
           w == OwedBy("worker")
           c == Flat(queue)
           n == Owed("worker")
           W(q) == Abstract!Switches(q)
<1>0. /\ TypeOK /\ job["ui"] = NoJob /\ queue \in Seq(Jobs) /\ queue' = Uncancellable(queue)
      /\ nextId' = nextId
      /\ job' = IF j.kind = "text" THEN [job EXCEPT !["worker"] = [j EXCEPT !.cancelled = TRUE]]
                ELSE job
  BY DEF Inv, TypeOK, UIFree, CancelPending, MarkCurrent
<1>1. w \in Seq(Units) /\ c \in Seq(Units) /\ (j # NoJob => j \in Jobs /\ n \in Nat)
  BY OwedFacts DEF Threads
<1>2. queue' \in Seq(Jobs) /\ Flat(queue)' = W(c)
  BY <1>0, FlatUncancellable
<1>3. W(c) \in Seq(Units)
  <2>1. [burst |-> 0, text |-> TRUE] \in Units
    BY DEF Units
  <2> QED BY <1>1, <2>1, SwitchesAppend
<1>4. OwedBy("ui") = <<>> /\ OwedBy("ui")' = <<>>
  <2>1. job'["ui"] = NoJob
    BY <1>0 DEF TypeOK, Threads
  <2> QED BY <1>0, <2>1 DEF OwedBy
<1> HIDE DEF c
<1>5. Backlog = w \o c /\ Backlog' = OwedBy("worker")' \o W(c)
  <2>1. <<>> \o w = w
    BY <1>1, ConcatEmptySeq
  <2>2. \A q : <<>> \o q = q \/ q \notin Seq(Units)
    BY ConcatEmptySeq
  <2>3. OwedBy("worker")' \in Seq(Units)
    <3>1. CASE j = NoJob
      <4>1. job'["worker"] = NoJob
        BY <1>0, <3>1, NoJobFacts
      <4>2. OwedBy("worker")' = <<>>
        BY <4>1 DEF OwedBy
      <4>3. <<>> \in Seq(Units)
        OBVIOUS
      <4> QED BY <4>2, <4>3, Zenon
    <3>2. CASE j # NoJob
      <4>1. /\ job'["worker"] \in Jobs /\ job'["worker"] # NoJob
            /\ job'["worker"].units = j.units
            /\ job'["worker"].cancelled \/ job'["worker"] = j
        <5>1. j \in Jobs
          BY <1>1, <3>2
        <5> DEFINE v == [j EXCEPT !.cancelled = TRUE]
        <5>2. v \in Jobs /\ v.units = j.units /\ v.cancelled
          BY <5>1 DEF Jobs
        <5> HIDE DEF v
        <5>3. job'["worker"] = v \/ job'["worker"] = j
          BY <1>0 DEF TypeOK, Threads, v
        <5> QED BY <5>1, <5>2, <5>3, NoJobFacts
      <4>2. Owed("worker")' \in Nat
        <5>1. CASE job'["worker"].cancelled
          BY <4>1, <5>1 DEF Owed
        <5>2. CASE ~job'["worker"].cancelled
          <6>1. Owed("worker")' = n
            BY <4>1, <5>2 DEF Owed
          <6> QED BY <1>1, <3>2, <6>1
        <5> QED BY <5>1, <5>2
      <4>3. OwedBy("worker")' = UnitsOf(job'["worker"], Owed("worker")')
        BY <4>1 DEF OwedBy
      <4> DEFINE l == job'["worker"]
                 k == Owed("worker")'
      <4>5. l \in Jobs /\ k \in Nat
        BY <4>1, <4>2
      <4> HIDE DEF l, k
      <4>6. UnitsOf(l, k) \in Seq(Units)
        BY <4>5, UnitsFacts
      <4> QED BY <4>3, <4>6 DEF l, k
    <3> QED BY <3>1, <3>2
  <2> QED BY <1>2, <1>4, <2>1, <2>2, <2>3 DEF Backlog, c
<1>6. W(w \o c) = W(w) \o W(c)
  BY <1>1, SwitchesConcat
<1>7. Numbered'
  <2>1. \A i \in DOMAIN queue' : \E k \in DOMAIN queue : queue'[i] = queue[k]
    BY <1>0, KeptFromQueue
  <2>2. \A t \in Threads : job'[t] # NoJob =>
          job[t] # NoJob /\ job'[t].id = job[t].id /\ job'[t].units = job[t].units
    <3>1. CASE j.kind = "text"
      <4>1. j \in Jobs /\ j # NoJob
        BY <1>0, <3>1, NoJobFacts DEF TypeOK, Threads
      <4>2. /\ job'["worker"].id = j.id /\ job'["worker"].units = j.units
            /\ job'["ui"] = job["ui"]
        BY <1>0, <3>1, <4>1 DEF TypeOK, Threads, Jobs
      <4> QED BY <4>1, <4>2 DEF Threads
    <3>2. CASE j.kind # "text"
      BY <1>0, <3>2
    <3> QED BY <3>1, <3>2
  <2> QED BY <1>0, <2>1, <2>2 DEF Numbered
<1>8. CASE j.kind = "text" /\ step["worker"] # "check"
  <2> DEFINE u == [burst |-> j.id, text |-> (j.kind = "text")]
             d == UnitsOf(j, n - 1)
  <2>1. j # NoJob /\ j \in Jobs /\ n \in Nat /\ unit["worker"] < j.units /\ j.units \in Nat
        /\ unit["worker"] \in Nat
    BY <1>0, <1>1, <1>8, NoJobFacts, UnitsNatural, ConstantsAssumption
    DEF Inv, Steps, Threads, TypeOK
  <2>2. n # 0
    <3>1. CASE j.cancelled
      BY <1>8, <2>1, <3>1 DEF Owed
    <3>2. CASE ~j.cancelled
      BY <2>1, <3>2 DEF Owed
    <3> QED BY <3>1, <3>2
  <2>3. n - 1 \in Nat /\ (n - 1) + 1 = n
    BY <2>1, <2>2
  <2>4. u \in Units /\ UnitsOf(j, (n - 1) + 1) = <<u>> \o d
    BY <2>1, <2>3, UnitsEnds
  <2>5. w = <<u>> \o d
    BY <2>1, <2>3, <2>4 DEF OwedBy
  <2>6. d \in Seq(Units) /\ W(d) = <<>>
    BY <1>8, <2>1, <2>3, UnitsFacts, SwitchesOfUnits
  <2>7. OwedBy("worker")' = <<u>>
    <3>1. /\ job'["worker"] = [j EXCEPT !.cancelled = TRUE]
      BY <1>0, <1>8 DEF TypeOK, Threads
    <3>2. /\ job'["worker"].id = j.id /\ job'["worker"].kind = j.kind
          /\ job'["worker"].cancelled /\ job'["worker"] \in Jobs
      BY <2>1, <3>1 DEF Jobs
    <3>3. Owed("worker")' = 1 /\ job'["worker"] # NoJob
      BY <1>8, <3>2, NoJobFacts DEF Owed
    <3>4. OwedBy("worker")' = UnitsOf(job'["worker"], 1)
      BY <3>3 DEF OwedBy
    <3>5. UnitsOf(job'["worker"], 1) = [i \in 1..1 |-> u]
      BY <3>2 DEF UnitsOf
    <3> HIDE DEF u
    <3>6. [i \in 1..1 |-> u] = <<u>>
      OBVIOUS
    <3> QED BY <3>4, <3>5, <3>6
  <2> HIDE DEF u, d, w, W, n
  <2>8. Backlog = <<u>> \o (d \o c) /\ d \o c \in Seq(Units)
    <3>1. <<u>> \in Seq(Units)
      BY <2>4
    <3>2. (<<u>> \o d) \o c = <<u>> \o (d \o c)
      BY <1>1, <2>6, <3>1, ConcatAssociative
    <3>3. d \o c \in Seq(Units)
      BY <1>1, <2>6, ConcatProperties
    <3> QED BY <1>5, <2>5, <3>2, <3>3
  <2>9. Backlog # <<>> /\ Head(Backlog) = u /\ Tail(Backlog) = d \o c
    BY <2>4, <2>8, ConsFacts
  <2>10. W(d \o c) = W(c)
    <3>1. Abstract!Switches(d \o c) = Abstract!Switches(d) \o Abstract!Switches(c)
      BY <1>1, <2>6, SwitchesConcat
    <3>2. <<>> \o W(c) = W(c)
      BY <1>3, ConcatEmptySeq
    <3> QED BY <2>6, <3>1, <3>2 DEF W
  <2>11. Abstract!Cancel(TRUE)
    <3>1. last' = last
      OBVIOUS
    <3>2. Backlog' = <<Head(Backlog)>> \o Abstract!Switches(Tail(Backlog))
      BY <1>5, <2>7, <2>9, <2>10 DEF W
    <3> QED BY <2>9, <3>1, <3>2 DEF Abstract!Cancel
  <2> QED BY <1>7, <2>11
<1>9. CASE ~(j.kind = "text" /\ step["worker"] # "check")
  <2>1. OwedBy("worker")' = W(w)
    <3>1. CASE j = NoJob
      <4>1. job'["worker"] = NoJob
        BY <1>0, <3>1, NoJobFacts
      <4> QED BY <3>1, <4>1, SwitchesEmpty DEF OwedBy
    <3>2. CASE j # NoJob /\ j.kind # "text"
      <4>1. job' = job /\ j \in Jobs /\ n \in Nat
        BY <1>0, <1>1, <3>2
      <4>2. OwedBy("worker")' = w
        BY <4>1 DEF OwedBy, Owed
      <4>3. w = UnitsOf(j, n)
        BY <3>2 DEF OwedBy
      <4>4. W(UnitsOf(j, n)) = UnitsOf(j, n)
        BY <3>2, <4>1, SwitchesOfUnits
      <4> QED BY <4>2, <4>3, <4>4
    <3>3. CASE j # NoJob /\ j.kind = "text"
      <4>1. /\ j \in Jobs /\ n \in Nat /\ step["worker"] = "check"
            /\ job'["worker"] = [j EXCEPT !.cancelled = TRUE]
        BY <1>0, <1>1, <1>9, <3>3 DEF TypeOK, Threads
      <4>2. job'["worker"].cancelled /\ job'["worker"] \in Jobs
        BY <4>1 DEF Jobs
      <4>3. Owed("worker")' = 0 /\ job'["worker"] # NoJob
        BY <4>1, <4>2, NoJobFacts DEF Owed
      <4>4. OwedBy("worker")' = <<>>
        <5>1. OwedBy("worker")' = UnitsOf(job'["worker"], 0)
          BY <4>3 DEF OwedBy
        <5> QED BY <5>1 DEF UnitsOf
      <4>5. w = UnitsOf(j, n)
        BY <3>3 DEF OwedBy
      <4>6. W(UnitsOf(j, n)) = <<>>
        BY <3>3, <4>1, SwitchesOfUnits
      <4> QED BY <4>4, <4>5, <4>6
    <3> QED BY <3>1, <3>2, <3>3
  <2> HIDE DEF w
  <2>2. Backlog' = Abstract!Switches(Backlog)
    BY <1>5, <1>6, <2>1
  <2>3. Abstract!Cancel(FALSE)
    BY <2>2 DEF Abstract!Cancel
  <2> QED BY <1>7, <2>3
<1> QED BY <1>8, <1>9

-----------------------------------------------------------------------------

\* Nothing is owed at first.
LEMMA InitMaps == Init => Abstract!Init /\ Numbered
<1> SUFFICES ASSUME Init
             PROVE  Abstract!Init /\ Numbered
  OBVIOUS
<1>1. \A t \in Threads : job[t] = NoJob
  BY DEF Init
<1>2. OwedBy("ui") = <<>> /\ OwedBy("worker") = <<>>
  BY <1>1 DEF OwedBy, Threads
<1>3. Flat(queue) = <<>>
  BY FlatEmpty DEF Init
<1>4. <<>> \o <<>> = <<>>
  <2>1. <<>> \in Seq(Units)
    OBVIOUS
  <2> QED BY <2>1, ConcatEmptySeq
<1>5. Backlog = <<>>
  BY <1>2, <1>3, <1>4 DEF Backlog
<1> QED BY <1>1, <1>5 DEF Init, Abstract!Init, Numbered

\* Each action is the step of the queue that its name says, or a stutter.
LEMMA StepMaps ==
    ASSUME Inv, Numbered, [Next]_vars
    PROVE  [Abstract!Next]_(Abstract!vars) /\ Numbered'
<1> DEFINE Maps == [Abstract!Next]_(Abstract!vars) /\ Numbered'
<1>0. TypeOK /\ nextId \in Nat \ {0} /\ wanted \in SUBSET Modifiers
  BY CountAssumption, ConstantsAssumption DEF Inv, TypeOK
<1>1. ASSUME NEW j \in Jobs, j.id = nextId, ~j.cancelled, UIFree, Inject(j),
             UNCHANGED <<unit, step, last>>
      PROVE  Maps
  <2>1. Abstract!Submit(j.id, j.kind = "text", j.units) /\ Numbered'
    BY <1>1, InjectSubmits
  <2>2. /\ j.id \in 1..(MaxJobs + Cardinality(Modifiers)) /\ j.units \in 1..MaxUnits
        /\ (j.kind = "text") \in BOOLEAN
    BY DEF Jobs
  <2> QED BY <2>1, <2>2 DEF Abstract!Next
<1>2. CASE \E n \in 1..MaxUnits : SendText(n)
  <2>1. PICK n \in 1..MaxUnits : SendText(n)
    BY <1>2
  <2> DEFINE m0 == CHOOSE m \in Modifiers : TRUE
             j == [id |-> nextId, kind |-> "text", m |-> m0, units |-> n,
                   built |-> {m \in Modifiers : OsKeyDown(m)}, cancelled |-> FALSE]
  <2>2. UIFree /\ Inject(j) /\ nextId \in 1..MaxJobs /\ UNCHANGED <<unit, step, last>>
    BY <1>0, <2>1, ConstantsAssumption, CountAssumption DEF SendText
  <2>3. m0 \in Modifiers
    BY ConstantsAssumption
  <2>4. j \in Jobs
    <3>1. nextId \in 1..(MaxJobs + Cardinality(Modifiers))
      BY <2>2, ConstantsAssumption, CountAssumption
    <3> HIDE DEF m0
    <3> QED BY <2>3, <3>1 DEF Jobs
  <2>5. j.id = nextId /\ ~j.cancelled
    OBVIOUS
  <2> HIDE DEF j
  <2> QED BY <1>1, <2>2, <2>4, <2>5
<1>3. ASSUME NEW kind \in {"hold", "release"}, NEW m \in Modifiers, UIFree, Switch(kind, m),
             nextId <= MaxJobs \/ (kind = "release" /\ m \in wanted)
      PROVE  Maps
  <2> DEFINE j == [id |-> nextId, kind |-> kind, m |-> m, units |-> 1, built |-> {},
                   cancelled |-> FALSE]
  <2>1. Inject(j) /\ UNCHANGED <<unit, step, last>>
    BY <1>3 DEF Switch
  <2>2. nextId \in 1..(MaxJobs + Cardinality(Modifiers))
    <3>1. Cardinality(wanted) \in Nat
      BY <1>0, WantedCounts
    <3>2. m \in wanted => Cardinality(wanted) > 0
      BY <1>0, WantedCounts
    <3> QED BY <1>0, <1>3, <3>1, <3>2, CountAssumption, ConstantsAssumption DEF Inv, Numbers
  <2>3. j \in Jobs /\ j.id = nextId /\ ~j.cancelled
    BY <2>2, ConstantsAssumption DEF Jobs
  <2> HIDE DEF j
  <2> QED BY <1>1, <1>3, <2>1, <2>3
<1>4. CASE \E m \in Modifiers : Toggle(m)
  <2>1. PICK m \in Modifiers : Toggle(m)
    BY <1>4
  <2>2. PICK kind \in {"hold", "release"} : Switch(kind, m)
    BY <2>1 DEF Toggle
  <2> QED BY <1>3, <2>1, <2>2 DEF Toggle
<1>5. CASE \E m \in Modifiers : ReleaseActive(m)
  BY <1>3, <1>5 DEF ReleaseActive
<1>6. CASE Cancel \/ BeginShutdown
  <2>1. (\E finish \in BOOLEAN : Abstract!Cancel(finish)) /\ Numbered'
    BY <1>6, CancelCancels DEF Cancel, BeginShutdown
  <2> QED BY <2>1 DEF Abstract!Next
<1>7. CASE UNCHANGED <<queue, job, unit, step, last, nextId>>
  <2>1. UNCHANGED Abstract!vars
    BY <1>7, SameBacklog
  <2> QED BY <1>7, <2>1 DEF Numbered
<1>8. CASE \/ AcquireInline \/ StartDraining \/ StopDraining \/ ReleaseOldLock
           \/ Joined \/ JoinTimesOut \/ Exit \/ UNCHANGED vars
  BY <1>7, <1>8 DEF AcquireInline, StartDraining, StopDraining, ReleaseOldLock,
                    Joined, JoinTimesOut, Exit, vars
<1>9. CASE PopJob
  BY <1>9, PopOwesTheSame
<1>10. CASE \E t \in Threads : Deliver(t)
  <2>1. PICK t \in Threads : Deliver(t)
    BY <1>10
  <2>2. CASE BeginUnit(t) \/ FinishJob(t) \/ SendKeyDown(t)
    BY <2>2, LoopOwesTheSame
  <2>3. CASE SendSwitch(t) \/ SendKeyUp(t)
    BY <2>3, SendTypesUnit DEF Abstract!Next
  <2> QED BY <2>1, <2>2, <2>3 DEF Deliver
<1> QED BY <1>2, <1>4, <1>5, <1>6, <1>8, <1>9, <1>10 DEF Next, Worker, Closing

\* The threads, the lock and the queue between them are one queue of whole
\* units, typed in the order they were handed in, from which a cancel takes
\* text and nothing else: for any number of bursts of any length.
THEOREM InjectorIsOneQueue == Spec => ImplementsTypingQueue
<1>1. Init => Abstract!Init /\ Numbered
  BY InitMaps
<1>2. Inv /\ Numbered /\ [Next]_vars => [Abstract!Next]_(Abstract!vars) /\ Numbered'
  BY StepMaps
<1> QED BY <1>1, <1>2, InvHolds, PTL DEF Spec, ImplementsTypingQueue, Abstract!Spec
=============================================================================
