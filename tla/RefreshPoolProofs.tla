-------------------------- MODULE RefreshPoolProofs --------------------------
(***************************************************************************)
(* What RefreshPool keeps for every number of accounts and every limit on  *)
(* concurrent checks.                                                      *)
(***************************************************************************)
EXTENDS RefreshPool, FiniteSetTheorems, TLAPS

(***************************************************************************)
(* The inductive invariant.  The counters alone say nothing of who holds   *)
(* what, so they are tied to the sets of goroutines they count.            *)
(***************************************************************************)
\* A place in the channel for each check, and never more than there are.
Places == sem = Cardinality(Checking) /\ sem <= MaxConcurrency

\* The WaitGroup counts the goroutines that have not finished.
Counting == wg = Cardinality(Unfinished)

\* After the loop every goroutine is started; past its check it has a result;
\* only a loss spoils one.
Results ==
    /\ main # "spawn" => \A a \in Accounts : pc[a] # "none"
    /\ \A a \in Accounts : pc[a] \in {"release", "finish", "done"} => results[a] # "none"
    /\ \A a \in Accounts : results[a] = "spoilt" => ctxDone \/ connClosed

\* Nothing is left running behind a publication.
Over == main = "published" => Unfinished = {}

IInv == TypeOK /\ Places /\ Counting /\ Results /\ Over

\* The sets that are counted are finite: they are sets of accounts.
LEMMA CountedFinite ==
    IsFiniteSet(Checking) /\ IsFiniteSet(Unfinished)
BY FS_Subset, PoolAssumption DEF Checking, Unfinished

\* A pc that stays outside both sets' borders leaves the counts alone.
LEMMA CountsUnchanged ==
    ASSUME Checking' = Checking, Unfinished' = Unfinished, UNCHANGED <<sem, wg, main>>,
           Places, Counting, Over
    PROVE  Places' /\ Counting' /\ Over'
BY DEF Places, Counting, Over

\* The shape of the variables is kept by each step.
LEMMA TypeStep ==
    ASSUME IInv, [Next]_vars
    PROVE  TypeOK'
<1> USE PoolAssumption DEF TypeOK
<1>1. ASSUME NEW a \in Accounts, Spawn(a) PROVE TypeOK'
  BY <1>1 DEF IInv, Spawn, Counted
<1>2. ASSUME NEW a \in Accounts, Acquire(a) PROVE TypeOK'
  BY <1>2 DEF IInv, Acquire
<1>3. ASSUME NEW a \in Accounts, GiveUp(a) PROVE TypeOK'
  BY <1>3 DEF IInv, GiveUp
<1>4. ASSUME NEW a \in Accounts, Check(a) PROVE TypeOK'
  BY <1>4 DEF IInv, Check
<1>5. ASSUME NEW a \in Accounts, Release(a) PROVE TypeOK'
  BY <1>5 DEF IInv, Release, Released
<1>6. ASSUME NEW a \in Accounts, Finish(a) PROVE TypeOK'
  <2>1. a \in Unfinished
    BY <1>6 DEF Finish, Unfinished
  <2>2. wg # 0
    BY <2>1, CountedFinite, FS_EmptySet DEF IInv, Counting
  <2> QED
    BY <1>6, <2>2 DEF IInv, Finish, Counted
<1>7. ASSUME Wait \/ Publish \/ Cancel \/ CloseConn \/ UNCHANGED vars PROVE TypeOK'
  BY <1>7 DEF IInv, Wait, Publish, Cancel, CloseConn, vars
<1> QED
  BY <1>1, <1>2, <1>3, <1>4, <1>5, <1>6, <1>7 DEF Next, Worker

\* The counters and the results agree from the start.
LEMMA InitIInv == Init => IInv
<1> SUFFICES ASSUME Init PROVE IInv
  OBVIOUS
<1>1. Checking = {} /\ Unfinished = {}
  BY DEF Init, Checking, Unfinished
<1>2. TypeOK
  BY DEF Init, TypeOK
<1>3. Places /\ Counting
  BY <1>1, FS_EmptySet, PoolAssumption DEF Init, Places, Counting
<1>4. Results /\ Over
  BY DEF Init, Results, Over
<1> QED
  BY <1>2, <1>3, <1>4 DEF IInv

\* They agree after every step: a goroutine that enters or leaves one of the
\* sets moves the counter by one.
LEMMA IInvStep == IInv /\ [Next]_vars => IInv'
<1> SUFFICES ASSUME IInv, [Next]_vars PROVE IInv'
  OBVIOUS
<1>0. TypeOK' /\ TypeOK /\ IsFiniteSet(Checking) /\ IsFiniteSet(Unfinished)
  BY TypeStep, CountedFinite DEF IInv
<1> USE <1>0
<1>1. ASSUME NEW a \in Accounts, Spawn(a) PROVE IInv'
  <2>1. Checking' = Checking /\ a \notin Unfinished /\ Unfinished' = Unfinished \cup {a}
    BY <1>1 DEF Spawn, Checking, Unfinished, TypeOK
  <2>2. Counting'
    BY <1>1, <2>1, FS_AddElement DEF Spawn, IInv, Counting, Counted, TypeOK
  <2>3. Places' /\ Over' /\ Results'
    BY <1>1, <2>1 DEF Spawn, IInv, Places, Over, Results, TypeOK
  <2> QED
    BY <2>2, <2>3 DEF IInv
<1>2. ASSUME NEW a \in Accounts, Acquire(a) PROVE IInv'
  <2>1. Unfinished' = Unfinished /\ a \notin Checking /\ Checking' = Checking \cup {a}
    BY <1>2 DEF Acquire, Checking, Unfinished, TypeOK
  <2>2. Cardinality(Checking') = Cardinality(Checking) + 1
    BY <2>1, FS_AddElement
  <2>3. Places'
    BY <1>2, <2>2, PoolAssumption DEF Acquire, HasRoom, IInv, Places, TypeOK
  <2>4. Counting' /\ Over' /\ Results'
    BY <1>2, <2>1 DEF Acquire, IInv, Counting, Over, Results, TypeOK
  <2> QED
    BY <2>3, <2>4 DEF IInv
<1>3. ASSUME NEW a \in Accounts, GiveUp(a) PROVE IInv'
  <2>1. Checking' = Checking /\ Unfinished' = Unfinished
    BY <1>3 DEF GiveUp, Checking, Unfinished, TypeOK
  <2>2. Results'
    BY <1>3 DEF GiveUp, IInv, Results, TypeOK
  <2> QED
    BY <1>3, <2>1, <2>2, CountsUnchanged DEF GiveUp, IInv
<1>4. ASSUME NEW a \in Accounts, Check(a) PROVE IInv'
  <2>1. Checking' = Checking /\ Unfinished' = Unfinished
    BY <1>4 DEF Check, Checking, Unfinished, TypeOK
  <2>2. Results'
    BY <1>4 DEF Check, IInv, Results, TypeOK
  <2> QED
    BY <1>4, <2>1, <2>2, CountsUnchanged DEF Check, IInv
<1>5. ASSUME NEW a \in Accounts, Release(a) PROVE IInv'
  <2>1. Unfinished' = Unfinished /\ a \in Checking /\ Checking' = Checking \ {a}
    BY <1>5 DEF Release, Checking, Unfinished, TypeOK
  <2>2. Cardinality(Checking') = Cardinality(Checking) - 1
    BY <2>1, FS_RemoveElement
  <2>3. Places'
    BY <1>5, <2>2, PoolAssumption DEF Release, Released, IInv, Places, TypeOK
  <2>4. Counting' /\ Over' /\ Results'
    BY <1>5, <2>1 DEF Release, IInv, Counting, Over, Results, TypeOK
  <2> QED
    BY <2>3, <2>4 DEF IInv
<1>6. ASSUME NEW a \in Accounts, Finish(a) PROVE IInv'
  <2>1. Checking' = Checking /\ a \in Unfinished /\ Unfinished' = Unfinished \ {a}
    BY <1>6 DEF Finish, Checking, Unfinished, TypeOK
  <2>2. Counting'
    BY <1>6, <2>1, FS_RemoveElement DEF Finish, IInv, Counting, Counted, TypeOK
  <2>3. Places' /\ Over' /\ Results'
    BY <1>6, <2>1 DEF Finish, IInv, Places, Over, Results, TypeOK
  <2> QED
    BY <2>2, <2>3 DEF IInv
<1>7. ASSUME Publish PROVE IInv'
  <2>1. Checking' = Checking /\ Unfinished' = Unfinished /\ Unfinished = {}
    BY <1>7, FS_EmptySet DEF Publish, Checking, Unfinished, IInv, Counting
  <2> QED
    BY <1>7, <2>1 DEF Publish, IInv, Places, Counting, Over, Results
<1>8. ASSUME Wait \/ Cancel \/ CloseConn \/ UNCHANGED vars PROVE IInv'
  <2>1. Checking' = Checking /\ Unfinished' = Unfinished
    BY <1>8 DEF Wait, Cancel, CloseConn, vars, Checking, Unfinished
  <2> QED
    BY <1>8, <2>1 DEF Wait, Cancel, CloseConn, vars, IInv, Places, Counting, Over, Results
<1> QED
  BY <1>1, <1>2, <1>3, <1>4, <1>5, <1>6, <1>7, <1>8 DEF Next, Worker

\* At every moment at most MaxConcurrency accounts are checked, however many
\* there are and whatever is cancelled, and what is published is final: the
\* channel and the WaitGroup of refresh are balanced on every way out.
THEOREM PoolSafety == Spec => [](TypeOK /\ BoundedConcurrency /\ PublishedIsFinal)
<1>1. IInv => TypeOK /\ BoundedConcurrency /\ PublishedIsFinal
  <2> SUFFICES ASSUME IInv PROVE TypeOK /\ BoundedConcurrency /\ PublishedIsFinal
    OBVIOUS
  <2>1. TypeOK /\ BoundedConcurrency
    BY DEF IInv, Places, BoundedConcurrency
  <2>2. ASSUME main = "published", NEW a \in Accounts
        PROVE  pc[a] = "done" /\ results[a] # "none"
    <3>1. pc[a] \in {"none", "done"}
      BY <2>2 DEF IInv, Over, Unfinished
    <3> QED
      BY <2>2, <3>1 DEF IInv, Results
  <2> QED
    BY <2>1, <2>2 DEF PublishedIsFinal
<1> QED
  BY <1>1, InitIInv, IInvStep, PTL DEF Spec

\* A step of the pool is a step of RefreshOutcome: only the publication and
\* the losses show, and no goroutine changes what has been published.
LEMMA OutcomeStep == IInv /\ [Next]_vars => [Outcome!Next]_(Outcome!outcomeVars)
<1> SUFFICES ASSUME IInv, [Next]_vars PROVE [Outcome!Next]_(Outcome!outcomeVars)
  OBVIOUS
<1> DEFINE Spoilt == main = "published" /\ \E a \in Accounts : results[a] = "spoilt"
<1>1. ASSUME NEW a \in Accounts, Spawn(a) \/ Worker(a)
      PROVE  UNCHANGED Outcome!outcomeVars
  <2>1. main # "published"
    <3>1. CASE Spawn(a)
      BY <3>1 DEF Spawn
    <3>2. CASE Worker(a)
      <4>1. a \in Unfinished
        BY <3>2 DEF Worker, Acquire, GiveUp, Check, Release, Finish, Unfinished
      <4> QED
        BY <4>1 DEF IInv, Over
    <3> QED
      BY <1>1, <3>1, <3>2
  <2>2. UNCHANGED <<main, ctxDone, connClosed>>
    BY <1>1 DEF Spawn, Worker, Acquire, GiveUp, Check, Release, Finish
  <2> QED
    BY <2>1, <2>2 DEF Outcome!outcomeVars
<1>2. ASSUME Publish PROVE Outcome!Publish
  <2>1. (\E a \in Accounts : results[a] = "spoilt") => ctxDone \/ connClosed
    BY DEF IInv, Results
  <2> QED
    BY <1>2, <2>1 DEF Publish, Outcome!Publish
<1>3. ASSUME Cancel \/ CloseConn PROVE Outcome!Lose
  BY <1>3 DEF Cancel, CloseConn, Outcome!Lose
<1>4. ASSUME Wait \/ UNCHANGED vars PROVE UNCHANGED Outcome!outcomeVars
  BY <1>4 DEF Wait, vars, Outcome!outcomeVars
<1> QED
  BY <1>1, <1>2, <1>3, <1>4 DEF Next, Outcome!Next

\* The pool of goroutines comes to no more than one publication of all the
\* results, spoilt only by a lost context or connection: the step Monitor takes.
THEOREM PoolRefinement == Spec => ImplementsOutcome
<1>1. Init => Outcome!Init
  BY DEF Init, Outcome!Init
<1> QED
  BY <1>1, InitIInv, IInvStep, OutcomeStep, PTL DEF Spec, ImplementsOutcome, Outcome!Spec
=============================================================================
