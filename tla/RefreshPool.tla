----------------------------- MODULE RefreshPool -----------------------------
(***************************************************************************)
(* The account checks of one refresh (internal/monitor/plugin.go): one     *)
(* goroutine per account, a channel as a semaphore, a WaitGroup, and the   *)
(* results each in a place of its own.  Monitor has all this as the one    *)
(* step from ListAccounts to Publish.                                      *)
(***************************************************************************)
EXTENDS Naturals, FiniteSets

CONSTANTS
    Accounts,        \* the places of the results slice, one per account listed
    MaxConcurrency   \* Config.MaxConcurrency

\* parseConfig accepts 1 to 10 for MaxConcurrency.
ASSUME PoolAssumption ==
    /\ IsFiniteSet(Accounts)
    /\ MaxConcurrency \in Nat \ {0}

VARIABLES
    main,       \* the refreshing goroutine: "spawn", "wait" or "published"
    pc,         \* per account, its goroutine
    sem,        \* places taken in the channel
    wg,         \* counter of the WaitGroup
    results,    \* the results slice; "none" is its zero value
    ctxDone,    \* the context of the refresh is done
    connClosed  \* the connection behind `host' was closed by InitHostServices

vars == <<main, pc, sem, wg, results, ctxDone, connClosed>>

Init ==
    /\ main = "spawn"
    /\ pc = [a \in Accounts |-> "none"]
    /\ sem = 0
    /\ wg = 0
    /\ results = [a \in Accounts |-> "none"]
    /\ ctxDone \in BOOLEAN
    /\ connClosed \in BOOLEAN

CountedBefore == 0 \* mutant: wg.Add is left to the goroutine
Counted == 1

\* wg.Add(1) and go.
Spawn(a) ==
    /\ main = "spawn"
    /\ pc[a] = "none"
    /\ pc' = [pc EXCEPT ![a] = "select"]
    /\ wg' = wg + Counted
    /\ UNCHANGED <<main, sem, results, ctxDone, connClosed>>

\* The end of the loop over the accounts.
Wait ==
    /\ main = "spawn"
    /\ \A a \in Accounts : pc[a] # "none"
    /\ main' = "wait"
    /\ UNCHANGED <<pc, sem, wg, results, ctxDone, connClosed>>

HasRoomForOneMore == sem <= MaxConcurrency \* mutant: one place too many
HasRoom == sem < MaxConcurrency

\* case sem <- struct{}{}: select may take it when the context is done, too.
Acquire(a) ==
    /\ pc[a] = "select"
    /\ HasRoom
    /\ sem' = sem + 1
    /\ pc' = [pc EXCEPT ![a] = "check"]
    /\ UNCHANGED <<main, wg, results, ctxDone, connClosed>>

\* Mutant of GiveUp: the goroutine waits for its place whatever happens.
GiveUpNever(a) == pc[a] = "select" /\ ctxDone /\ UNCHANGED vars

\* Mutant of GiveUp: it calls wg.Done, which is deferred as well.
GiveUpDone(a) ==
    /\ pc[a] = "select"
    /\ ctxDone
    /\ results' = [results EXCEPT ![a] = "spoilt"]
    /\ pc' = [pc EXCEPT ![a] = "finish"]
    /\ wg' = wg - 1
    /\ UNCHANGED <<main, sem, ctxDone, connClosed>>

\* case <-ctx.Done()
GiveUp(a) ==
    /\ pc[a] = "select"
    /\ ctxDone
    /\ results' = [results EXCEPT ![a] = "spoilt"]
    /\ pc' = [pc EXCEPT ![a] = "finish"]
    /\ UNCHANGED <<main, sem, wg, ctxDone, connClosed>>

\* checkAccount returns: "own" for what account and upstream yield, good or
\* bad; "spoilt" for what the loss of context or connection made of it.
Check(a) ==
    /\ pc[a] = "check"
    /\ \E r \in {"own"} \cup (IF ctxDone \/ connClosed THEN {"spoilt"} ELSE {}) :
          results' = [results EXCEPT ![a] = r]
    /\ pc' = [pc EXCEPT ![a] = "release"]
    /\ UNCHANGED <<main, sem, wg, ctxDone, connClosed>>

ReleasedOwn(a) == IF results[a] = "own" THEN sem - 1 ELSE sem \* mutant: not when the check failed
Released(a) == sem - 1

\* The deferred <-sem, which runs first.
Release(a) ==
    /\ pc[a] = "release"
    /\ sem > 0
    /\ sem' = Released(a)
    /\ pc' = [pc EXCEPT ![a] = "finish"]
    /\ UNCHANGED <<main, wg, results, ctxDone, connClosed>>

\* The deferred wg.Done.
Finish(a) ==
    /\ pc[a] = "finish"
    /\ wg' = wg - Counted
    /\ pc' = [pc EXCEPT ![a] = "done"]
    /\ UNCHANGED <<main, sem, results, ctxDone, connClosed>>

\* wg.Wait returns; the results become the status.
Publish ==
    /\ main = "wait"
    /\ wg = 0
    /\ main' = "published"
    /\ UNCHANGED <<pc, sem, wg, results, ctxDone, connClosed>>

\* restartLoop or the caller of TestConfig cancels the context.
Cancel ==
    /\ ~ctxDone
    /\ ctxDone' = TRUE
    /\ UNCHANGED <<main, pc, sem, wg, results, connClosed>>

\* InitHostServices closes the connection.
CloseConn ==
    /\ ~connClosed
    /\ connClosed' = TRUE
    /\ UNCHANGED <<main, pc, sem, wg, results, ctxDone>>

Worker(a) == Acquire(a) \/ GiveUp(a) \/ Check(a) \/ Release(a) \/ Finish(a)

Next ==
    \/ \E a \in Accounts : Spawn(a) \/ Worker(a)
    \/ Wait
    \/ Publish
    \/ Cancel
    \/ CloseConn

Spec == Init /\ [][Next]_vars

(***************************************************************************)
(* Fairness.  Goroutines run; a place in the channel goes to the waiting   *)
(* senders in turn.  That a check returns is left to the properties.       *)
(***************************************************************************)
Fairness ==
    /\ WF_vars(Wait)
    /\ WF_vars(Publish)
    /\ \A a \in Accounts :
          /\ WF_vars(Spawn(a))
          /\ SF_vars(Acquire(a))
          /\ WF_vars(GiveUp(a))
          /\ WF_vars(Release(a) \/ Finish(a))

FairSpec == Spec /\ Fairness

(***************************************************************************)
(* Properties.                                                             *)
(***************************************************************************)
Checking == {a \in Accounts : pc[a] \in {"check", "release"}}
Unfinished == {a \in Accounts : pc[a] \notin {"none", "done"}}

\* Every variable has the shape its declaration gives it; a Go WaitGroup
\* panics below zero.
TypeOK ==
    /\ main \in {"spawn", "wait", "published"}
    /\ pc \in [Accounts -> {"none", "select", "check", "release", "finish", "done"}]
    /\ sem \in Nat
    /\ wg \in Nat
    /\ results \in [Accounts -> {"none", "own", "spoilt"}]
    /\ ctxDone \in BOOLEAN
    /\ connClosed \in BOOLEAN

\* No more accounts are checked at once than the configuration allows, and the
\* places taken are those of the checks under way: none leaks by any way out.
BoundedConcurrency ==
    /\ Cardinality(Checking) <= MaxConcurrency
    /\ sem = Cardinality(Checking)

\* What is published has every account's result, and nobody writes to the
\* published slice any more: the WaitGroup counts every goroutine to its end.
PublishedIsFinal ==
    main = "published" =>
        \A a \in Accounts : pc[a] = "done" /\ results[a] # "none"

Outcome == INSTANCE RefreshOutcome
    WITH lost <- ctxDone \/ connClosed,
         published <- main = "published",
         spoilt <- main = "published" /\ \E a \in Accounts : results[a] = "spoilt"

\* The pool comes to one publication, with accounts spoilt only by a lost
\* context or connection: the step Monitor takes for it.
ImplementsOutcome == Outcome!Spec

\* A check ends by its deadline of five request timeouts.
ChecksReturn == \A a \in Accounts : pc[a] = "check" ~> pc[a] # "check"

\* Every refresh that has its account list publishes, if checks end.
Publishes == ChecksReturn => <>(main = "published")

\* Once the context is done nobody waits for a place, even if the checks that
\* have the places do not return.
CancelFreesWaiters ==
    \A a \in Accounts : ctxDone /\ pc[a] = "select" ~> pc[a] # "select"
=============================================================================
