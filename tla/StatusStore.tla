---------------------------- MODULE StatusStore -----------------------------
(***************************************************************************)
(* The status of the Plugin (internal/monitor/plugin.go) as memory.        *)
(* Monitor takes a snapshot for one value; here it is a struct that is     *)
(* copied under p.mu, and a slice of accounts that the copies share and    *)
(* that is encoded to JSON, account by account, mostly outside p.mu.       *)
(*                                                                         *)
(* A process is a goroutine that runs one call of the host or one refresh  *)
(* of the loop; when the loop refreshes is Monitor's business, here any    *)
(* process may.  Garbage is collected: an address nobody holds is free.    *)
(***************************************************************************)
EXTENDS Naturals, Masking, Configuration

CONSTANTS
    Procs,
    NoProc,
    Addrs,          \* places for slices of accounts
    NoAddr,
    Accounts,       \* the accounts ListAccounts names
    Raw,            \* per account: its identity in full
    Documents,      \* configurations the host may apply
    MaxRefreshes    \* bound: refreshes that get as far as the account list

ASSUME StoreAssumption ==
    /\ NoProc \notin Procs
    /\ NoAddr \notin Addrs
    /\ Raw \in [Accounts -> Identity]
    /\ \A doc \in Documents : ParseConfig(doc) \subseteq Config

VARIABLES
    broker,     \* whether Plugin.broker is set
    config,     \* Plugin.config
    host,       \* whether Plugin.host is set
    status,     \* Plugin.status; accounts is the address of its slice
    heap,       \* per address: a slice, as a function of the accounts in it
    mu,         \* the writer that holds p.mu over several steps
    readers,    \* the readers that do
    refreshMu,  \* holder of p.refreshMu
    pc,         \* per process: what it does next
    local,      \* per process: its copy of the status, and the JSON so far
    kv,         \* the host's entry monitor/snapshot: at most one
    refreshes   \* refreshes so far; the number of one stands for its time

vars == <<broker, config, host, status, heap, mu, readers, refreshMu, pc, local, kv, refreshes>>

Nothing == [a \in {} |-> a]

Free == [mask |-> TRUE, addr |-> NoAddr, last |-> 0, running |-> FALSE, json |-> Nothing]

\* status := p.status
Copied == [Free EXCEPT !.addr = status.accounts, !.last = status.last, !.running = status.running]

With(f, k, v) == [x \in DOMAIN f \cup {k} |-> IF x = k THEN v ELSE f[x]]

Unused == Addrs \ ({status.accounts} \cup {local[p].addr : p \in Procs})

\* p.mu.RLock and p.mu.Lock do not block.
CanRead == mu = NoProc
CanWrite == mu = NoProc /\ readers = {}

\* New
Init ==
    /\ broker = FALSE
    /\ config = Default
    /\ host = FALSE
    /\ \E a \in Addrs :
          /\ status = [accounts |-> a, last |-> 0, running |-> FALSE, message |-> "waiting"]
          /\ heap = [b \in Addrs |-> Nothing]
    /\ mu = NoProc /\ readers = {} /\ refreshMu = NoProc
    /\ pc = [p \in Procs |-> "idle"]
    /\ local = [p \in Procs |-> Free]
    /\ kv = {}
    /\ refreshes = 0

Go(p, step, frame) ==
    /\ pc' = [pc EXCEPT ![p] = step]
    /\ local' = [local EXCEPT ![p] = frame]

\* go-plugin hands over its broker before it serves calls.
SetHostBroker(p) ==
    /\ ~broker /\ CanWrite
    /\ broker' = TRUE
    /\ UNCHANGED <<config, host, status, heap, mu, readers, refreshMu, pc, local, kv, refreshes>>

(***************************************************************************)
(* json.Marshal of a copy of the status: Health, saveSnapshot, statusJSON. *)
(***************************************************************************)
Marshalling(p) == pc[p] \in {"health", "applySave", "refreshSave", "report"}
Marshalled(p) == DOMAIN local[p].json = DOMAIN heap[local[p].addr]

Marshal(p) ==
    /\ Marshalling(p)
    /\ \E a \in DOMAIN heap[local[p].addr] \ DOMAIN local[p].json :
          local' = [local EXCEPT ![p].json = With(@, a, heap[local[p].addr][a])]
    /\ UNCHANGED <<broker, config, host, status, heap, mu, readers, refreshMu, pc, kv, refreshes>>

Health(p) ==
    /\ pc[p] = "idle" /\ CanRead
    /\ Go(p, "health", Copied)
    /\ UNCHANGED <<broker, config, host, status, heap, mu, readers, refreshMu, kv, refreshes>>

HealthAnswers(p) ==
    /\ pc[p] = "health" /\ Marshalled(p)
    /\ Go(p, "idle", Free)
    /\ UNCHANGED <<broker, config, host, status, heap, mu, readers, refreshMu, kv, refreshes>>

\* The end of TestConfig: the one encoding under p.mu.RLock.
StatusJSON(p) ==
    /\ pc[p] = "tested" /\ CanRead
    /\ readers' = readers \cup {p}
    /\ Go(p, "report", Copied)
    /\ UNCHANGED <<broker, config, host, status, heap, mu, refreshMu, kv, refreshes>>

TestAnswers(p) ==
    /\ pc[p] = "report" /\ Marshalled(p)
    /\ readers' = readers \ {p}
    /\ Go(p, "idle", Free)
    /\ UNCHANGED <<broker, config, host, status, heap, mu, refreshMu, kv, refreshes>>

Entry(l) == [last |-> l.last, running |-> l.running, list |-> l.json]

\* saveSnapshot, its KVSet carried out or not; then ApplyConfig restarts the
\* loop, and refresh returns to the loop or to TestConfig.
SaveSnapshot(p) ==
    /\ pc[p] \in {"applySave", "refreshSave"} /\ Marshalled(p)
    /\ kv' \in {kv, {Entry(local[p])}}
    /\ \E step \in (IF pc[p] = "applySave" THEN {"restart"} ELSE {"idle", "tested"}) :
          Go(p, step, Free)
    /\ refreshMu' = IF pc[p] = "refreshSave" THEN NoProc ELSE refreshMu
    /\ UNCHANGED <<broker, config, host, status, heap, mu, readers, refreshes>>

(***************************************************************************)
(* refresh.                                                                *)
(***************************************************************************)
\* The configuration is read, the accounts are listed, and there is a slice
\* for the results.
BeginRefresh(p) ==
    /\ pc[p] = "idle" /\ refreshMu = NoProc /\ CanRead /\ host
    /\ refreshes < MaxRefreshes
    /\ refreshes' = refreshes + 1
    /\ refreshMu' = p
    /\ \E a \in Unused :
          /\ heap' = [heap EXCEPT ![a] = Nothing]
          /\ Go(p, "check", [Free EXCEPT !.mask = config.mask, !.addr = a, !.last = refreshes'])
    /\ UNCHANGED <<broker, config, host, status, mu, readers, kv>>

\* A worker stores its account, in any order.
CheckAccount(p) ==
    /\ pc[p] = "check"
    /\ \E a \in Accounts \ DOMAIN heap[local[p].addr] :
          LET result == [who |-> Display(Raw[a], local[p].mask), at |-> local[p].last]
          IN  heap' = [heap EXCEPT ![local[p].addr] = With(@, a, result)]
    /\ UNCHANGED <<broker, config, host, status, mu, readers, refreshMu, pc, local, kv, refreshes>>

Summarize(l) ==
    [accounts |-> l.addr, last |-> l.last, running |-> TRUE, message |-> "updated"]

Publish(p) ==
    /\ pc[p] = "check" /\ CanWrite
    /\ DOMAIN heap[local[p].addr] = Accounts
    /\ status' = Summarize(local[p])
    /\ Go(p, "refreshSave", [local[p] EXCEPT !.running = TRUE])
    /\ UNCHANGED <<broker, config, host, heap, mu, readers, refreshMu, kv, refreshes>>

(***************************************************************************)
(* ApplyConfig.                                                            *)
(***************************************************************************)
\* Where the slice is masked: in a copy of it.
SliceInPlace == {status.accounts} \* mutant: in place
SliceCopy == Unused

\* Under p.mu.Lock, which is kept if there are identities to mask.
ApplyConfig(p, doc) ==
    /\ pc[p] = "idle" /\ CanWrite
    /\ \E cfg \in ParseConfig(doc) :
          /\ config' = cfg
          /\ IF cfg.mask /\ ~config.mask
             THEN \E a \in SliceCopy :
                     /\ heap' = [heap EXCEPT ![a] = heap[status.accounts]]
                     /\ status' = [status EXCEPT !.accounts = a]
                     /\ mu' = p
                     /\ Go(p, "mask", [Free EXCEPT !.addr = a])
             ELSE /\ Go(p, IF host THEN "restart" ELSE "idle", Free)
                  /\ UNCHANGED <<broker, heap, status, mu>>
    /\ UNCHANGED <<broker, host, readers, refreshMu, kv, refreshes>>

Masked(account) == [account EXCEPT !.who = MaskIdentity(@)]

MaskAccount(p) ==
    /\ pc[p] = "mask"
    /\ \E a \in DOMAIN heap[local[p].addr] :
          /\ heap[local[p].addr][a] # Masked(heap[local[p].addr][a])
          /\ heap' = [heap EXCEPT ![local[p].addr][a] = Masked(@)]
    /\ UNCHANGED <<broker, config, host, status, mu, readers, refreshMu, pc, local, kv, refreshes>>

\* The copy for saveSnapshot, and p.mu.Unlock.
ConfigApplied(p) ==
    /\ pc[p] = "mask"
    /\ \A a \in DOMAIN heap[local[p].addr] :
          heap[local[p].addr][a] = Masked(heap[local[p].addr][a])
    /\ mu' = NoProc
    /\ IF host THEN Go(p, "applySave", Copied) ELSE Go(p, "idle", Free)
    /\ UNCHANGED <<broker, config, host, status, heap, readers, refreshMu, kv, refreshes>>

(***************************************************************************)
(* InitHostServices with a version it knows, once it has dialled the host; *)
(* before that it returns and has changed nothing.                         *)
(***************************************************************************)
InitHostServices(p) ==
    /\ pc[p] = "idle" /\ CanWrite
    /\ broker
    /\ host' = TRUE
    /\ status' = [status EXCEPT !.message = "connected"]
    /\ Go(p, "load", Free)
    /\ UNCHANGED <<broker, config, heap, mu, readers, refreshMu, kv, refreshes>>

\* loadSnapshot: the entry is decoded into a slice of its own.
LoadSnapshot(p) ==
    /\ pc[p] = "load"
    /\ \E entry \in kv, a \in Unused :
          /\ heap' = [heap EXCEPT ![a] = entry.list]
          /\ Go(p, "install", [Free EXCEPT !.addr = a, !.last = entry.last, !.running = entry.running])
    /\ UNCHANGED <<broker, config, host, status, mu, readers, refreshMu, kv, refreshes>>

LoadSnapshotFails(p) ==
    /\ pc[p] = "load"
    /\ Go(p, "restart", Free)
    /\ UNCHANGED <<broker, config, host, status, heap, mu, readers, refreshMu, kv, refreshes>>

\* Mutant of Loaded: Running as it was saved.
LoadedAsSaved(l) == [accounts |-> l.addr, last |-> l.last, running |-> l.running, message |-> "loaded"]
Loaded(l) == [accounts |-> l.addr, last |-> l.last, running |-> TRUE, message |-> "loaded"]

RestoredAsSaved(slice) == slice \* mutant: masked when it was saved or not at all
Restored(slice) == [a \in DOMAIN slice |-> IF config.mask THEN Masked(slice[a]) ELSE slice[a]]

InstallSnapshot(p) ==
    /\ pc[p] = "install" /\ CanWrite
    /\ heap' = [heap EXCEPT ![local[p].addr] = Restored(@)]
    /\ status' = Loaded(local[p])
    /\ Go(p, "restart", Free)
    /\ UNCHANGED <<broker, config, host, mu, readers, refreshMu, kv, refreshes>>

\* restartLoop
RestartLoop(p) ==
    /\ pc[p] = "restart" /\ CanWrite
    /\ status' = [status EXCEPT !.running = TRUE]
    /\ Go(p, "idle", Free)
    /\ UNCHANGED <<broker, config, host, heap, mu, readers, refreshMu, kv, refreshes>>

Step(p) ==
    \/ SetHostBroker(p)
    \/ Marshal(p) \/ Health(p) \/ HealthAnswers(p) \/ StatusJSON(p) \/ TestAnswers(p)
    \/ SaveSnapshot(p)
    \/ BeginRefresh(p) \/ CheckAccount(p) \/ Publish(p)
    \/ \E doc \in Documents : ApplyConfig(p, doc)
    \/ MaskAccount(p) \/ ConfigApplied(p)
    \/ InitHostServices(p) \/ LoadSnapshot(p) \/ LoadSnapshotFails(p)
    \/ InstallSnapshot(p) \/ RestartLoop(p)

Next == \E p \in Procs : Step(p)

Spec == Init /\ [][Next]_vars

(***************************************************************************)
(* Properties.                                                             *)
(***************************************************************************)
Account == [who : Identity, at : Nat]
Slice(f) == DOMAIN f \subseteq Accounts /\ \A a \in DOMAIN f : f[a] \in Account

\* Every variable has the shape its declaration in plugin.go gives it, and the
\* configuration is one the loop can run with: a ticker panics on an interval
\* of 0, and without a place in the semaphore a refresh would never end.
TypeOK ==
    /\ config \in Config
    /\ config.interval > 0 /\ config.timeout > 0 /\ config.concurrency > 0
    /\ broker \in BOOLEAN /\ host \in BOOLEAN
    /\ status \in [accounts : Addrs, last : Nat, running : BOOLEAN,
                   message : {"waiting", "connected", "loaded", "updated"}]
    /\ DOMAIN heap = Addrs /\ \A a \in Addrs : Slice(heap[a])
    /\ mu \in Procs \cup {NoProc} /\ readers \subseteq Procs
    /\ refreshMu \in Procs \cup {NoProc}
    /\ DOMAIN pc = Procs /\ DOMAIN local = Procs
    /\ \A p \in Procs : Slice(local[p].json)

\* No slice is written while another process may read it: the writers (the
\* workers of a refresh, ApplyConfig) only have slices nobody else has, though
\* Health and saveSnapshot read theirs without p.mu.
NoRace ==
    \A p, q \in Procs :
        p # q /\ pc[p] \in {"check", "mask"} /\ Marshalling(q) => local[p].addr # local[q].addr

\* What goes out (an answer of Health or TestConfig, an entry of the KV store)
\* is one status the plugin had: all accounts from the refresh it is dated by,
\* and all in full or all in the one masked form, however often masked.
Whole(json, last) ==
    \E m \in BOOLEAN : \A a \in DOMAIN json : json[a] = [who |-> Display(Raw[a], m), at |-> last]

WholeAnswers ==
    /\ \A p \in Procs : Marshalling(p) => Whole(local[p].json, local[p].last)
    /\ \A entry \in kv : Whole(entry.list, entry.last)

\* A plugin that runs says so for good: no entry that was saved before it ran
\* takes that back, though connecting a second time loads one.
RunsForGood == [][status.running => status'.running]_vars

(***************************************************************************)
(* The promise about identities: see IdentityView.  ApplyConfig masks the  *)
(* accounts one by one, but keeps p.mu meanwhile: to everybody else all of *)
(* them are masked from the moment the switch is turned on.                *)
(***************************************************************************)
Shown ==
    LET slice == heap[status.accounts]
    IN  CASE DOMAIN slice = {} -> "none"
          [] DOMAIN slice # {} /\ (mu # NoProc \/ \A a \in DOMAIN slice : slice[a] = Masked(slice[a]))
                -> "masked"
          [] OTHER -> "clear"

\* The refresh that has read MaskAccountIdentity = FALSE and has seen the
\* switch turned on since.
StaleRefresh == config.mask /\ \E p \in Procs : pc[p] = "check" /\ ~local[p].mask

View == INSTANCE IdentityView WITH mask <- config.mask, shown <- Shown, stale <- StaleRefresh

\* The slices that calls and refreshes share and the account-by-account masking
\* add nothing to what Monitor says of identities: turning masking on hides all
\* of them at once, and only one refresh, then under way, brings them back.
ImplementsView == View!Spec
=============================================================================
