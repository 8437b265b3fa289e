---------------------------- MODULE SettingsPage ----------------------------
(***************************************************************************)
(* The settings page (ui/assets/app.js): its handlers, each a flow that    *)
(* awaits one request to the host's page at a time, any number of them at  *)
(* once; the host, which carries requests out in its own time; and of the  *)
(* plugin its configuration and its refreshes, which Monitor details.      *)
(*                                                                         *)
(* Time is counted in saves that are over for the page, answered or not;   *)
(* the clocks of page and plugin are taken to agree to the second the page *)
(* allows for.  The form, what loadConfig puts into it and the texts are   *)
(* left out: no handler looks at them again.                               *)
(***************************************************************************)
EXTENDS Naturals

CONSTANTS
    Configs,
    Applied,    \* of them, the one in force when the page is opened
    Polls,      \* loadStatus from setInterval: as many as overlap
    MaxSaves    \* bound: saves

ASSUME PageAssumption == Applied \in Configs /\ Polls \cap {"submit", "click"} = {}

Flows == {"submit", "click"} \cup Polls

VARIABLES
    at,         \* per flow: the request it awaits ("idle": none)
    reply,      \* per flow: the answer on its way, at most one: the status in it
    sent,       \* the configuration to be saved, {} but for a save
    waiting,    \* pendingRefreshAt
    shown,      \* the status on the page
    now,        \* the time: saves that are over, and one
    applied,    \* configuration the plugin has
    orphans,    \* saves the page has given up and the host may still carry out
    refreshing, \* the refresh under way: its configuration, and who asked for it
    status      \* the plugin's: configuration and time of its last refresh

flow == <<at, reply>>
page == <<sent, waiting, shown, now>>
plugin == <<applied, orphans, refreshing, status>>
vars == <<flow, page, plugin>>

\* last_refresh_at is missing: no refresh yet, or the plugin does not run.
NoStatus == [cfg |-> "none", at |-> 0]

Init ==
    /\ at = [f \in Flows |-> "idle"]
    /\ reply = [f \in Flows |-> {}]
    /\ waiting = 0 /\ shown = NoStatus /\ now = 1
    /\ applied = Applied /\ sent = {}
    /\ orphans = {} /\ refreshing = {} /\ status = NoStatus

\* request: what f awaits next.
Ask(f, type) ==
    /\ at' = [at EXCEPT ![f] = type]
    /\ reply' = [reply EXCEPT ![f] = {}]

(***************************************************************************)
(* What starts a flow.                                                     *)
(***************************************************************************)
Submit(cfg) ==
    /\ at["submit"] = "idle" /\ now <= MaxSaves
    /\ sent' = {cfg}
    /\ Ask("submit", "save")
    /\ UNCHANGED <<waiting, shown, now, plugin>>

Click ==
    /\ at["click"] = "idle"
    /\ Ask("click", "test")
    /\ UNCHANGED <<page, plugin>>

Poll(f) ==
    /\ at[f] = "idle"
    /\ Ask(f, "status")
    /\ UNCHANGED <<page, plugin>>

(***************************************************************************)
(* The host and the plugin.                                                *)
(***************************************************************************)
Open(f, type) == at[f] = type /\ reply[f] = {}
Answer(f, r) == reply' = [reply EXCEPT ![f] = {r}]

HostSaves ==
    /\ Open("submit", "save")
    /\ \E cfg \in sent : applied' = cfg
    /\ Answer("submit", NoStatus)
    /\ UNCHANGED <<at, page, orphans, refreshing, status>>

HostSavesLate ==
    /\ \E cfg \in orphans : applied' = cfg /\ orphans' = orphans \ {cfg}
    /\ UNCHANGED <<flow, page, refreshing, status>>

HostLoads ==
    /\ Open("submit", "config")
    /\ Answer("submit", NoStatus)
    /\ UNCHANGED <<at, page, plugin>>

HostReports(f) ==
    /\ Open(f, "status")
    /\ Answer(f, status)
    /\ UNCHANGED <<at, page, plugin>>

\* The plugin does not run, and the host says so.
HostReportsNone(f) ==
    /\ Open(f, "status")
    /\ Answer(f, NoStatus)
    /\ UNCHANGED <<at, page, plugin>>

\* Of the loop or of TestConfig, under refreshMu.
BeginRefresh(by) ==
    /\ refreshing = {}
    /\ by = "click" => Open("click", "test")
    /\ refreshing' = {[cfg |-> applied, by |-> by]}
    /\ UNCHANGED <<flow, page, applied, orphans, status>>

EndRefresh ==
    /\ \E r \in refreshing :
          /\ status' = [cfg |-> r.cfg, at |-> now]
          /\ reply' = IF r.by = "click" /\ Open("click", "test")
                      THEN [reply EXCEPT !["click"] = {status'}] ELSE reply
    /\ refreshing' = {}
    /\ UNCHANGED <<at, page, applied, orphans>>

RefreshFails ==
    /\ refreshing # {}
    /\ refreshing' = {}
    /\ UNCHANGED <<flow, page, applied, orphans, status>>

(***************************************************************************)
(* What the page does with an answer.                                      *)
(***************************************************************************)
FreshAfter(s) == waiting > 0 /\ s.at > waiting \* mutant: >= as >
Fresh(s) == waiting > 0 /\ s.at >= waiting

RenderStatus(s) ==
    /\ shown' = s
    /\ IF Fresh(s) THEN waiting' = 0 ELSE waiting' = waiting
    /\ UNCHANGED <<sent, now>>

\* A refresh less than a second before it counts as one after it.
SaveAnswered ==
    /\ at["submit"] = "save" /\ reply["submit"] # {}
    /\ now' = now + 1
    /\ waiting' \in {now', status.at} \ {0}
    /\ sent' = {}
    /\ Ask("submit", "config")
    /\ UNCHANGED <<shown, plugin>>

ConfigAnswered ==
    /\ at["submit"] = "config" /\ reply["submit"] # {}
    /\ Ask("submit", "status")
    /\ UNCHANGED <<page, plugin>>

StatusAnswered(f) ==
    /\ at[f] \in {"status", "test"}
    /\ \E s \in reply[f] : RenderStatus(s)
    /\ Ask(f, "idle")
    /\ UNCHANGED plugin

\* The flow is over, by a catch and a finally.
Rejected(f) ==
    /\ IF at[f] = "save" THEN sent' = {} /\ now' = now + 1 ELSE UNCHANGED <<sent, now>>
    /\ Ask(f, "idle")
    /\ UNCHANGED <<waiting, shown>>

\* The host answers with an error (on its way, it would change nothing).
Refused(f) ==
    /\ at[f] # "idle" /\ reply[f] = {}
    /\ Rejected(f)
    /\ UNCHANGED plugin

\* Requests whose timer runs.
TimedButSaves(f) == at[f] \notin {"idle", "save"} \* mutant: no timer for a save
Timed(f) == at[f] # "idle"

\* An answer that comes later finds no task.
Timeout(f) ==
    /\ Timed(f)
    /\ Rejected(f)
    /\ \/ Open(f, "save") /\ orphans' = orphans \cup sent
       \/ orphans' = orphans
    /\ UNCHANGED <<applied, refreshing, status>>

Next ==
    \/ \E cfg \in Configs : Submit(cfg)
    \/ Click \/ HostSaves \/ HostSavesLate \/ SaveAnswered \/ HostLoads \/ ConfigAnswered
    \/ \E by \in {"loop", "click"} : BeginRefresh(by)
    \/ EndRefresh \/ RefreshFails
    \/ \E f \in Polls : Poll(f)
    \/ \E f \in Flows :
          \/ HostReports(f) \/ HostReportsNone(f)
          \/ StatusAnswered(f) \/ Refused(f) \/ Timeout(f)

\* Timers run out.  The loop refreshes, and not every refresh fails; the page
\* polls, and of a poll now and then the answer comes in time.
Fairness ==
    /\ \A f \in Flows : WF_vars(Timeout(f))
    /\ WF_vars(BeginRefresh("loop")) /\ SF_vars(EndRefresh)
    /\ \A f \in Polls :
          /\ WF_vars(Poll(f)) /\ SF_vars(HostReports(f))
          /\ SF_vars(StatusAnswered(f) /\ shown' # NoStatus)

Spec == Init /\ [][Next]_vars /\ Fairness

(***************************************************************************)
(* Properties.                                                             *)
(***************************************************************************)
\* Whatever the host does with a request, both buttons can be pressed again:
\* save comes back after up to three requests, refresh after one.
ButtonsReturn ==
    \A f \in {"submit", "click"} : at[f] # "idle" ~> at[f] = "idle"

\* With the last save answered or given up, the page comes to show accounts
\* under the configuration that is in force, and waits for nothing: what it
\* shows and what it waits for survive answers out of order, refreshes that
\* began under an earlier configuration and saves carried out late.
SavedTakesEffect == []<>(waiting = 0 /\ shown.cfg = applied)
=============================================================================
