---------------------------- MODULE RuntimeCheck ----------------------------
(***************************************************************************)
(* cmd/runtimecheck: it verifies a package, starts the plugin process in   *)
(* it (cmd/plugin, pluginapi/v1/runtime.go) and drives it, one call after  *)
(* the other under one deadline.  It runs when the packager does not.      *)
(***************************************************************************)
EXTENDS Packaging, Configuration, Sequences

VARIABLES
    check,      \* its next step, the document it got, what it received
    process,    \* the plugin process, if it runs: its version, its configuration
    temporary,  \* whether the temporary directory exists
    frames      \* frames of the plugin's answer that are not received yet

vars == <<files, packager, check, process, temporary, frames>>

Fresh == [pc |-> "idle", doc |-> Document([f \in {} |-> f]), started |-> FALSE, body |-> 0]

Init ==
    /\ PackagingInit
    /\ check = Fresh /\ process = {} /\ temporary = FALSE /\ frames = <<>>

Then(step) == check' = [check EXCEPT !.pc = step]

\* Up to the verdict, and until the tool has ended.
Undecided == check.pc \notin {"idle", "verified", "kill", "done", "failed"}
Checking == check.pc \notin {"idle", "done", "failed"}

Package ==
    /\ ~Checking
    /\ PackagingNext
    /\ UNCHANGED <<check, process, temporary, frames>>

Begin ==
    /\ ~Checking /\ AtRest
    /\ check' = [Fresh EXCEPT !.pc = "verify"]
    /\ process' = {} /\ temporary' = TRUE /\ frames' = <<>>
    /\ UNCHANGED <<files, packager>>

VerifyAndExtract ==
    /\ check.pc = "verify" /\ Verifies
    /\ Then("launch")
    /\ UNCHANGED <<files, packager, process, temporary, frames>>

\* cmd/plugin: what New makes, with the version the build has put in.
Plugin(version) == [version |-> version, config |-> Default]

\* The process serves it under the handshake and the name both sides know.
Serve(version) == {Plugin(version)}

\* client.Client and Dispense.
Launch ==
    /\ check.pc = "launch"
    /\ process' = Serve(package.binary)
    /\ Then("info")
    /\ UNCHANGED <<files, packager, temporary, frames>>

\* GetInfo; whether the answer is that of the manifest.
SameID(plugin) == TRUE \* mutant: the ID only
SameIdentity(plugin) == plugin.version = package.manifest

GetInfo ==
    /\ check.pc = "info" /\ \A plugin \in process : SameIdentity(plugin)
    /\ Then("validate")
    /\ UNCHANGED <<files, packager, process, temporary, frames>>

\* Of {}; the answer is the document that is applied.
ValidateConfig ==
    /\ check.pc = "validate"
    /\ \E cfg \in ParseConfig(check.doc) :
          check' = [check EXCEPT !.pc = "apply", !.doc = Normalized(cfg)]
    /\ UNCHANGED <<files, packager, process, temporary, frames>>

\* Whether it says Applied, nobody looks.
ApplyConfig ==
    /\ check.pc = "apply"
    /\ process' = IF ParseConfig(check.doc) = {} THEN process
                  ELSE {[plugin EXCEPT !.config = cfg] : plugin \in process, cfg \in ParseConfig(check.doc)}
    /\ Then("send")
    /\ UNCHANGED <<files, packager, temporary, frames>>

\* The frames of one Forward that echoes a body, in one piece or two, or that
\* fails anywhere.
Answers ==
    {<<"start", "whole", "end">>, <<"start", "half", "half", "end">>, <<"start", "half", "error">>,
     <<"start", "half">>, <<"start", "end">>, <<"error">>, <<>>}

Part(frame) == CASE frame = "whole" -> 2 [] frame = "half" -> 1 [] OTHER -> 0

\* Start, chunk and end of the probe, and CloseSend.
Send ==
    /\ check.pc = "send"
    /\ frames' \in Answers
    /\ Then("receive")
    /\ UNCHANGED <<files, packager, process, temporary>>

Receive ==
    /\ check.pc = "receive"
    /\ frames # <<>> /\ Head(frames) # "error"
    /\ check' = [check EXCEPT !.pc = IF Head(frames) = "end" THEN "judge" ELSE "receive",
                              !.started = @ \/ Head(frames) = "start",
                              !.body = @ + Part(Head(frames))]
    /\ frames' = Tail(frames)
    /\ UNCHANGED <<files, packager, process, temporary>>

\* io.EOF
StreamEnds ==
    /\ check.pc = "receive" /\ frames = <<>>
    /\ Then("judge")
    /\ UNCHANGED <<files, packager, process, temporary, frames>>

\* The end of main; what it has deferred is still to come.
Verified ==
    /\ check.pc = "judge" /\ check.started /\ check.body = 2
    /\ Then("verified")
    /\ UNCHANGED <<files, packager, process, temporary, frames>>

\* server.Close returns: the plugin has no request to the test server left.
ServerClosed ==
    /\ check.pc = "verified"
    /\ Then("kill")
    /\ UNCHANGED <<files, packager, process, temporary, frames>>

\* client.Kill returns: the plugin has answered its Shutdown, or broken off; then
\* os.RemoveAll, whose error nobody looks at.
Killed ==
    /\ check.pc = "kill"
    /\ Then("done")
    /\ process' = {} /\ temporary' \in {FALSE, temporary}
    /\ UNCHANGED <<files, packager, frames>>

\* A test that fails, or an error: fatal runs nothing that is deferred, so the
\* process and the directory stay.
Fatal ==
    /\ Undecided
    /\ Then("failed")
    /\ UNCHANGED <<files, packager, process, temporary, frames>>

\* Steps that wait for the plugin: StartTimeout, then the deadline of ctx.
WaitsButRecv == {"launch", "info", "validate", "apply", "send"} \* mutant: Recv without it
Waits == {"launch", "info", "validate", "apply", "send", "receive"}

TimesOut == check.pc \in Waits /\ Fatal

Next ==
    \/ Package
    \/ Begin \/ VerifyAndExtract \/ Launch \/ GetInfo \/ ValidateConfig \/ ApplyConfig
    \/ Send \/ Receive \/ StreamEnds \/ Verified \/ ServerClosed \/ Killed \/ Fatal \/ TimesOut

\* The plugin may never answer; timers run out, and the tool does its own part.
\* Nothing is assumed of ServerClosed and Killed, which wait for the plugin with
\* no deadline: the one of ctx does not reach them.
Fairness ==
    /\ WF_vars(TimesOut)
    /\ WF_vars(check.pc \in {"verify", "judge"} /\ (VerifyAndExtract \/ Verified \/ Fatal))

Spec == Init /\ [][Next]_vars /\ Fairness

(***************************************************************************)
(* Properties.                                                             *)
(***************************************************************************)
\* What is reported as verified is one work: a whole archive, signed with the
\* key given, with a binary of the version it claims (though a build may have
\* left an old one), that runs under the defaults and relays all of a body.
VerifiedIsSound ==
    [][check.pc # "verified" /\ check'.pc = "verified" =>
          /\ Verifies /\ package.binary = package.manifest
          /\ process = {Plugin(package.manifest)}
          /\ check.started /\ check.body = 2]_vars

\* The check comes to a verdict, whatever the plugin in the package does: a
\* deadline, of the start (runtimecheck/main.go:64) or of ctx (77), reaches every
\* wait up to there.  That the tool then ends is not claimed: server.Close (96)
\* and client.Kill (67) wait for the plugin without one.
VerdictReached == Undecided ~> ~Undecided
=============================================================================
