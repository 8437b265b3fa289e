------------------------- MODULE RuntimeCheckProofs --------------------------
(***************************************************************************)
(* What a packager that reports success and a check that reports a package *)
(* as verified have established, for every set of versions and keys and    *)
(* any number of runs of either, stopped anywhere.                         *)
(***************************************************************************)
EXTENDS RuntimeCheck, TLAPS

(***************************************************************************)
(* The packager.  SuccessVerifies is about its last step; what leads there *)
(* is which of its files are already those of this run.                    *)
(***************************************************************************)
Progress ==
    /\ packager.pc \in {"add", "public", "publicWrite", "done"} => package.key = packager.key
    /\ packager.pc = "add" => package.state = "torn"
    /\ packager.pc \in {"public", "publicWrite", "done"} => package.state \in {"torn", "whole"}
    /\ packager.pc = "done" => pub = packager.key

\* For the updates of single fields.
Shape ==
    /\ DOMAIN packager = {"pc", "key", "version"}
    /\ DOMAIN package = {"state", "key", "manifest", "binary"}
    /\ DOMAIN check = {"pc", "doc", "started", "body"}

LEMMA PackagingStep ==
    ASSUME Progress, Shape, PackagingNext, UNCHANGED check
    PROVE  Progress' /\ Shape'
<1> USE DEF Progress, Shape, At, GoTo, files
<1>1. ASSUME NEW v \in Versions, Build(v) PROVE Progress' /\ Shape'
    BY <1>1 DEF Build
<1>2. CASE UseKey
    BY <1>2 DEF UseKey
<1>3. CASE KeyInvalid
    BY <1>3 DEF KeyInvalid
<1>4. CASE CreateKey
    BY <1>4 DEF CreateKey
<1>5. CASE KeyWritten
    BY <1>5 DEF KeyWritten
<1>6. CASE CreateArchive
    BY <1>6 DEF CreateArchive
<1>7. CASE AddFails
    BY <1>7 DEF AddFails
<1>8. CASE ArchiveClosed
    BY <1>8 DEF ArchiveClosed, AfterArchive
<1>9. CASE TruncatePublic
    BY <1>9 DEF TruncatePublic
<1>10. CASE PublicWritten
    BY <1>10 DEF PublicWritten
<1>11. CASE Stops
    BY <1>11 DEF Stops
<1>12. CASE LoseKey
    BY <1>12 DEF LoseKey
<1> QED
    BY <1>1, <1>2, <1>3, <1>4, <1>5, <1>6, <1>7, <1>8, <1>9, <1>10, <1>11, <1>12 DEF PackagingNext

(***************************************************************************)
(* The check.  While it runs the packager does not (Package), so what one  *)
(* step has found out still holds at the next.                             *)
(***************************************************************************)
\* What is given back by ValidateConfig is again the configuration.
LEMMA EmptyIsDefault == ParseConfig(Fresh.doc) = {Default}
<1>1. [f \in Fields |-> IF f \in DOMAIN Fresh.doc.given THEN Fresh.doc.given[f] ELSE Default[f]] = Default
    BY DEF Fresh, Document, Fields, Default
<1>2. InRange(Default)
    BY DEF InRange, Default
<1> QED
    BY <1>1, <1>2 DEF ParseConfig, Fresh, Document

LEMMA NormalizedIsDefault == ParseConfig(Normalized(Default)) = {Default}
<1>1. [f \in Fields |-> IF f \in DOMAIN Normalized(Default).given
                        THEN Normalized(Default).given[f] ELSE Default[f]] = Default
    BY DEF Normalized, Document, Fields, Default
<1>2. InRange(Default)
    BY DEF InRange, Default
<1> QED
    BY <1>1, <1>2 DEF ParseConfig, Normalized, Document

Found ==
    /\ check.pc \in {"launch", "info", "validate", "apply", "send", "receive", "judge"} => Verifies
    /\ check.pc = "info" => process = {Plugin(package.binary)}
    /\ check.pc \in {"validate", "apply", "send", "receive", "judge"} =>
          package.binary = package.manifest /\ process = {Plugin(package.manifest)}
    /\ check.pc \in {"verify", "launch", "info", "validate"} => check.doc = Fresh.doc
    /\ check.pc = "apply" => check.doc = Normalized(Default)

IInv == Progress /\ Shape /\ Found

LEMMA InitIInv == Init => IInv
BY DEF Init, PackagingInit, NoPackage, Fresh, IInv, Progress, Shape, Found

LEMMA IInvStep == IInv /\ [Next]_vars => IInv'
<1> SUFFICES ASSUME IInv, [Next]_vars PROVE IInv'
    OBVIOUS
<1> USE DEF IInv, Progress, Shape, Found, Then, files, Verifies
<1>1. CASE Package
    <2>1. Progress' /\ Shape' /\ UNCHANGED check
        BY <1>1, PackagingStep DEF Package
    <2>2. ~Checking /\ DOMAIN check = {"pc", "doc", "started", "body"}
        BY <1>1 DEF Package
    <2>3. Found'
        BY <2>1, <2>2 DEF Checking
    <2> QED
        BY <2>1, <2>3
<1>2. CASE Begin
    BY <1>2 DEF Begin, Fresh
<1>3. CASE VerifyAndExtract
    BY <1>3 DEF VerifyAndExtract
<1>4. CASE Launch
    BY <1>4 DEF Launch, Serve
<1>5. CASE GetInfo
    <2>1. process = {Plugin(package.binary)}
        BY <1>5 DEF GetInfo
    <2>2. SameIdentity(Plugin(package.binary))
        BY <1>5, <2>1 DEF GetInfo
    <2>3. package.binary = package.manifest
        BY <2>2 DEF SameIdentity, Plugin
    <2> QED
        BY <1>5, <2>1, <2>3 DEF GetInfo
<1>6. CASE ValidateConfig
    <2>1. ParseConfig(check.doc) = {Default}
        BY <1>6, EmptyIsDefault DEF ValidateConfig
    <2>2. check' = [check EXCEPT !.pc = "apply", !.doc = Normalized(Default)]
        BY <1>6, <2>1 DEF ValidateConfig
    <2> QED
        BY <1>6, <2>2 DEF ValidateConfig
<1>7. CASE ApplyConfig
    <2>1. ParseConfig(check.doc) = {Default} /\ process = {Plugin(package.manifest)}
        BY <1>7, NormalizedIsDefault DEF ApplyConfig
    <2>2. process' = {[plugin EXCEPT !.config = cfg] : plugin \in process, cfg \in {Default}}
        BY <1>7, <2>1 DEF ApplyConfig
    <2>3. [Plugin(package.manifest) EXCEPT !.config = Default] = Plugin(package.manifest)
        BY DEF Plugin
    <2>4. process' = process
        BY <2>1, <2>2, <2>3
    <2> QED
        BY <1>7, <2>4 DEF ApplyConfig
<1>8. CASE Send
    BY <1>8 DEF Send
<1>9. CASE Receive
    BY <1>9 DEF Receive
<1>10. CASE StreamEnds
    BY <1>10 DEF StreamEnds
<1>11. CASE Verified \/ ServerClosed \/ Killed
    BY <1>11 DEF Verified, ServerClosed, Killed
<1>12. CASE Fatal
    BY <1>12 DEF Fatal
<1>13. CASE TimesOut
    BY <1>13 DEF TimesOut, Fatal
<1>14. CASE UNCHANGED vars
    BY <1>14 DEF vars
<1> QED
    BY <1>1, <1>2, <1>3, <1>4, <1>5, <1>6, <1>7, <1>8, <1>9, <1>10, <1>11, <1>12, <1>13, <1>14 DEF Next

\* A packager that has come to its end (packager/main.go:150) has left a package
\* and a public key that fit.
THEOREM SuccessIsSigned == Spec => []SuccessVerifies
<1>1. IInv => SuccessVerifies
    BY DEF IInv, Progress, SuccessVerifies, Verifies
<1> QED
    BY <1>1, InitIInv, IInvStep, PTL DEF Spec

\* What runtimecheck calls verified is one whole package, with a binary of the
\* version it claims that runs under the defaults and relays a body.
THEOREM VerifiedIsOneWork == Spec => VerifiedIsSound
<1> DEFINE Sound ==
        check.pc # "verified" /\ check'.pc = "verified" =>
            /\ Verifies /\ package.binary = package.manifest
            /\ process = {Plugin(package.manifest)}
            /\ check.started /\ check.body = 2
<1>1. IInv /\ [Next]_vars => Sound
    <2> SUFFICES ASSUME IInv, [Next]_vars, check.pc # "verified", check'.pc = "verified" PROVE Sound
        OBVIOUS
    <2> USE DEF IInv, Shape, Then
    <2>1. ~Package /\ check' # check
        BY DEF Package
    <2>2. ~Begin /\ ~VerifyAndExtract /\ ~Launch /\ ~GetInfo /\ ~ApplyConfig
        BY DEF Begin, Fresh, VerifyAndExtract, Launch, GetInfo, ApplyConfig
    <2>3. ~ValidateConfig /\ ~Send /\ ~StreamEnds /\ ~Fatal /\ ~TimesOut
        BY DEF ValidateConfig, Send, StreamEnds, Fatal, TimesOut
    <2>4. ~Receive /\ ~ServerClosed /\ ~Killed
        BY DEF Receive, ServerClosed, Killed
    <2>5. Verified
        BY <2>1, <2>2, <2>3, <2>4 DEF Next, vars
    <2> QED
        BY <2>5 DEF Verified, Found
<1> QED
    BY <1>1, InitIInv, IInvStep, PTL DEF Spec, VerifiedIsSound
=============================================================================
