----------------------------- MODULE Packaging ------------------------------
(***************************************************************************)
(* build.ps1 and the packager it runs (cmd/packager): a binary, a key, an  *)
(* archive and a file with the public key, written one after the other by  *)
(* a tool that can be stopped, or stop itself, after any of its writes.    *)
(* A file is represented by what it was written from; a key by itself, so  *)
(* that a signature of one key verifies with that key only.                *)
(***************************************************************************)
EXTENDS Naturals

CONSTANTS
    Versions,
    Keys,
    Official    \* the publisher's key; the repository has its public half

ASSUME KeysAssumption ==
    /\ Official \in Keys
    /\ Keys \cap {"absent", "torn"} = {} /\ Versions \cap {"absent"} = {}

VARIABLES
    built,      \* the version compiled into the binary under build/
    keyFile,    \* .keys/publisher-private.key
    pub,        \* publisher-public-key.txt
    package,    \* the .s2plugin: how much of it there is, and what is in it
    packager    \* the run of the packager: its next step, its key and version

files == <<built, keyFile, pub, package>>

\* torn is no archive; short is one that lacks files, as AddFails leaves it.
NoPackage == [state |-> "absent", key |-> Official, manifest |-> "absent", binary |-> "absent"]

\* A checkout; the publisher's own has the key.
PackagingInit ==
    /\ built = "absent" /\ pub = Official /\ package = NoPackage
    /\ keyFile \in {"absent", Official}
    /\ packager = [pc |-> "idle", key |-> Official, version |-> "absent"]

At(step) == packager.pc = step
GoTo(step) == packager' = [packager EXCEPT !.pc = step]
AtRest == packager.pc \in {"idle", "done"}

\* build.ps1: a go build that fails leaves the binary as it was and does not
\* keep the packager from running.
Build(v) ==
    /\ AtRest
    /\ built' \in {built, v}
    /\ packager' = [pc |-> "key", key |-> Official, version |-> v]
    /\ UNCHANGED <<keyFile, pub, package>>

(***************************************************************************)
(* loadOrCreateKey.                                                        *)
(***************************************************************************)
UseKey ==
    /\ At("key") /\ keyFile \in Keys
    /\ packager' = [packager EXCEPT !.pc = "archive", !.key = keyFile]
    /\ UNCHANGED files

KeyInvalid ==
    /\ At("key") /\ keyFile = "torn"
    /\ GoTo("idle")
    /\ UNCHANGED files

\* There is no file, or it cannot be read, and os.WriteFile begins with
\* emptying it.
CreateKey ==
    /\ At("key")
    /\ \E k \in Keys \ {Official, keyFile, pub, package.key} :
          packager' = [packager EXCEPT !.pc = "keyWrite", !.key = k]
    /\ keyFile' = "torn"
    /\ UNCHANGED <<built, pub, package>>

KeyWritten ==
    /\ At("keyWrite")
    /\ keyFile' = packager.key
    /\ GoTo("archive")
    /\ UNCHANGED <<built, pub, package>>

(***************************************************************************)
(* main, from the files on; writePackage.                                  *)
(***************************************************************************)
\* Without a binary there is nothing to read, and Stops is what comes next.
CreateArchive ==
    /\ At("archive") /\ built # "absent"
    /\ package' = [state |-> "torn", key |-> packager.key,
                   manifest |-> packager.version, binary |-> built]
    /\ GoTo("add")
    /\ UNCHANGED <<built, keyFile, pub>>

\* addFile returns an error: the deferred Close makes what there is an archive.
AddFails ==
    /\ At("add")
    /\ package' \in {package, [package EXCEPT !.state = "short"]}
    /\ GoTo("idle")
    /\ UNCHANGED <<built, keyFile, pub>>

\* Mutant of AfterArchive: a public key that is there is kept.
AfterArchiveKept == IF pub \in Keys THEN "done" ELSE "public"
AfterArchive == "public"

\* The error of the deferred Close is nobody's.
ArchiveClosed ==
    /\ At("add")
    /\ package' \in {package, [package EXCEPT !.state = "whole"]}
    /\ GoTo(AfterArchive)
    /\ UNCHANGED <<built, keyFile, pub>>

\* os.WriteFile of the public key.
TruncatePublic ==
    /\ At("public")
    /\ pub' = "torn"
    /\ GoTo("publicWrite")
    /\ UNCHANGED <<built, keyFile, package>>

PublicWritten ==
    /\ At("publicWrite")
    /\ pub' = packager.key
    /\ GoTo("done")
    /\ UNCHANGED <<built, keyFile, package>>

\* fatal, or the end of the process from outside.
Stops ==
    /\ ~AtRest
    /\ GoTo("idle")
    /\ UNCHANGED files

\* Another checkout, or a key that was not kept.
LoseKey ==
    /\ AtRest
    /\ keyFile' = "absent"
    /\ UNCHANGED <<built, pub, package, packager>>

PackagingNext ==
    \/ \E v \in Versions : Build(v)
    \/ UseKey \/ KeyInvalid \/ CreateKey \/ KeyWritten
    \/ CreateArchive \/ AddFails \/ ArchiveClosed \/ TruncatePublic \/ PublicWritten
    \/ Stops \/ LoseKey

(***************************************************************************)
(* Properties.                                                             *)
(***************************************************************************)
\* verifyAndExtract: an archive with every file of its manifest, and the
\* signature is of the key in the file given.
Verifies == package.state = "whole" /\ package.key = pub

\* A packager that reports success leaves a package and a public key that fit,
\* whatever earlier runs, stopped in between, had left in either place; only an
\* archive whose Close failed does not verify.
SuccessVerifies == packager.pc = "done" => Verifies \/ package.state = "torn"
=============================================================================
