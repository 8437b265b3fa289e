--------------------------- MODULE Configuration ----------------------------
(***************************************************************************)
(* parseConfig of internal/monitor/config.go.  A document is represented   *)
(* by what the decoder makes of it: the fields it gives (null gives none), *)
(* whether all of them are known and of the right type, and whether        *)
(* anything follows the object.                                            *)
(***************************************************************************)
EXTENDS Integers

Fields == {"interval", "timeout", "concurrency", "usage", "mask"}

Config == [interval : Int, timeout : Int, concurrency : Int, usage : BOOLEAN, mask : BOOLEAN]

\* defaultConfig
Default == [interval |-> 30, timeout |-> 20, concurrency |-> 3, usage |-> TRUE, mask |-> TRUE]

\* A document that is empty or {} gives no field at all.
Document(given) == [given |-> given, decodes |-> TRUE, single |-> TRUE]

\* What the rest of the plugin counts on.
InRangeUpTo10(cfg) == cfg.concurrency <= 10 \* mutant: the lower bound is missing

InRange(cfg) ==
    /\ cfg.interval \in 5 .. 1440
    /\ cfg.timeout \in 5 .. 60
    /\ cfg.concurrency \in 1 .. 10

\* The defaults with what the document gives; no element if it is refused.
ParseConfig(doc) ==
    LET cfg == [f \in Fields |-> IF f \in DOMAIN doc.given THEN doc.given[f] ELSE Default[f]]
    IN  {c \in {cfg} : doc.decodes /\ doc.single /\ InRange(c)}

\* The document ValidateConfig answers with: every field of the configuration.
Normalized(cfg) == Document(cfg)
=============================================================================
