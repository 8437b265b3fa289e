---------------------------- MODULE AccountCheck ----------------------------
(***************************************************************************)
(* One checkAccount (internal/monitor/plugin.go): the identity is asked of *)
(* the host, then OpenAI is asked up to five times, all under one deadline *)
(* of five request timeouts; each answer adds to the result.  RefreshPool  *)
(* has all this as its step Check.                                         *)
(*                                                                         *)
(* A value in the result is represented by the query that supplied it: the *)
(* properties are about where values come from and whether they are shown. *)
(***************************************************************************)
EXTENDS Integers, AccountSelection

CONSTANTS
    Timeout,        \* Config.RequestTimeoutSeconds, in units of time
    Identities,     \* what ResolveOutboundIdentity may yield
    Directories,    \* what accounts/check may list
    Resets,         \* what usage may say of reset credits, optional
    Payloads        \* what the reset credits endpoint may send

ASSUME CheckAssumption == Timeout \in Nat \ {0}

\* What decoding an answer into a Go value makes of it: a field holds a value or
\* none.  A value of the token's goes by the name "claims".
ASSUME AnswersAssumption ==
    /\ \A given \in Identities :
          /\ IsOptional(given.token.claims.id)
          /\ given.token.claims.email \cup given.token.claims.plan \subseteq {"claims"}
    /\ \A listed \in Directories : IsListing(listed)
    /\ \A resets \in Resets :
          IsOptional(resets) /\ resets \subseteq
              [count : Int, applicable : Int, cards : Nat, from : {"usage"}]
    /\ \A payload \in Payloads : \A n \in 1 .. 2 :
          IsOptional(payload.counts[n]) /\ IsOptional(payload.lists[n])

VARIABLES
    cfg,        \* include_usage and mask_account_identity, as read by refresh
    cancelled,  \* the context of the refresh is done
    pc,         \* the call under way
    elapsed,    \* time since requestCtx was made
    lookup,     \* time the host took for the identity (history)
    identity,   \* the identity, while it is of use
    accounts,   \* the accounts listed, optional, while they are of use
    selected,   \* selectedID and the key of the account it came with
    result,     \* the AccountStatus
    answered    \* queries that were answered (history)

vars == <<cfg, cancelled, pc, elapsed, lookup, identity, accounts, selected, result, answered>>

Queries == {"check", "subscription", "usage", "reset", "daily"}

NoIdentity == [preferred |-> {}, email |-> {}, plan |-> {}]

NoClaims == [id |-> {}, email |-> {}, plan |-> {}]

\* Every field of AccountStatus that is not yet known.
NoResult == [error |-> FALSE, id |-> {}, email |-> {}, plan |-> {}, until |-> {}, renew |-> {},
             usage |-> {}, resets |-> {}, official |-> {}]

Init ==
    /\ cfg \in [usage : BOOLEAN, mask : BOOLEAN]
    /\ cancelled \in BOOLEAN
    /\ pc = "resolve"
    /\ elapsed = 0 /\ lookup = 0
    /\ identity = NoIdentity /\ accounts = {} /\ selected = NotSelected
    /\ result = NoResult
    /\ answered = {}

(***************************************************************************)
(* Time.                                                                   *)
(***************************************************************************)
BudgetShort == 4 * Timeout \* mutant: one timeout less

\* requestCtx
Budget == 5 * Timeout

AllowedByClient == Timeout \* mutant: requests are made without requestCtx

\* What a request may take: the client's timeout, or what is left of requestCtx.
Allowed == IF Budget - elapsed < Timeout THEN Budget - elapsed ELSE Timeout

\* The query under way is answered in time, with a body that can be decoded.
Answers(query) ==
    /\ pc = query
    /\ ~cancelled
    /\ Allowed > 0
    /\ \E d \in 0 .. Allowed : elapsed' = elapsed + d
    /\ answered' = answered \cup {query}

\* getJSON returns an error: no connection, no time, no 2xx, no JSON.
Fails(query) ==
    /\ pc = query
    /\ \E d \in 0 .. Allowed : elapsed' = elapsed + d
    /\ UNCHANGED answered

(***************************************************************************)
(* The result.                                                             *)
(***************************************************************************)
DisplayRaw(values) == {[from |-> v, masked |-> FALSE] : v \in values} \* mutant: never masked

\* displayID: a value and whether it has passed maskID.
Display(values) == {[from |-> v, masked |-> cfg.mask] : v \in values}

\* displayEmail: maskEmail makes nothing of what is no address.
DisplayEmail(values, address) == IF cfg.mask /\ ~address THEN {} ELSE Display(values)

\* The source of a value an answer may or may not have.
From(query, present) == IF present THEN {query} ELSE {}

Return(r) ==
    /\ pc' = "done"
    /\ result' = [r EXCEPT !.plan = IF r.error THEN r.plan ELSE FirstNonEmpty(r.plan, {"unknown"})]

\* The next call, or the end.
Continue(r, next) == IF next = "done" THEN Return(r) ELSE pc' = next /\ result' = r
Usage == IF cfg.usage THEN "usage" ELSE "done"

Error == Return([NoResult EXCEPT !.error = TRUE])

(***************************************************************************)
(* parseResetCredits: the count that is given, else the cards that can be  *)
(* used; and of these the ones with an expiry.  mergeResetCredits: details *)
(* over what usage said.  A list of cards is how many there are and the    *)
(* answer it is from.                                                      *)
(***************************************************************************)
\* The first of the counts that is one: a number or a text of one, not below 0.
ParseResetCreditCount(counts) == FirstNonEmpty({n \in counts[1] : n >= 0}, {n \in counts[2] : n >= 0})

\* The first list that is there, even if it is empty.
FirstResetCreditList(lists) == FirstNonEmpty(lists[1], lists[2])

ParseResetCredits(payload) ==
    LET count == ParseResetCreditCount(payload.counts)
        list == FirstResetCreditList(payload.lists)
        usable == UNION {{i \in DOMAIN items : items[i].usable} : items \in list}
        dated == UNION {{i \in usable : items[i].dated} : items \in list}
    IN  IF count = {} /\ list = {} THEN {}
        ELSE {[count |-> n, applicable |-> 0, cards |-> Cardinality(dated),
               from |-> "reset"]
                 : n \in FirstNonEmpty(count, {Cardinality(usable)})}

MergeDetails(current, details) == \* mutant: the list of the details replaces the other, even if empty
    IF details = {} THEN current
    ELSE IF current = {} THEN details
    ELSE {[c EXCEPT !.count = d.count, !.cards = d.cards, !.from = d.from] : c \in current, d \in details}

MergeResetCredits(current, details) ==
    IF details = {} THEN current
    ELSE IF current = {} THEN details
    ELSE {[(IF d.cards > 0 \/ d.count = 0 THEN d ELSE c)
               EXCEPT !.count = d.count, !.applicable = c.applicable]
            : c \in current, d \in details}

(***************************************************************************)
(* The calls.                                                              *)
(***************************************************************************)
\* headerValue: of several spellings of a name the map yields any first.
HeaderValue(values) == IF values = {} THEN {{}} ELSE {{v} : v \in values}

\* parseJWTClaims
ParseJWTClaims(token) == IF token.parts >= 2 /\ token.decodes THEN token.claims ELSE NoClaims

\* ResolveOutboundIdentity, bounded by requestCtx alone.
Resolve ==
    /\ pc = "resolve"
    /\ ~cancelled
    /\ \E d \in 0 .. Budget - 1 : elapsed' = d /\ lookup' = d
    /\ \E given \in Identities : \E header \in HeaderValue(given.header) :
          LET claims == ParseJWTClaims(given.token)
          IN  identity' = [preferred |-> FirstNonEmpty(header, claims.id),
                           email |-> claims.email, plan |-> claims.plan]
    /\ pc' = "check"
    /\ UNCHANGED <<cfg, cancelled, accounts, selected, result, answered>>

\* It fails, finds none, takes too long, or names a proxy that is no URL.
ResolveFails ==
    /\ pc = "resolve"
    /\ Error
    /\ UNCHANGED <<cfg, cancelled, elapsed, lookup, identity, accounts, selected, answered>>

\* What accounts/check says of the account selected.
CheckAnswer(listed, choice, address) ==
    LET entry == IF choice.key = {} THEN NoEntry ELSE listed[CHOOSE k \in choice.key : TRUE]
        email == FirstNonEmpty(From("check", entry.full), identity.email)
    IN  [result EXCEPT !.id = Display(From("check", choice.id # {})),
                       !.email = DisplayEmail(email, address),
                       !.plan = FirstNonEmpty(From("check", entry.plan # {}), identity.plan),
                       !.until = From("check", entry.full)]

\* accounts/check, the one query that has to succeed.
Check ==
    /\ Answers("check")
    /\ \E listed \in Directories, address \in BOOLEAN :
          /\ accounts' = {listed}
          /\ \E order \in SetToSeqs(DOMAIN listed) :
                selected' = SelectAccount(listed, identity.preferred, order)
          /\ Continue(CheckAnswer(listed, selected', address),
                      IF selected'.id # {} THEN "subscription" ELSE Usage)
    /\ UNCHANGED <<cfg, cancelled, lookup, identity>>

\* Mutant of CheckFails: the failure is taken like that of any other query.
CheckFailsGoesOn ==
    /\ Fails("check")
    /\ Continue(result, Usage)
    /\ UNCHANGED <<cfg, cancelled, lookup, identity, accounts, selected>>

CheckFails ==
    /\ Fails("check")
    /\ Error
    /\ UNCHANGED <<cfg, cancelled, lookup, identity, accounts, selected>>

\* What has served its purpose by then.
Forget == identity' = NoIdentity /\ accounts' = {} /\ selected' = NotSelected

\* subscriptions: will_renew is a plain bool, false if the answer has none.
Subscription ==
    /\ pc = "subscription"
    /\ \/ /\ Answers("subscription")
          /\ \E full \in BOOLEAN, renew \in {{}, {TRUE}, {FALSE}} :
                Continue([result EXCEPT
                            !.plan = FirstNonEmpty(From("subscription", full), @),
                            !.until = FirstNonEmpty(From("subscription", full), @),
                            !.renew = {[willRenew |-> TRUE \in renew, given |-> renew # {}]}],
                         Usage)
       \/ Fails("subscription") /\ Continue(result, Usage)
    /\ Forget
    /\ UNCHANGED <<cfg, cancelled, lookup>>

UsageAnswer(full, address, limited, resets) ==
    [result EXCEPT !.plan = FirstNonEmpty(From("usage", full), @),
                   !.email = FirstNonEmpty(@, DisplayEmail(From("usage", full), address)),
                   !.id = FirstNonEmpty(@, Display(From("usage", full))),
                   !.usage = From("usage", limited),
                   !.resets = resets]

\* wham/usage
GetUsage ==
    /\ pc = "usage"
    /\ \/ /\ Answers("usage")
          /\ \E full, address, limited \in BOOLEAN, resets \in Resets :
                result' = UsageAnswer(full, address, limited, resets)
       \/ Fails("usage") /\ UNCHANGED result
    /\ pc' = "reset"
    /\ Forget
    /\ UNCHANGED <<cfg, cancelled, lookup>>

\* rate-limit-reset-credits; a payload that cannot be parsed changes nothing.
GetResetCredits ==
    /\ pc = "reset"
    /\ \/ /\ Answers("reset")
          /\ \E payload \in Payloads :
                result' = IF payload.parses
                          THEN [result EXCEPT !.resets = MergeResetCredits(@, ParseResetCredits(payload))]
                          ELSE result
       \/ Fails("reset") /\ UNCHANGED result
    /\ pc' = "daily"
    /\ UNCHANGED <<cfg, cancelled, lookup, identity, accounts, selected>>

\* daily-workspace-usage-counts; what is made of it is in DailyUsage.
GetDailyUsage ==
    /\ pc = "daily"
    /\ \/ Answers("daily") /\ Return([result EXCEPT !.official = From("daily", TRUE)])
       \/ Fails("daily") /\ Return(result)
    /\ UNCHANGED <<cfg, cancelled, lookup, identity, accounts, selected>>

\* The context of the refresh is done.
Cancel ==
    /\ pc # "done"
    /\ ~cancelled
    /\ cancelled' = TRUE
    /\ UNCHANGED <<cfg, pc, elapsed, lookup, identity, accounts, selected, result, answered>>

Next ==
    \/ Resolve
    \/ ResolveFails
    \/ Check
    \/ CheckFails
    \/ Subscription
    \/ GetUsage
    \/ GetResetCredits
    \/ GetDailyUsage
    \/ Cancel

Spec == Init /\ [][Next]_vars

(***************************************************************************)
(* Properties.                                                             *)
(***************************************************************************)
Known == {"id", "email", "plan", "until", "renew", "usage", "resets", "official"}

\* Every variable has the shape its declaration gives it; the deadline is kept.
TypeOK ==
    /\ cfg \in [usage : BOOLEAN, mask : BOOLEAN]
    /\ cancelled \in BOOLEAN
    /\ pc \in Queries \cup {"resolve", "done"}
    /\ elapsed \in 0 .. Budget
    /\ lookup \in 0 .. Budget
    /\ answered \subseteq Queries
    /\ DOMAIN result = Known \cup {"error"}
    /\ \A field \in Known : IsOptional(result[field])

\* A query is cut short of its own timeout by no more than the time the host
\* took for the identity: five timeouts are just enough for five queries.
BudgetCoversQueries == pc \in Queries => Allowed + lookup >= Timeout

\* With masking on no ID and no e-mail is shown in full, whichever of the
\* answers or the token it comes from.
MaskCoversIdentity ==
    cfg.mask => \A v \in result.id \cup result.email : v.masked

\* README.md:34: a failed query leaves its fields unknown.  Nothing comes from
\* a query that was not answered, and an account is marked as failed exactly
\* if accounts/check was not, and then shows nothing at all.
FailureIsNotData ==
    /\ \A v \in result.id \cup result.email : v.from \in answered \cup {"claims"}
    /\ result.plan \cup result.until \subseteq answered \cup {"claims", "unknown"}
    /\ result.renew # {} => "subscription" \in answered
    /\ result.usage \cup result.official \subseteq answered
    /\ result.resets # {} => answered \cap {"usage", "reset"} # {}
    /\ pc = "done" => (result.error <=> "check" \notin answered)
    /\ result.error => \A field \in Known : result[field] = {}

\* No later query, answered or not, makes unknown what an earlier one supplied,
\* the list of reset cards included, unless it says that there are none; and
\* then the earlier list is not kept beside a count of none.
NothingIsForgotten ==
    [][/\ \A field \in Known : result[field] # {} => result'[field] # {}
       /\ \A r \in result.resets, s \in result'.resets :
             /\ r.cards > 0 /\ s.cards = 0 => s.count = 0
             /\ s # r /\ s.count = 0 => s.from = "reset"]_vars

\* The account selected is the right one in every order of the map.
SelectionRight ==
    \A listed \in accounts : RightChoice(listed, identity.preferred, selected)

(***************************************************************************)
(* A claim the code does not keep.                                         *)
(***************************************************************************)
\* README.md:10: a renewal state the interface does not provide is unknown.
RenewalIsProvided == \A r \in result.renew : r.given
=============================================================================
