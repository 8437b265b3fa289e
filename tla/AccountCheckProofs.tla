------------------------- MODULE AccountCheckProofs -------------------------
(* What holds of AccountCheck for every timeout, identity and answer. *)
EXTENDS AccountCheck, AccountSelectionProofs, TLAPS

\* Queries that may have been made before the call under way.
Before(n) == elapsed <= lookup + n * Timeout

\* After n queries at most n timeouts have gone by, besides the lookup.
Pace ==
    /\ elapsed \in Nat /\ lookup \in Nat
    /\ pc \in Queries \cup {"resolve", "done"}
    /\ pc = "resolve" => elapsed = 0 /\ lookup = 0
    /\ pc = "check" => Before(0)
    /\ pc = "subscription" => Before(1)
    /\ pc = "usage" => Before(2)
    /\ pc = "reset" => Before(3)
    /\ pc = "daily" => Before(4)
    /\ elapsed <= Budget

\* A query, answered or not, takes at most a timeout and never more than is left.
LEMMA QueryPace ==
    ASSUME Pace, NEW query, Answers(query) \/ Fails(query)
    PROVE  /\ elapsed' \in Nat
           /\ elapsed' <= elapsed + Timeout
           /\ elapsed' <= Budget
<1>1. elapsed \in Nat /\ Timeout \in Nat /\ Budget \in Nat /\ elapsed <= Budget
    BY CheckAssumption DEF Pace, Budget
<1>2. PICK d \in 0 .. Allowed : elapsed' = elapsed + d
    BY DEF Answers, Fails
<1>3. Allowed \in Nat /\ Allowed <= Timeout /\ Allowed <= Budget - elapsed
    BY <1>1 DEF Allowed
<1> QED
    BY <1>1, <1>2, <1>3

\* The next call after a query is the one named, or there is none.
LEMMA ContinueGoes ==
    ASSUME NEW r, NEW next, Continue(r, next)
    PROVE  pc' = next
BY DEF Continue, Return

LEMMA UsageIs == Usage \in {"usage", "done"}
BY DEF Usage

LEMMA InitPace == Init => Pace
BY CheckAssumption DEF Init, Pace, Budget, Queries

LEMMA NextPace == Pace /\ [Next]_vars => Pace'
<1> SUFFICES ASSUME Pace, [Next]_vars PROVE Pace'
    OBVIOUS
<1> USE CheckAssumption
<1>0. /\ elapsed \in Nat /\ lookup \in Nat
      /\ Timeout \in Nat /\ Timeout > 0
    BY DEF Pace
<1>1. CASE Resolve
    <2>1. PICK d \in 0 .. Budget - 1 : elapsed' = d /\ lookup' = d
        BY <1>1 DEF Resolve
    <2>2. Budget \in Nat
        BY <1>0 DEF Budget
    <2>3. pc' = "check"
        BY <1>1 DEF Resolve
    <2> QED
        BY <1>0, <2>1, <2>2, <2>3 DEF Pace, Before, Queries, Budget
<1>2. CASE ResolveFails
    <2>1. pc' = "done" /\ elapsed' = elapsed /\ lookup' = lookup
        BY <1>2 DEF ResolveFails, Error, Return
    <2> QED
        BY <1>0, <2>1 DEF Pace, Queries, Budget
<1>3. CASE Check
    <2>1. Answers("check") /\ lookup' = lookup /\ pc = "check"
        BY <1>3 DEF Check, Answers
    <2>2. pc' \in {"subscription", "usage", "done"}
        BY <1>3, ContinueGoes, UsageIs DEF Check
    <2> QED
        BY <1>0, <2>1, <2>2, QueryPace DEF Pace, Before, Queries, Budget
<1>4. CASE CheckFails
    <2>1. Fails("check") /\ lookup' = lookup /\ pc' = "done"
        BY <1>4 DEF CheckFails, Error, Return
    <2> QED
        BY <1>0, <2>1, QueryPace DEF Pace, Queries, Budget
<1>5. CASE Subscription
    <2>1. lookup' = lookup /\ pc = "subscription"
        BY <1>5 DEF Subscription
    <2>2. Answers("subscription") \/ Fails("subscription")
        BY <1>5 DEF Subscription
    <2>3. pc' \in {"usage", "done"}
        BY <1>5, ContinueGoes, UsageIs DEF Subscription
    <2> QED
        BY <1>0, <2>1, <2>2, <2>3, QueryPace DEF Pace, Before, Queries, Budget
<1>6. CASE GetUsage
    <2>1. lookup' = lookup /\ pc = "usage" /\ pc' = "reset"
        BY <1>6 DEF GetUsage
    <2>2. Answers("usage") \/ Fails("usage")
        BY <1>6 DEF GetUsage
    <2> QED
        BY <1>0, <2>1, <2>2, QueryPace DEF Pace, Before, Queries, Budget
<1>7. CASE GetResetCredits
    <2>1. lookup' = lookup /\ pc = "reset" /\ pc' = "daily"
        BY <1>7 DEF GetResetCredits
    <2>2. Answers("reset") \/ Fails("reset")
        BY <1>7 DEF GetResetCredits
    <2> QED
        BY <1>0, <2>1, <2>2, QueryPace DEF Pace, Before, Queries, Budget
<1>8. CASE GetDailyUsage
    <2>1. lookup' = lookup /\ pc' = "done"
        BY <1>8 DEF GetDailyUsage, Return
    <2>2. Answers("daily") \/ Fails("daily")
        BY <1>8 DEF GetDailyUsage
    <2> QED
        BY <1>0, <2>1, <2>2, QueryPace DEF Pace, Queries, Budget
<1>9. CASE Cancel
    BY <1>9 DEF Cancel, Pace, Before, Budget
<1>10. CASE UNCHANGED vars
    BY <1>10 DEF vars, Pace, Before, Budget
<1> QED
    BY <1>1, <1>2, <1>3, <1>4, <1>5, <1>6, <1>7, <1>8, <1>9, <1>10 DEF Next

LEMMA PaceIsEnough == Pace => BudgetCoversQueries
<1> SUFFICES ASSUME Pace, pc \in Queries PROVE Allowed + lookup >= Timeout
    BY DEF BudgetCoversQueries
<1>1. elapsed \in Nat /\ lookup \in Nat /\ Timeout \in Nat
    BY CheckAssumption DEF Pace
<1>2. elapsed <= lookup + 4 * Timeout
    BY <1>1 DEF Pace, Before, Queries
<1> QED
    BY <1>1, <1>2 DEF Allowed, Budget

\* However long the timeout and however slow the host, the shared deadline
\* takes nothing from a query but what the lookup of the identity took
\* (checkAccount, plugin.go:305).
THEOREM DeadlineIsEnough == Spec => []BudgetCoversQueries
<1>1. Spec => []Pace
    BY InitPace, NextPace, PTL DEF Spec
<1> QED
    BY <1>1, PaceIsEnough, PTL

\* A result that has its fields and shows no identity that has not been masked
\* although it should be.
Masked(v) == cfg.mask => v.masked

Discreet(r) ==
    /\ DOMAIN r = DOMAIN NoResult
    /\ \A v \in r.id : Masked(v)
    /\ \A v \in r.email : Masked(v)

LEMMA Fields == {"id", "email"} \subseteq DOMAIN NoResult
BY DEF NoResult

\* Other fields may have any value.
LEMMA OtherField ==
    ASSUME NEW r, Discreet(r), NEW field, field \notin {"id", "email"}, NEW value
    PROVE  Discreet([r EXCEPT ![field] = value])
BY Fields, Zenon DEF Discreet

LEMMA IdField ==
    ASSUME NEW r, Discreet(r), NEW value, \A v \in value : Masked(v)
    PROVE  Discreet([r EXCEPT !.id = value])
BY Fields, Zenon DEF Discreet

LEMMA EmailField ==
    ASSUME NEW r, Discreet(r), NEW value, \A v \in value : Masked(v)
    PROVE  Discreet([r EXCEPT !.email = value])
BY Fields, Zenon DEF Discreet

LEMMA ShownIsMasked ==
    ASSUME NEW values, NEW address
    PROVE  /\ \A v \in Display(values) : Masked(v)
           /\ \A v \in DisplayEmail(values, address) : Masked(v)
BY DEF Display, DisplayEmail, Masked

LEMMA FirstIsMasked ==
    ASSUME NEW a, NEW b, \A v \in a : Masked(v), \A v \in b : Masked(v)
    PROVE  \A v \in FirstNonEmpty(a, b) : Masked(v)
BY DEF FirstNonEmpty

LEMMA ReturnIsDiscreet ==
    ASSUME NEW r, Discreet(r), Return(r)
    PROVE  Discreet(result')
<1>1. "plan" \notin {"id", "email"}
    OBVIOUS
<1> QED
    BY <1>1, OtherField, Zenon DEF Return

LEMMA ContinueIsDiscreet ==
    ASSUME NEW r, Discreet(r), NEW next, Continue(r, next)
    PROVE  Discreet(result')
BY ReturnIsDiscreet DEF Continue

LEMMA NothingIsDiscreet == Discreet(NoResult)
BY DEF Discreet, NoResult

LEMMA ErrorIsDiscreet ==
    ASSUME Error
    PROVE  Discreet(result')
<1>1. Discreet([NoResult EXCEPT !.error = TRUE])
    BY NothingIsDiscreet, OtherField, "error" \notin {"id", "email"}, Zenon
<1> QED
    BY <1>1, ReturnIsDiscreet DEF Error

\* What each answer makes of the result.
LEMMA CheckAnswerIsDiscreet ==
    ASSUME Discreet(result), NEW listed, NEW choice, NEW address
    PROVE  Discreet(CheckAnswer(listed, choice, address))
<1> DEFINE entry == IF choice.key = {} THEN NoEntry ELSE listed[CHOOSE k \in choice.key : TRUE]
           email == FirstNonEmpty(From("check", entry.full), identity.email)
           r1 == [result EXCEPT !.id = Display(From("check", choice.id # {}))]
           r2 == [r1 EXCEPT !.email = DisplayEmail(email, address)]
           r3 == [r2 EXCEPT !.plan = FirstNonEmpty(From("check", entry.plan # {}), identity.plan)]
           r4 == [r3 EXCEPT !.until = From("check", entry.full)]
<1> HIDE DEF entry, email
<1>1. Discreet(r1)
    BY IdField, ShownIsMasked
<1>2. Discreet(r2)
    <2> HIDE DEF r1
    <2> QED
        BY <1>1, EmailField, ShownIsMasked
<1>3. Discreet(r3)
    <2> HIDE DEF r2
    <2> QED
        BY <1>2, OtherField, "plan" \notin {"id", "email"}
<1>4. Discreet(r4)
    <2> HIDE DEF r3
    <2> QED
        BY <1>3, OtherField, "until" \notin {"id", "email"}
<1> QED
    BY <1>4 DEF CheckAnswer, entry, email

LEMMA CheckIsDiscreet ==
    ASSUME Discreet(result), Check
    PROVE  Discreet(result')
<1>1. PICK listed, choice, address, next : Continue(CheckAnswer(listed, choice, address), next)
    BY DEF Check
<1> QED
    BY <1>1, CheckAnswerIsDiscreet, ContinueIsDiscreet

LEMMA SubscriptionIsDiscreet ==
    ASSUME Discreet(result), Subscription
    PROVE  Discreet(result')
<1>1. CASE Continue(result, Usage)
    BY <1>1, ContinueIsDiscreet
<1>2. CASE \E plan, until, renew :
              Continue([result EXCEPT !.plan = plan, !.until = until, !.renew = renew], Usage)
    <2>1. PICK plan, until, renew :
             Continue([result EXCEPT !.plan = plan, !.until = until, !.renew = renew], Usage)
        BY <1>2
    <2> DEFINE r1 == [result EXCEPT !.plan = plan]
               r2 == [r1 EXCEPT !.until = until]
               r3 == [r2 EXCEPT !.renew = renew]
    <2>2. Discreet(r1)
        BY OtherField, "plan" \notin {"id", "email"}
    <2>3. Discreet(r2)
        <3> HIDE DEF r1
        <3> QED
            BY <2>2, OtherField, "until" \notin {"id", "email"}
    <2>4. Discreet(r3)
        <3> HIDE DEF r2
        <3> QED
            BY <2>3, OtherField, "renew" \notin {"id", "email"}
    <2>5. Continue(r3, Usage)
        BY <2>1
    <2> QED
        <3> HIDE DEF r3
        <3> QED
            BY <2>4, <2>5, ContinueIsDiscreet
<1> QED
    BY <1>1, <1>2, Zenon DEF Subscription

LEMMA UsageAnswerIsDiscreet ==
    ASSUME Discreet(result), NEW full, NEW address, NEW limited, NEW resets
    PROVE  Discreet(UsageAnswer(full, address, limited, resets))
<1> DEFINE email == FirstNonEmpty(result.email, DisplayEmail(From("usage", full), address))
           id == FirstNonEmpty(result.id, Display(From("usage", full)))
           r1 == [result EXCEPT !.plan = FirstNonEmpty(From("usage", full), result.plan)]
           r2 == [r1 EXCEPT !.email = email]
           r3 == [r2 EXCEPT !.id = id]
           r4 == [r3 EXCEPT !.usage = From("usage", limited)]
           r5 == [r4 EXCEPT !.resets = resets]
<1>1. /\ \A v \in email : Masked(v)
      /\ \A v \in id : Masked(v)
    <2>1. /\ \A v \in result.email : Masked(v)
          /\ \A v \in result.id : Masked(v)
        BY DEF Discreet
    <2> QED
        BY <2>1, FirstIsMasked, ShownIsMasked
<1> HIDE DEF email, id
<1>2. Discreet(r1)
    BY OtherField, "plan" \notin {"id", "email"}
<1>3. Discreet(r2)
    <2> HIDE DEF r1
    <2> QED
        BY <1>1, <1>2, EmailField
<1>4. Discreet(r3)
    <2> HIDE DEF r2
    <2> QED
        BY <1>1, <1>3, IdField
<1>5. Discreet(r4)
    <2> HIDE DEF r3
    <2> QED
        BY <1>4, OtherField, "usage" \notin {"id", "email"}
<1>6. Discreet(r5)
    <2> HIDE DEF r4
    <2> QED
        BY <1>5, OtherField, "resets" \notin {"id", "email"}
<1> QED
    BY <1>6, Zenon DEF UsageAnswer, email, id

LEMMA UsageIsDiscreet ==
    ASSUME Discreet(result), GetUsage
    PROVE  Discreet(result')
BY UsageAnswerIsDiscreet DEF GetUsage

LEMMA ResetCreditsIsDiscreet ==
    ASSUME Discreet(result), GetResetCredits
    PROVE  Discreet(result')
<1>1. result' = result \/ \E resets : result' = [result EXCEPT !.resets = resets]
    BY Zenon DEF GetResetCredits
<1> QED
    BY <1>1, OtherField, "resets" \notin {"id", "email"}

LEMMA DailyUsageIsDiscreet ==
    ASSUME Discreet(result), GetDailyUsage
    PROVE  Discreet(result')
<1>1. CASE Return(result)
    BY <1>1, ReturnIsDiscreet
<1>2. CASE Return([result EXCEPT !.official = From("daily", TRUE)])
    <2>1. Discreet([result EXCEPT !.official = From("daily", TRUE)])
        BY OtherField, "official" \notin {"id", "email"}
    <2> QED
        BY <1>2, <2>1, ReturnIsDiscreet
<1> QED
    BY <1>1, <1>2 DEF GetDailyUsage

LEMMA NextIsDiscreet == Discreet(result) /\ [Next]_vars => Discreet(result)'
<1> SUFFICES ASSUME Discreet(result), [Next]_vars PROVE Discreet(result)'
    OBVIOUS
<1>1. cfg' = cfg
    BY DEF Next, vars, Resolve, ResolveFails, Check, CheckFails, Subscription, GetUsage,
           GetResetCredits, GetDailyUsage, Cancel
<1>2. Discreet(result')
    <2>1. CASE Resolve \/ Cancel \/ UNCHANGED vars
        BY <2>1 DEF Resolve, Cancel, vars
    <2>2. CASE ResolveFails \/ CheckFails
        BY <2>2, ErrorIsDiscreet DEF ResolveFails, CheckFails
    <2>3. CASE Check
        BY <2>3, CheckIsDiscreet
    <2>4. CASE Subscription
        BY <2>4, SubscriptionIsDiscreet
    <2>5. CASE GetUsage
        BY <2>5, UsageIsDiscreet
    <2>6. CASE GetResetCredits
        BY <2>6, ResetCreditsIsDiscreet
    <2>7. CASE GetDailyUsage
        BY <2>7, DailyUsageIsDiscreet
    <2> QED
        BY <2>1, <2>2, <2>3, <2>4, <2>5, <2>6, <2>7 DEF Next
<1> QED
    BY <1>1, <1>2 DEF Discreet, Masked

\* With masking on no ID and no e-mail reaches the result unmasked, whatever
\* answers, whatever accounts they list, and wherever the value comes from
\* (checkAccount, plugin.go:325-326 and 343-344).
THEOREM MaskingCovers == Spec => []MaskCoversIdentity
<1>1. Init => Discreet(result)
    BY NothingIsDiscreet DEF Init
<1>2. Discreet(result) => MaskCoversIdentity
    BY DEF Discreet, Masked, MaskCoversIdentity
<1> QED
    BY <1>1, <1>2, NextIsDiscreet, PTL DEF Spec

(***************************************************************************)
(* Where the values of the result come from.                               *)
(***************************************************************************)
\* A result with all its fields, each with a value or with none.
Shaped(r) ==
    /\ DOMAIN r = Known \cup {"error"}
    /\ \A field \in Known : IsOptional(r[field])
    /\ \A c \in r.resets : DOMAIN c = {"count", "applicable", "cards", "from"}

\* Nothing in it comes from a query that is not among these.
Sourced(r, known) ==
    /\ \A v \in r.id : v.from \in known \cup {"claims"}
    /\ \A v \in r.email : v.from \in known \cup {"claims"}
    /\ r.plan \subseteq known \cup {"claims", "unknown"}
    /\ r.until \subseteq known \cup {"claims", "unknown"}
    /\ r.renew # {} => "subscription" \in known
    /\ r.usage \subseteq known
    /\ r.official \subseteq known
    /\ r.resets # {} => known \cap {"usage", "reset"} # {}

\* The list c is not lost but to a count of none, and not kept beside it.
Carried(c, d) ==
    /\ c.cards > 0 /\ d.cards = 0 => d.count = 0
    /\ d # c /\ d.count = 0 => d.from = "reset"

\* s has all that r has.
Extended(r, s) ==
    /\ \A field \in Known : r[field] # {} => s[field] # {}
    /\ \A c \in r.resets, d \in s.resets : Carried(c, d)

LEMMA FirstIs ==
    ASSUME NEW a, NEW b
    PROVE  /\ a # {} => FirstNonEmpty(a, b) # {}
           /\ b # {} => FirstNonEmpty(a, b) # {}
           /\ FirstNonEmpty(a, b) \subseteq a \cup b
           /\ IsOptional(a) /\ IsOptional(b) => IsOptional(FirstNonEmpty(a, b))
           /\ a = {} => FirstNonEmpty(a, b) = b
BY DEF FirstNonEmpty, IsOptional

LEMMA FromIs ==
    ASSUME NEW query, NEW present
    PROVE  From(query, present) \subseteq {query} /\ IsOptional(From(query, present))
BY DEF From, IsOptional

LEMMA DisplayIs ==
    ASSUME NEW values, NEW address, IsOptional(values)
    PROVE  /\ IsOptional(Display(values)) /\ IsOptional(DisplayEmail(values, address))
           /\ \A v \in Display(values) : v.from \in values
           /\ \A v \in DisplayEmail(values, address) : v.from \in values
BY DEF Display, DisplayEmail, IsOptional

LEMMA MoreSources ==
    ASSUME NEW r, NEW known, NEW more, Sourced(r, known), known \subseteq more
    PROVE  Sourced(r, more)
BY DEF Sourced

LEMMA SameIsExtended ==
    ASSUME NEW r, Shaped(r)
    PROVE  Extended(r, r)
<1>1. \A c, d \in r.resets : c = d
    BY DEF Shaped, Known, IsOptional
<1>2. \A c \in r.resets : ~(c.cards > 0 /\ c.cards = 0)
    OBVIOUS
<1> QED
    BY <1>1, <1>2 DEF Extended, Carried

\* What a return makes of the result.
LEMMA ReturnIs ==
    ASSUME NEW r, Shaped(r), r.error = TRUE \/ r.error = FALSE, Return(r)
    PROVE  /\ pc' = "done"
           /\ DOMAIN result' = DOMAIN r
           /\ \A field \in (Known \cup {"error"}) \ {"plan"} : result'[field] = r[field]
           /\ r.error = TRUE => result'.plan = r.plan
           /\ r.error = FALSE => result'.plan = FirstNonEmpty(r.plan, {"unknown"})
BY DEF Return, Shaped, Known

LEMMA CheckAnswerIs ==
    ASSUME DOMAIN result = Known \cup {"error"}, NEW listed, NEW choice, NEW address
    PROVE  LET r == CheckAnswer(listed, choice, address)
           IN  /\ DOMAIN r = Known \cup {"error"}
               /\ \E present : r.id = Display(From("check", present))
               /\ \E present : r.email =
                      DisplayEmail(FirstNonEmpty(From("check", present), identity.email), address)
               /\ \E present : r.plan = FirstNonEmpty(From("check", present), identity.plan)
               /\ \E present : r.until = From("check", present)
               /\ \A field \in {"renew", "usage", "resets", "official", "error"} :
                      r[field] = result[field]
BY DEF CheckAnswer, Known

\* What is known of an answer before the call returns.
Sound(r, known) == Shaped(r) /\ Sourced(r, known) /\ r.error = FALSE

LEMMA ReturnIsSound ==
    ASSUME NEW q, NEW r, NEW known, Sound(r, known), Extended(q, r), Return(r)
    PROVE  Sound(result', known) /\ Extended(q, result') /\ pc' = "done"
<1>1. /\ pc' = "done"
      /\ DOMAIN result' = Known \cup {"error"}
      /\ \A field \in (Known \cup {"error"}) \ {"plan"} : result'[field] = r[field]
      /\ result'.plan = FirstNonEmpty(r.plan, {"unknown"})
    BY ReturnIs DEF Sound, Shaped
<1>2. /\ result'.id = r.id /\ result'.email = r.email /\ result'.until = r.until
      /\ result'.renew = r.renew /\ result'.usage = r.usage /\ result'.resets = r.resets
      /\ result'.official = r.official /\ result'.error = FALSE
    BY <1>1 DEF Known, Sound
<1>3. IsOptional({"unknown"})
    BY DEF IsOptional
<1>4. \A field \in Known : IsOptional(result'[field])
    BY <1>1, <1>3, FirstIs DEF Known, Sound, Shaped
<1>5. Shaped(result')
    BY <1>1, <1>2, <1>4 DEF Sound, Shaped
<1>6. result'.plan \subseteq r.plan \cup {"unknown"}
    BY <1>1, FirstIs
<1>7. Sourced(result', known)
    BY <1>2, <1>6 DEF Sound, Sourced
<1>8. r.plan # {} => result'.plan # {}
    BY <1>1, FirstIs
<1>9. Extended(q, result')
    BY <1>1, <1>2, <1>8 DEF Extended, Known
<1> QED
    BY <1>1, <1>2, <1>5, <1>7, <1>9 DEF Sound

LEMMA ContinueIsSound ==
    ASSUME NEW q, NEW r, NEW known, NEW next, Sound(r, known), Extended(q, r), Continue(r, next)
    PROVE  Sound(result', known) /\ Extended(q, result') /\ pc' = next
BY ReturnIsSound DEF Continue

\* The token: a value it has for a field goes by the name "claims".
Identified ==
    /\ IsOptional(identity.preferred)
    /\ identity.email \subseteq {"claims"} /\ identity.plan \subseteq {"claims"}

LEMMA OneSource ==
    ASSUME NEW a, NEW b, a \subseteq {b}
    PROVE  IsOptional(a)
BY DEF IsOptional

LEMMA CheckAnswerIsSound ==
    ASSUME Identified, result = NoResult, NEW listed, NEW choice, NEW address
    PROVE  LET r == CheckAnswer(listed, choice, address)
           IN  Sound(r, {"check"}) /\ r.usage = {} /\ r.resets = {}
<1> DEFINE r == CheckAnswer(listed, choice, address)
<1>1. PICK a, b, c, d :
          /\ DOMAIN r = Known \cup {"error"}
          /\ r.id = Display(From("check", a))
          /\ r.email = DisplayEmail(FirstNonEmpty(From("check", b), identity.email), address)
          /\ r.plan = FirstNonEmpty(From("check", c), identity.plan)
          /\ r.until = From("check", d)
          /\ \A field \in {"renew", "usage", "resets", "official", "error"} :
                 r[field] = result[field]
    <2>1. DOMAIN result = Known \cup {"error"}
        BY DEF NoResult, Known
    <2> HIDE DEF r
    <2> QED
        BY <2>1, CheckAnswerIs DEF r
<1> HIDE DEF r
<1>2. /\ r.renew = {} /\ r.usage = {} /\ r.resets = {} /\ r.official = {} /\ r.error = FALSE
    BY <1>1 DEF NoResult
<1>3. /\ IsOptional(identity.email) /\ IsOptional(identity.plan)
      /\ identity.email \subseteq {"claims"} /\ identity.plan \subseteq {"claims"}
    BY OneSource DEF Identified
<1>4. IsOptional(r.id) /\ \A v \in r.id : v.from \in {"check"}
    <2> DEFINE e == From("check", a)
    <2>1. IsOptional(e) /\ e \subseteq {"check"}
        BY FromIs
    <2> HIDE DEF e
    <2>2. r.id = Display(e)
        BY <1>1 DEF e
    <2>3. IsOptional(r.id) /\ \A v \in r.id : v.from \in e
        BY <2>1, <2>2, DisplayIs
    <2> QED
        BY <2>1, <2>3
<1>5. IsOptional(r.email) /\ \A v \in r.email : v.from \in {"check", "claims"}
    <2> DEFINE e == FirstNonEmpty(From("check", b), identity.email)
    <2>1. IsOptional(e) /\ e \subseteq {"check", "claims"}
        BY <1>3, FromIs, FirstIs
    <2> HIDE DEF e
    <2>2. r.email = DisplayEmail(e, address)
        BY <1>1 DEF e
    <2>3. IsOptional(r.email) /\ \A v \in r.email : v.from \in e
        BY <2>1, <2>2, DisplayIs
    <2> QED
        BY <2>1, <2>3
<1>6. IsOptional(r.plan) /\ r.plan \subseteq {"check", "claims"}
    BY <1>1, <1>3, FromIs, FirstIs
<1>7. IsOptional(r.until) /\ r.until \subseteq {"check"}
    BY <1>1, FromIs
<1>8. \A field \in Known : IsOptional(r[field])
    BY <1>2, <1>4, <1>5, <1>6, <1>7 DEF Known, IsOptional
<1>9. Shaped(r)
    BY <1>1, <1>2, <1>8 DEF Shaped
<1>10. Sourced(r, {"check"})
    BY <1>2, <1>4, <1>5, <1>6, <1>7 DEF Sourced
<1> QED
    BY <1>2, <1>9, <1>10 DEF Sound, r

\* What an answer of subscriptions makes of the result.
SubscriptionAnswer(full, renew) ==
    [result EXCEPT !.plan = FirstNonEmpty(From("subscription", full), @),
                   !.until = FirstNonEmpty(From("subscription", full), @),
                   !.renew = {[willRenew |-> TRUE \in renew, given |-> renew # {}]}]

LEMMA SubscriptionIsSound ==
    ASSUME NEW known, Sound(result, known), NEW full, NEW renew,
           NEW r, r = SubscriptionAnswer(full, renew)
    PROVE  /\ Sound(r, known \cup {"subscription"}) /\ Extended(result, r)
           /\ r.usage = result.usage /\ r.resets = result.resets
<1>1. /\ DOMAIN r = Known \cup {"error"}
      /\ r.plan = FirstNonEmpty(From("subscription", full), result.plan)
      /\ r.until = FirstNonEmpty(From("subscription", full), result.until)
      /\ \E w : r.renew = {w}
      /\ \A field \in {"id", "email", "usage", "resets", "official", "error"} :
             r[field] = result[field]
    BY DEF Sound, Shaped, Known, SubscriptionAnswer
<1>2. /\ r.id = result.id /\ r.email = result.email /\ r.usage = result.usage
      /\ r.resets = result.resets /\ r.official = result.official /\ r.error = FALSE
    BY <1>1 DEF Sound
<1>3. \A field \in Known : IsOptional(result[field])
    BY DEF Sound, Shaped
<1>4. IsOptional(r.plan) /\ r.plan \subseteq {"subscription"} \cup result.plan
    BY <1>1, <1>3, FromIs, FirstIs DEF Known
<1>5. IsOptional(r.until) /\ r.until \subseteq {"subscription"} \cup result.until
    BY <1>1, <1>3, FromIs, FirstIs DEF Known
<1>6. IsOptional(r.renew) /\ r.renew # {}
    BY <1>1 DEF IsOptional
<1>7. \A field \in Known : IsOptional(r[field])
    BY <1>2, <1>3, <1>4, <1>5, <1>6 DEF Known
<1>8. Shaped(r)
    BY <1>1, <1>2, <1>7 DEF Sound, Shaped
<1>9. Sourced(r, known \cup {"subscription"})
    BY <1>2, <1>4, <1>5 DEF Sound, Sourced
<1>10. Extended(result, r)
    <2>1. /\ result.plan # {} => r.plan # {}
          /\ result.until # {} => r.until # {}
        BY <1>1, FirstIs
    <2>2. \A field \in Known : result[field] # {} => r[field] # {}
        BY <1>2, <1>6, <2>1 DEF Known
    <2>3. Extended(result, result)
        BY SameIsExtended DEF Sound
    <2> QED
        BY <1>2, <2>2, <2>3 DEF Extended
<1> QED
    BY <1>2, <1>8, <1>9, <1>10 DEF Sound

LEMMA UsageAnswerIs ==
    ASSUME DOMAIN result = Known \cup {"error"},
           NEW full, NEW address, NEW limited, NEW resets
    PROVE  LET r == UsageAnswer(full, address, limited, resets)
           IN  /\ DOMAIN r = Known \cup {"error"}
               /\ r.id = FirstNonEmpty(result.id, Display(From("usage", full)))
               /\ r.email = FirstNonEmpty(result.email, DisplayEmail(From("usage", full), address))
               /\ r.plan = FirstNonEmpty(From("usage", full), result.plan)
               /\ r.usage = From("usage", limited)
               /\ r.resets = resets
               /\ \A field \in {"until", "renew", "official", "error"} : r[field] = result[field]
BY DEF UsageAnswer, Known

LEMMA UsageAnswerIsSound ==
    ASSUME NEW known, Sound(result, known), result.usage = {}, result.resets = {},
           NEW full, NEW address, NEW limited, NEW resets \in Resets
    PROVE  LET r == UsageAnswer(full, address, limited, resets)
           IN  Sound(r, known \cup {"usage"}) /\ Extended(result, r)
<1> DEFINE r == UsageAnswer(full, address, limited, resets)
           from == From("usage", full)
           id == Display(from)
           email == DisplayEmail(from, address)
<1>1. /\ DOMAIN r = Known \cup {"error"}
      /\ r.id = FirstNonEmpty(result.id, id)
      /\ r.email = FirstNonEmpty(result.email, email)
      /\ r.plan = FirstNonEmpty(from, result.plan)
      /\ r.usage = From("usage", limited)
      /\ r.resets = resets
      /\ \A field \in {"until", "renew", "official", "error"} : r[field] = result[field]
    <2>1. DOMAIN result = Known \cup {"error"}
        BY DEF Sound, Shaped
    <2> QED
        BY <2>1, UsageAnswerIs
<1>2. from \subseteq {"usage"} /\ IsOptional(from)
    BY FromIs
<1> HIDE DEF r, from
<1>3. /\ IsOptional(id) /\ \A v \in id : v.from \in {"usage"}
      /\ IsOptional(email) /\ \A v \in email : v.from \in {"usage"}
    BY <1>2, DisplayIs
<1> HIDE DEF id, email
<1>4. /\ r.until = result.until /\ r.renew = result.renew /\ r.official = result.official
      /\ r.error = FALSE
    BY <1>1 DEF Sound
<1>5. \A field \in Known : IsOptional(result[field])
    BY DEF Sound, Shaped
<1>6. IsOptional(r.id) /\ r.id \subseteq result.id \cup id /\ (result.id # {} => r.id # {})
    BY <1>1, <1>3, <1>5, FirstIs DEF Known
<1>7. /\ IsOptional(r.email) /\ r.email \subseteq result.email \cup email
      /\ result.email # {} => r.email # {}
    BY <1>1, <1>3, <1>5, FirstIs DEF Known
<1>8. /\ IsOptional(r.plan) /\ r.plan \subseteq {"usage"} \cup result.plan
      /\ result.plan # {} => r.plan # {}
    <2>1. IsOptional(result.plan)
        BY <1>5 DEF Known
    <2>2. /\ IsOptional(r.plan) /\ r.plan \subseteq from \cup result.plan
          /\ result.plan # {} => r.plan # {}
        BY <1>1, <1>2, <2>1, FirstIs
    <2> QED
        BY <1>2, <2>2
<1>9. IsOptional(r.usage) /\ r.usage \subseteq {"usage"}
    BY <1>1, FromIs
<1>10. IsOptional(r.resets) /\ \A c \in r.resets : DOMAIN c = {"count", "applicable", "cards", "from"}
    BY <1>1, AnswersAssumption
<1>11. \A field \in Known : IsOptional(r[field])
    BY <1>4, <1>5, <1>6, <1>7, <1>8, <1>9, <1>10 DEF Known
<1>12. Shaped(r)
    BY <1>1, <1>10, <1>11 DEF Shaped
<1>13. Sourced(r, known \cup {"usage"})
    BY <1>3, <1>4, <1>6, <1>7, <1>8, <1>9 DEF Sound, Sourced
<1>14. Extended(result, r)
    BY <1>4, <1>6, <1>7, <1>8 DEF Extended, Known
<1> QED
    BY <1>4, <1>12, <1>13, <1>14 DEF Sound, r

\* Details that can be parsed are one summary, or none.
LEMMA ParsedIs ==
    ASSUME NEW payload \in Payloads, NEW details, details = ParseResetCredits(payload)
    PROVE  /\ IsOptional(details)
           /\ \A c \in details :
                 DOMAIN c = {"count", "applicable", "cards", "from"} /\ c.from = "reset"
<1> DEFINE count == ParseResetCreditCount(payload.counts)
<1>1. IsOptional(payload.counts[1]) /\ IsOptional(payload.counts[2])
    BY AnswersAssumption
<1>2. IsOptional(count)
    BY <1>1 DEF ParseResetCreditCount, FirstNonEmpty, IsOptional
<1> HIDE DEF count
<1>3. \A n : IsOptional(FirstNonEmpty(count, {n}))
    BY <1>2 DEF FirstNonEmpty, IsOptional
<1>4. CASE details = {}
    BY <1>4 DEF IsOptional
<1>5. CASE details # {}
    <2>1. \E cards, usable :
              details = {[count |-> n, applicable |-> 0, cards |-> cards, from |-> "reset"]
                            : n \in FirstNonEmpty(count, {usable})}
        BY <1>5, Zenon DEF ParseResetCredits, count
    <2>2. PICK cards, usable :
              details = {[count |-> n, applicable |-> 0, cards |-> cards, from |-> "reset"]
                            : n \in FirstNonEmpty(count, {usable})}
        BY <2>1
    <2>3. \A n, m \in FirstNonEmpty(count, {usable}) : n = m
        BY <1>3 DEF IsOptional
    <2> QED
        BY <2>2, <2>3 DEF IsOptional
<1> QED
    BY <1>4, <1>5

\* A count is never lost, and a list only to a count of none.
LEMMA MergedIs ==
    ASSUME NEW current, IsOptional(current),
           \A c \in current : DOMAIN c = {"count", "applicable", "cards", "from"},
           NEW details, IsOptional(details),
           \A d \in details :
               DOMAIN d = {"count", "applicable", "cards", "from"} /\ d.from = "reset",
           NEW merged, merged = MergeResetCredits(current, details)
    PROVE  /\ IsOptional(merged)
           /\ \A m \in merged : DOMAIN m = {"count", "applicable", "cards", "from"}
           /\ current # {} => merged # {}
           /\ \A c \in current, m \in merged : Carried(c, m)
<1>1. CASE details = {}
    <2>1. merged = current
        BY <1>1 DEF MergeResetCredits
    <2>2. \A c, m \in current : c = m
        BY DEF IsOptional
    <2>3. \A c \in current : ~(c.cards > 0 /\ c.cards = 0)
        OBVIOUS
    <2> QED
        BY <2>1, <2>2, <2>3 DEF Carried
<1>2. CASE details # {} /\ current = {}
    BY <1>2 DEF MergeResetCredits
<1>3. CASE details # {} /\ current # {}
    <2>1. PICK c \in current, d \in details : TRUE
        BY <1>3
    <2>2. current = {c} /\ details = {d}
        BY <2>1 DEF IsOptional
    <2> DEFINE m == [(IF d.cards > 0 \/ d.count = 0 THEN d ELSE c)
                        EXCEPT !.count = d.count, !.applicable = c.applicable]
    <2>3. merged = {m}
        BY <1>3, <2>2 DEF MergeResetCredits
    <2>4. /\ DOMAIN m = {"count", "applicable", "cards", "from"}
          /\ m.count = d.count
          /\ m.cards = IF d.cards > 0 \/ d.count = 0 THEN d.cards ELSE c.cards
          /\ d.cards > 0 \/ d.count = 0 => m.from = "reset"
        BY <2>1
    <2> HIDE DEF m
    <2>5. Carried(c, m)
        BY <2>4 DEF Carried
    <2> QED
        BY <2>2, <2>3, <2>4, <2>5 DEF IsOptional
<1> QED
    BY <1>1, <1>2, <1>3

LEMMA ResetCreditsAreSound ==
    ASSUME NEW known, Sound(result, known), NEW payload \in Payloads,
           NEW r, r = [result EXCEPT !.resets = MergeResetCredits(@, ParseResetCredits(payload))]
    PROVE  Sound(r, known \cup {"reset"}) /\ Extended(result, r)
<1> DEFINE details == ParseResetCredits(payload)
           merged == MergeResetCredits(result.resets, details)
<1>1. /\ DOMAIN r = Known \cup {"error"}
      /\ r.resets = merged
      /\ \A field \in (Known \cup {"error"}) \ {"resets"} : r[field] = result[field]
    BY DEF Sound, Shaped, Known
<1>2. /\ IsOptional(result.resets)
      /\ \A c \in result.resets : DOMAIN c = {"count", "applicable", "cards", "from"}
    BY DEF Sound, Shaped, Known
<1>3. /\ IsOptional(details)
      /\ \A c \in details : DOMAIN c = {"count", "applicable", "cards", "from"} /\ c.from = "reset"
    BY ParsedIs
<1> HIDE DEF details
<1>4. /\ IsOptional(merged)
      /\ \A m \in merged : DOMAIN m = {"count", "applicable", "cards", "from"}
      /\ result.resets # {} => merged # {}
      /\ \A c \in result.resets, m \in merged : Carried(c, m)
    BY <1>2, <1>3, MergedIs
<1> HIDE DEF merged
<1>5. /\ r.id = result.id /\ r.email = result.email /\ r.plan = result.plan
      /\ r.until = result.until /\ r.renew = result.renew /\ r.usage = result.usage
      /\ r.official = result.official /\ r.error = FALSE
    BY <1>1 DEF Known, Sound
<1>6. \A field \in Known : IsOptional(r[field])
    BY <1>1, <1>4 DEF Sound, Shaped
<1>7. Shaped(r)
    BY <1>1, <1>4, <1>6 DEF Shaped
<1>8. Sourced(r, known \cup {"reset"})
    BY <1>5 DEF Sound, Sourced
<1>9. Extended(result, r)
    BY <1>1, <1>4 DEF Extended
<1> QED
    BY <1>5, <1>7, <1>8, <1>9 DEF Sound

LEMMA DailyUsageIsSound ==
    ASSUME NEW known, Sound(result, known),
           NEW r, r = [result EXCEPT !.official = From("daily", TRUE)]
    PROVE  Sound(r, known \cup {"daily"}) /\ Extended(result, r)
<1>1. /\ DOMAIN r = Known \cup {"error"}
      /\ r.official = {"daily"}
      /\ \A field \in (Known \cup {"error"}) \ {"official"} : r[field] = result[field]
    BY DEF Sound, Shaped, Known, From
<1>2. /\ r.id = result.id /\ r.email = result.email /\ r.plan = result.plan
      /\ r.until = result.until /\ r.renew = result.renew /\ r.usage = result.usage
      /\ r.resets = result.resets /\ r.error = FALSE
    BY <1>1 DEF Known, Sound
<1>3. IsOptional(r.official)
    BY <1>1 DEF IsOptional
<1>4. \A field \in Known : IsOptional(r[field])
    BY <1>1, <1>3 DEF Sound, Shaped
<1>5. Shaped(r)
    BY <1>1, <1>2, <1>4 DEF Sound, Shaped
<1>6. Sourced(r, known \cup {"daily"})
    BY <1>1, <1>2 DEF Sound, Sourced
<1>7. Extended(result, result)
    BY SameIsExtended DEF Sound
<1>8. Extended(result, r)
    BY <1>1, <1>2, <1>7 DEF Extended
<1> QED
    BY <1>2, <1>5, <1>6, <1>8 DEF Sound

(***************************************************************************)
(* The call as a whole.                                                    *)
(***************************************************************************)
Failed == [NoResult EXCEPT !.error = TRUE]

\* Until accounts/check is answered nothing is known; then the call goes on to
\* a sound result, and each query finds unknown what only it supplies.
Supplied ==
    /\ answered \subseteq Queries
    /\ pc \in Queries \cup {"resolve", "done"}
    /\ pc \in {"resolve", "check"} => result = NoResult /\ answered = {}
    /\ pc \in {"subscription", "usage", "reset", "daily"} =>
           "check" \in answered /\ Sound(result, answered)
    /\ pc \in {"subscription", "usage"} => result.usage = {} /\ result.resets = {}
    /\ pc = "done" => \/ "check" \in answered /\ Sound(result, answered)
                      \/ "check" \notin answered /\ result = Failed

LEMMA ErrorIs ==
    ASSUME Error
    PROVE  pc' = "done" /\ result' = Failed
<1>1. Failed.error = TRUE /\ Failed.plan = {} /\ "plan" \in DOMAIN Failed
    BY DEF Failed, NoResult
<1>2. [Failed EXCEPT !.plan = Failed.plan] = Failed
    BY DEF Failed, NoResult
<1> QED
    BY <1>1, <1>2 DEF Error, Return, Failed

LEMMA NothingExtended ==
    ASSUME NEW s
    PROVE  Extended(NoResult, s)
BY DEF Extended, NoResult, Known

LEMMA NothingIsShaped == Shaped(NoResult) /\ Shaped(Failed)
<1>1. \A field \in Known : NoResult[field] = {} /\ Failed[field] = {}
    BY DEF NoResult, Failed, Known
<1>2. DOMAIN NoResult = Known \cup {"error"} /\ DOMAIN Failed = Known \cup {"error"}
    BY DEF NoResult, Failed, Known
<1>3. IsOptional({})
    BY DEF IsOptional
<1>4. NoResult.resets = {} /\ Failed.resets = {}
    BY DEF NoResult, Failed
<1> QED
    BY <1>1, <1>2, <1>3, <1>4 DEF Shaped

LEMMA SuppliedIsShaped == Supplied => Shaped(result)
BY NothingIsShaped DEF Supplied, Sound, Queries

\* The call goes on from here with a sound result, or ends with one.
GoesOn(next) ==
    /\ pc' = next
    /\ answered' \subseteq Queries
    /\ "check" \in answered'
    /\ Sound(result', answered')
    /\ Extended(result, result')

LEMMA CheckSupplies ==
    ASSUME Identified, Supplied, Check
    PROVE  \E next \in {"subscription", "usage", "done"} :
               GoesOn(next) /\ (next # "done" => result'.usage = {} /\ result'.resets = {})
<1>1. pc = "check" /\ answered' = answered \cup {"check"}
    BY DEF Check, Answers
<1>2. result = NoResult /\ answered' = {"check"}
    BY <1>1 DEF Supplied
<1>3. PICK listed, choice, address, next :
          /\ next \in {"subscription", "usage", "done"}
          /\ Continue(CheckAnswer(listed, choice, address), next)
    BY UsageIs DEF Check
<1> DEFINE r == CheckAnswer(listed, choice, address)
<1>4. Sound(r, {"check"}) /\ r.usage = {} /\ r.resets = {} /\ Continue(r, next)
    BY <1>2, <1>3, CheckAnswerIsSound
<1> HIDE DEF r
<1>5. Extended(NoResult, r)
    BY NothingExtended
<1>6. Sound(result', {"check"}) /\ Extended(NoResult, result') /\ pc' = next
    BY <1>4, <1>5, ContinueIsSound
<1>7. next # "done" => result' = r
    BY <1>4 DEF Continue
<1> QED
    BY <1>2, <1>3, <1>4, <1>6, <1>7 DEF GoesOn, Queries

LEMMA SubscriptionSupplies ==
    ASSUME Supplied, Subscription
    PROVE  \E next \in {"usage", "done"} :
               GoesOn(next) /\ (next # "done" => result'.usage = {} /\ result'.resets = {})
<1>1. /\ pc = "subscription" /\ answered \subseteq Queries /\ "check" \in answered
      /\ Sound(result, answered) /\ result.usage = {} /\ result.resets = {}
    BY DEF Subscription, Supplied
<1>2. PICK r, more : /\ more \in {{}, {"subscription"}} /\ answered' = answered \cup more
                     /\ Sound(r, answered \cup more) /\ Extended(result, r)
                     /\ r.usage = {} /\ r.resets = {}
                     /\ Continue(r, Usage)
    <2>1. CASE /\ Answers("subscription")
               /\ \E full \in BOOLEAN, renew \in {{}, {TRUE}, {FALSE}} :
                      Continue(SubscriptionAnswer(full, renew), Usage)
        <3>1. PICK full, renew, r :
                  r = SubscriptionAnswer(full, renew) /\ Continue(r, Usage)
            BY <2>1
        <3>2. answered' = answered \cup {"subscription"}
            BY <2>1 DEF Answers
        <3>3. /\ Sound(r, answered \cup {"subscription"}) /\ Extended(result, r)
              /\ r.usage = {} /\ r.resets = {}
            BY <1>1, <3>1, SubscriptionIsSound
        <3> QED
            BY <3>1, <3>2, <3>3
    <2>2. CASE Fails("subscription") /\ Continue(result, Usage)
        <3>1. answered' = answered \cup {}
            BY <2>2 DEF Fails
        <3>2. Extended(result, result)
            BY <1>1, SameIsExtended DEF Sound
        <3>3. answered \cup {} = answered
            OBVIOUS
        <3> QED
            BY <1>1, <2>2, <3>1, <3>2, <3>3
    <2> QED
        BY <2>1, <2>2, Zenon DEF Subscription, SubscriptionAnswer
<1>3. Sound(result', answered') /\ Extended(result, result') /\ pc' = Usage
    BY <1>2, ContinueIsSound
<1>4. pc' # "done" => result' = r
    BY <1>2, <1>3 DEF Continue
<1>5. answered' \subseteq Queries /\ "check" \in answered'
    BY <1>1, <1>2 DEF Queries
<1> QED
    BY <1>2, <1>3, <1>4, <1>5, UsageIs DEF GoesOn

LEMMA UsageSupplies ==
    ASSUME Supplied, GetUsage
    PROVE  GoesOn("reset")
<1>1. /\ pc = "usage" /\ answered \subseteq Queries /\ "check" \in answered
      /\ Sound(result, answered) /\ result.usage = {} /\ result.resets = {}
    BY DEF GetUsage, Supplied
<1>2. CASE Answers("usage") /\ \E full, address, limited \in BOOLEAN, resets \in Resets :
               result' = UsageAnswer(full, address, limited, resets)
    <2>1. PICK full, address, limited \in BOOLEAN, resets \in Resets :
              result' = UsageAnswer(full, address, limited, resets)
        BY <1>2
    <2>2. answered' = answered \cup {"usage"}
        BY <1>2 DEF Answers
    <2>3. Sound(result', answered') /\ Extended(result, result')
        BY <1>1, <2>1, <2>2, UsageAnswerIsSound
    <2> QED
        BY <1>1, <2>2, <2>3 DEF GetUsage, GoesOn, Queries
<1>3. CASE Fails("usage") /\ UNCHANGED result
    <2>1. Extended(result, result)
        BY <1>1, SameIsExtended DEF Sound
    <2> QED
        BY <1>1, <1>3, <2>1 DEF GetUsage, GoesOn, Fails
<1> QED
    BY <1>2, <1>3 DEF GetUsage

LEMMA ResetCreditsSupply ==
    ASSUME Supplied, GetResetCredits
    PROVE  GoesOn("daily")
<1>1. /\ pc = "reset" /\ answered \subseteq Queries /\ "check" \in answered
      /\ Sound(result, answered)
    BY DEF GetResetCredits, Supplied
<1>2. Extended(result, result)
    BY <1>1, SameIsExtended DEF Sound
<1>3. CASE Answers("reset")
    <2>1. answered' = answered \cup {"reset"}
        BY <1>3 DEF Answers
    <2>2. ASSUME NEW payload \in Payloads,
                 result' = [result EXCEPT
                               !.resets = MergeResetCredits(@, ParseResetCredits(payload))]
          PROVE  Sound(result', answered') /\ Extended(result, result')
        BY <1>1, <2>1, <2>2, ResetCreditsAreSound
    <2>3. ASSUME result' = result
          PROVE  Sound(result', answered') /\ Extended(result, result')
        BY <1>1, <1>2, <2>1, <2>3, MoreSources DEF Sound
    <2>4. \/ result' = result
          \/ \E payload \in Payloads :
                 result' = [result EXCEPT
                               !.resets = MergeResetCredits(@, ParseResetCredits(payload))]
        BY <1>3 DEF GetResetCredits, Fails
    <2> QED
        BY <1>1, <2>1, <2>2, <2>3, <2>4 DEF GetResetCredits, GoesOn, Queries
<1>4. CASE Fails("reset") /\ UNCHANGED result
    BY <1>1, <1>2, <1>4 DEF GetResetCredits, GoesOn, Fails
<1> QED
    BY <1>3, <1>4 DEF GetResetCredits

LEMMA DailyUsageSupplies ==
    ASSUME Supplied, GetDailyUsage
    PROVE  GoesOn("done")
<1>1. /\ pc = "daily" /\ answered \subseteq Queries /\ "check" \in answered
      /\ Sound(result, answered)
    BY DEF GetDailyUsage, Answers, Fails, Supplied
<1>2. CASE Answers("daily") /\ Return([result EXCEPT !.official = From("daily", TRUE)])
    <2> DEFINE r == [result EXCEPT !.official = From("daily", TRUE)]
    <2>1. answered' = answered \cup {"daily"}
        BY <1>2 DEF Answers
    <2>2. Sound(r, answered') /\ Extended(result, r)
        BY <1>1, <2>1, DailyUsageIsSound
    <2>3. Sound(result', answered') /\ Extended(result, result') /\ pc' = "done"
        <3> HIDE DEF r
        <3> QED
            BY <1>2, <2>2, ReturnIsSound DEF r
    <2> QED
        BY <1>1, <2>1, <2>3 DEF GoesOn, Queries
<1>3. CASE Fails("daily") /\ Return(result)
    <2>1. Extended(result, result)
        BY <1>1, SameIsExtended DEF Sound
    <2>2. answered' = answered
        BY <1>3 DEF Fails
    <2> QED
        BY <1>1, <1>3, <2>1, <2>2, ReturnIsSound DEF GoesOn
<1> QED
    BY <1>2, <1>3 DEF GetDailyUsage

LEMMA InitSupplied == Init => Supplied
BY DEF Init, Supplied, Queries

\* Every step keeps what the result is known to be, and what it has.
LEMMA NextSupplies ==
    ASSUME Identified, Supplied, [Next]_vars
    PROVE  Supplied' /\ Extended(result, result')
<1>1. CASE Resolve
    <2>1. pc = "resolve" /\ pc' = "check" /\ result' = result /\ answered' = answered
        BY <1>1 DEF Resolve
    <2> QED
        BY <2>1, NothingExtended DEF Supplied, Queries
<1>2. CASE ResolveFails \/ CheckFails
    <2>1. pc \in {"resolve", "check"} /\ answered' = answered /\ pc' = "done" /\ result' = Failed
        BY <1>2, ErrorIs DEF ResolveFails, CheckFails, Fails
    <2> QED
        BY <2>1, NothingExtended DEF Supplied, Queries
<1>3. CASE Check
    BY <1>3, CheckSupplies DEF GoesOn, Supplied, Queries
<1>4. CASE Subscription
    BY <1>4, SubscriptionSupplies DEF GoesOn, Supplied, Queries
<1>5. CASE GetUsage
    BY <1>5, UsageSupplies DEF GoesOn, Supplied, Queries
<1>6. CASE GetResetCredits
    BY <1>6, ResetCreditsSupply DEF GoesOn, Supplied, Queries
<1>7. CASE GetDailyUsage
    BY <1>7, DailyUsageSupplies DEF GoesOn, Supplied, Queries
<1>8. CASE Cancel \/ UNCHANGED vars
    <2>1. pc' = pc /\ result' = result /\ answered' = answered
        BY <1>8 DEF Cancel, vars
    <2>2. Extended(result, result')
        BY <2>1, SuppliedIsShaped, SameIsExtended
    <2> QED
        BY <2>1, <2>2 DEF Supplied, Sound, Shaped, Sourced
<1> QED
    BY <1>1, <1>2, <1>3, <1>4, <1>5, <1>6, <1>7, <1>8 DEF Next

\* The identity is what the host and the token made of it, until it is forgotten.
LEMMA ForgottenIsIdentified ==
    ASSUME Forget
    PROVE  Identified'
BY DEF Forget, NoIdentity, Identified, IsOptional

LEMMA ClaimsAre ==
    ASSUME NEW given \in Identities, NEW claims, claims = ParseJWTClaims(given.token)
    PROVE  /\ IsOptional(claims.id)
           /\ claims.email \subseteq {"claims"} /\ claims.plan \subseteq {"claims"}
<1>1. IsOptional({})
    BY DEF IsOptional
<1> QED
    BY <1>1, AnswersAssumption DEF ParseJWTClaims, NoClaims

LEMMA ResolvedIsIdentified ==
    ASSUME Resolve
    PROVE  Identified'
<1>1. PICK given \in Identities : \E header \in HeaderValue(given.header) :
          LET claims == ParseJWTClaims(given.token)
          IN  identity' = [preferred |-> FirstNonEmpty(header, claims.id),
                           email |-> claims.email, plan |-> claims.plan]
    BY DEF Resolve
<1>2. PICK header \in HeaderValue(given.header) :
          LET claims == ParseJWTClaims(given.token)
          IN  identity' = [preferred |-> FirstNonEmpty(header, claims.id),
                           email |-> claims.email, plan |-> claims.plan]
    BY <1>1
<1>3. PICK claims : claims = ParseJWTClaims(given.token)
    OBVIOUS
<1>4. /\ identity'.preferred = FirstNonEmpty(header, claims.id)
      /\ identity'.email = claims.email /\ identity'.plan = claims.plan
    BY <1>2, <1>3
<1>5. IsOptional(header)
    BY DEF HeaderValue, IsOptional
<1>6. /\ IsOptional(claims.id) /\ claims.email \subseteq {"claims"}
      /\ claims.plan \subseteq {"claims"}
    BY <1>3, ClaimsAre
<1> QED
    BY <1>4, <1>5, <1>6, FirstIs DEF Identified

LEMMA InitIdentified == Init => Identified
BY DEF Init, NoIdentity, Identified, IsOptional

LEMMA NextIdentified == Identified /\ [Next]_vars => Identified'
<1> SUFFICES ASSUME Identified, [Next]_vars PROVE Identified'
    OBVIOUS
<1>1. CASE Resolve
    BY <1>1, ResolvedIsIdentified
<1>2. CASE Subscription \/ GetUsage
    BY <1>2, ForgottenIsIdentified DEF Subscription, GetUsage
<1>3. CASE UNCHANGED identity
    BY <1>3 DEF Identified
<1>4. Next => Resolve \/ Subscription \/ GetUsage \/ UNCHANGED identity
    BY DEF Next, ResolveFails, Check, CheckFails, GetResetCredits, GetDailyUsage, Cancel
<1> QED
    BY <1>1, <1>2, <1>3, <1>4 DEF vars

(***************************************************************************)
(* The account.                                                            *)
(***************************************************************************)
\* The accounts listed are those of accounts/check.
Chosen == (pc \in {"resolve", "check"} => accounts = {}) /\ SelectionRight

LEMMA InitChosen == Init => Chosen
BY DEF Init, Chosen, SelectionRight

LEMMA NextChosen ==
    ASSUME Identified, Chosen, [Next]_vars
    PROVE  Chosen'
<1>1. CASE Check
    <2>1. PICK listed \in Directories : \E address \in BOOLEAN :
              /\ accounts' = {listed}
              /\ \E order \in SetToSeqs(DOMAIN listed) :
                    selected' = SelectAccount(listed, identity.preferred, order)
              /\ Continue(CheckAnswer(listed, selected', address),
                          IF selected'.id # {} THEN "subscription" ELSE Usage)
        BY <1>1 DEF Check
    <2>2. PICK order \in SetToSeqs(DOMAIN listed) :
              selected' = SelectAccount(listed, identity.preferred, order)
        BY <2>1
    <2>3. RightChoice(listed, identity.preferred, selected')
        BY <2>2, AnyOrderIsRight, AnswersAssumption DEF Identified
    <2>4. pc' \in {"subscription", "usage", "done"}
        BY <2>1, ContinueGoes, UsageIs
    <2>5. identity' = identity
        BY <1>1 DEF Check
    <2> QED
        BY <2>1, <2>3, <2>4, <2>5 DEF Chosen, SelectionRight
<1>2. CASE Subscription \/ GetUsage
    BY <1>2 DEF Subscription, GetUsage, Forget, Chosen, SelectionRight
<1>3. CASE Resolve \/ ResolveFails \/ CheckFails
    <2>1. accounts = {} /\ accounts' = {}
        BY <1>3 DEF Resolve, ResolveFails, CheckFails, Fails, Chosen
    <2> QED
        BY <2>1 DEF Chosen, SelectionRight
<1>4. CASE GetResetCredits \/ GetDailyUsage
    <2>1. pc' \in {"daily", "done"}
        BY <1>4 DEF GetResetCredits, GetDailyUsage, Return
    <2>2. accounts' = accounts /\ identity' = identity /\ selected' = selected
        BY <1>4 DEF GetResetCredits, GetDailyUsage
    <2> QED
        BY <2>1, <2>2 DEF Chosen, SelectionRight
<1>5. CASE Cancel \/ UNCHANGED vars
    BY <1>5 DEF Cancel, vars, Chosen, SelectionRight
<1> QED
    BY <1>1, <1>2, <1>3, <1>4, <1>5 DEF Next

(***************************************************************************)
(* All of it.                                                              *)
(***************************************************************************)
Settled ==
    /\ cfg \in [usage : BOOLEAN, mask : BOOLEAN]
    /\ cancelled \in BOOLEAN
    /\ lookup \in 0 .. Budget

IInv == Pace /\ Settled /\ Identified /\ Supplied /\ Chosen

LEMMA InitSettled == Init => Settled
BY CheckAssumption DEF Init, Settled, Budget

LEMMA NextSettled == Settled /\ [Next]_vars => Settled'
<1> SUFFICES ASSUME Settled, [Next]_vars PROVE Settled'
    OBVIOUS
<1>1. cfg' = cfg /\ (cancelled' = cancelled \/ cancelled' = TRUE)
    BY DEF Next, vars, Resolve, ResolveFails, Check, CheckFails, Subscription, GetUsage,
           GetResetCredits, GetDailyUsage, Cancel
<1>2. lookup' \in 0 .. Budget
    <2>1. CASE Resolve
        <3>1. PICK d \in 0 .. Budget - 1 : lookup' = d
            BY <2>1 DEF Resolve
        <3>2. Budget \in Nat
            BY CheckAssumption DEF Budget
        <3> QED
            BY <3>1, <3>2
    <2>2. CASE lookup' = lookup
        BY <2>2 DEF Settled, Budget
    <2>3. Next => Resolve \/ lookup' = lookup
        BY DEF Next, ResolveFails, Check, CheckFails, Subscription, GetUsage,
               GetResetCredits, GetDailyUsage, Cancel
    <2> QED
        BY <2>1, <2>2, <2>3 DEF vars
<1> QED
    BY <1>1, <1>2 DEF Settled

\* The whole invariant of a check: its pace, its settings, the identity, what has
\* been supplied, and the account chosen (checkAccount, plugin.go:302-364).
THEOREM Inductive == Spec => []IInv
<1>1. Init => IInv
    BY InitPace, InitSettled, InitIdentified, InitSupplied, InitChosen DEF IInv
<1>2. IInv /\ [Next]_vars => IInv'
    BY NextPace, NextSettled, NextIdentified, NextSupplies, NextChosen DEF IInv
<1> QED
    BY <1>1, <1>2, PTL DEF Spec

\* Whatever the host and OpenAI answer, every variable of a check has its shape,
\* and the deadline of checkAccount (plugin.go:305) is kept.
THEOREM TypeCorrect == Spec => []TypeOK
<1>1. IInv => TypeOK
    <2> SUFFICES ASSUME IInv PROVE TypeOK
        OBVIOUS
    <2>1. Shaped(result)
        BY SuppliedIsShaped DEF IInv
    <2>2. elapsed \in 0 .. Budget
        <3>1. Budget \in Nat
            BY CheckAssumption DEF Budget
        <3> QED
            BY <3>1 DEF IInv, Pace
    <2> QED
        BY <2>1, <2>2 DEF IInv, Settled, Supplied, Shaped, TypeOK
<1> QED
    BY <1>1, Inductive, PTL

\* A value in the result comes from the token or from a query that was answered,
\* and an account counts as failed exactly if accounts/check was not answered,
\* whichever of the queries fail (checkAccount, plugin.go:302-364).
THEOREM FailuresAreNoData == Spec => []FailureIsNotData
<1>1. Supplied => FailureIsNotData
    <2> SUFFICES ASSUME Supplied PROVE FailureIsNotData
        OBVIOUS
    <2>1. CASE result = NoResult \/ result = Failed
        <3>1. \A field \in Known : result[field] = {}
            BY <2>1 DEF NoResult, Failed, Known
        <3>2. /\ result.id = {} /\ result.email = {} /\ result.plan = {} /\ result.until = {}
              /\ result.renew = {} /\ result.usage = {} /\ result.resets = {}
              /\ result.official = {}
            BY <3>1 DEF Known
        <3>3. pc = "done" => (result.error <=> "check" \notin answered)
            <4>1. pc = "done" => \/ result = Failed /\ "check" \notin answered
                                 \/ result.error = FALSE /\ "check" \in answered
                BY DEF Supplied, Sound
            <4>2. Failed.error = TRUE
                BY DEF Failed, NoResult
            <4> QED
                BY <4>1, <4>2
        <3> QED
            BY <3>1, <3>2, <3>3 DEF FailureIsNotData
    <2>2. CASE "check" \in answered /\ Sound(result, answered)
        BY <2>2 DEF FailureIsNotData, Sound, Sourced
    <2> QED
        BY <2>1, <2>2 DEF Supplied, Queries
<1> QED
    BY <1>1, Inductive, PTL DEF IInv

\* No query, answered or not, makes unknown what an earlier one supplied, nor
\* keeps an earlier list of reset cards beside a count of none (mergeResetCredits, reset_credits.go:122-134).
THEOREM NothingForgotten == Spec => NothingIsForgotten
<1>1. IInv /\ [Next]_vars => Extended(result, result')
    BY NextSupplies DEF IInv
<1>2. IInv /\ [Next]_vars =>
          [/\ \A field \in Known : result[field] # {} => result'[field] # {}
           /\ \A r \in result.resets, s \in result'.resets :
                 /\ r.cards > 0 /\ s.cards = 0 => s.count = 0
                 /\ s # r /\ s.count = 0 => s.from = "reset"]_vars
    BY <1>1 DEF Extended, Carried
<1> QED
    BY <1>2, Inductive, PTL DEF Spec, NothingIsForgotten

\* In every order in which Go may iterate the map the account a check goes on
\* with is the right one (selectAccount, http.go:99-132).
THEOREM SelectionIsRight == Spec => []SelectionRight
<1>1. IInv => SelectionRight
    BY DEF IInv, Chosen
<1> QED
    BY <1>1, Inductive, PTL
=============================================================================
