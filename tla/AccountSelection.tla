-------------------------- MODULE AccountSelection --------------------------
(***************************************************************************)
(* selectAccount of internal/monitor/http.go: which of the accounts in an  *)
(* answer of accounts/check is the one a token belongs to.  The answer is  *)
(* a Go map, whose iteration order is any; here the order is a parameter.  *)
(*                                                                         *)
(* An optional value, "" or nil in the code when missing, is a set of at   *)
(* most one element throughout.                                            *)
(***************************************************************************)
EXTENDS SequencesExt

\* firstNonEmpty
FirstNonEmpty(a, b) == IF a # {} THEN a ELSE b

\* An entry of the map: `object' says whether it is one, `id' is its nested
\* account_id, `plan' its plan, `default' its is_default, `full' whether it
\* has an e-mail and an expiry.
NoEntry == [object |-> FALSE, id |-> {}, plan |-> {}, default |-> FALSE, full |-> FALSE]

\* nestedString: a field of what is no object is empty.
Nested(entry, field) == IF entry.object THEN entry[field] ELSE {}

NotSelected == [id |-> {}, key |-> {}]

\* The account under this key, with the ID it goes by.
Selection(accounts, key) ==
    [id |-> FirstNonEmpty(Nested(accounts[key], "id"), {key}), key |-> {key}]

\* Mutant of Candidate: a free account is not even the first candidate.
CandidatePaid(entry, best) == entry.plan # {"free"}

\* An entry replaces the candidate there is if there is none, or if it is not
\* known to be free.
Candidate(entry, best) == best.key = {} \/ entry.plan # {"free"}

\* One turn of the last loop.  A default account ends it.
Visit(accounts, best, key) ==
    LET entry == accounts[key]
    IN  IF ~best.ended /\ entry.object /\ (entry.default \/ Candidate(entry, best))
        THEN [ended |-> entry.default, key |-> {key}]
        ELSE best

\* What each turn of it leaves.
Turns(accounts, order) ==
    LET after[n \in 0 .. Len(order)] ==
            IF n = 0 THEN [ended |-> FALSE, key |-> {}]
                     ELSE Visit(accounts, after[n - 1], order[n])
    IN  after

Fallback(accounts, order) ==
    LET last == Turns(accounts, order)[Len(order)].key
    IN  IF last = {} THEN NotSelected ELSE Selection(accounts, CHOOSE k \in last : TRUE)

\* The preferred ID as a key, then as an account_id, then the last loop.
SelectAccount(accounts, preferred, order) ==
    LET keyed == {k \in preferred : k \in DOMAIN accounts /\ accounts[k].object}
        named == {n \in DOMAIN order : Nested(accounts[order[n]], "id") = preferred}
    IN  IF keyed # {} THEN [id |-> preferred, key |-> keyed]
        ELSE IF preferred # {} /\ named # {} THEN [id |-> preferred, key |-> {order[Min(named)]}]
        ELSE Fallback(accounts, order)

\* An optional value, and what json.Unmarshal makes of a map of accounts.
IsOptional(value) == \A v, w \in value : v = w

IsListing(accounts) ==
    /\ IsFiniteSet(DOMAIN accounts)
    /\ \A k \in DOMAIN accounts : accounts[k].object \in BOOLEAN /\ accounts[k].default \in BOOLEAN

\* What the caller counts on, whatever the order: the preferred account if it
\* is there; else a default one if there is one; else one not known to be free
\* if there is one; else any.
RightChoice(accounts, preferred, selected) ==
    LET objects == {k \in DOMAIN accounts : accounts[k].object}
        mine == {k \in objects : {k} = preferred \/ accounts[k].id = preferred}
        defaults == {k \in objects : accounts[k].default}
        notFree == {k \in objects : accounts[k].plan # {"free"}}
        eligible == IF preferred # {} /\ mine # {} THEN mine
                    ELSE IF defaults # {} THEN defaults
                    ELSE IF notFree # {} THEN notFree
                    ELSE objects
    IN  /\ selected.key \subseteq eligible
        /\ selected.key = {} <=> eligible = {}
        /\ preferred # {} /\ mine # {} => selected.id = preferred
=============================================================================
