--------------------------- MODULE MCAccountCheck ---------------------------
(* AccountCheck with up to three accounts and small answers, and DailyUsage    *)
(* against what it should be.                                                  *)
EXTENDS AccountCheck, DailyUsage

\* "c" is nobody's key; "b" may be the account_id of another key.  The header
\* may come in two spellings, the token may be none that can be read.
Claims == [id |-> {"b"}, email |-> {"claims"}, plan |-> {"claims"}]

MCIdentities ==
    {[header |-> h, token |-> t] :
        h \in {{}, {"b", "c"}},
        t \in [parts : {2}, decodes : BOOLEAN, claims : {Claims, [Claims EXCEPT !.id = {}]}]
                 \cup {[parts |-> 1, decodes |-> TRUE, claims |-> Claims]}}

Free == [object |-> TRUE, id |-> {}, plan |-> {"free"}, default |-> FALSE, full |-> FALSE]

Kinds == {NoEntry, Free, [Free EXCEPT !.default = TRUE],
          [Free EXCEPT !.plan = {"plus"}, !.full = TRUE],
          [Free EXCEPT !.plan = {}, !.id = {"b"}]}

MCDirectories == UNION {[keys -> Kinds] : keys \in {{}, {"a"}, {"a", "b"}, {"a", "b", "d"}}}

\* usage says nothing of reset credits, or has two, with a list or without.
MCResets == {{}} \cup {{[count |-> 2, applicable |-> 1, cards |-> n, from |-> "usage"]} : n \in {0, 2}}

Card == [usable |-> TRUE, dated |-> TRUE]

\* Two names of the count, of which the first may hold a number below 0; two
\* names of the list.
MCPayloads ==
    {[parses |-> TRUE, counts |-> c, lists |-> l] :
        c \in {<<{}, {}>>, <<{-1}, {0}>>, <<{1}, {0}>>},
        l \in {<<{}, {}>>, <<{}, {<<>>}>>,
               <<{<<Card, [Card EXCEPT !.usable = FALSE], [Card EXCEPT !.dated = FALSE]>>}, {<<>>}>>}}
        \cup {[parses |-> FALSE, counts |-> <<{}, {}>>, lists |-> <<{}, {}>>]}

\* Up to three days, of one date too, in any order.
MCData == SeqOf(Days({1, 2}, {0, 1}), 3)

\* Every summary has the days that were sent, by date, and the sums of all of
\* them, and so the same sums in whatever order they came.
ASSUME SummaryRight ==
    \A data \in MCData :
        LET summaries == SummarizeDailyUsage(data)
            Sum(count) == MapThenSumSet(LAMBDA i : data[i].totals[count], DOMAIN data)
        IN  /\ summaries # {}
            /\ \A s \in summaries :
                  /\ \E p \in Permutations(DOMAIN data) : \A i \in DOMAIN data : s.days[i] = data[p[i]]
                  /\ Len(s.days) = Len(data)
                  /\ \A i \in 2 .. Len(s.days) : s.days[i - 1].date <= s.days[i].date
                  /\ s.credits = Sum("credits") /\ s.tokens = Sum("tokens") /\ s.turns = Sum("turns")
=============================================================================
