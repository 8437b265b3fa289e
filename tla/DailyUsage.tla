----------------------------- MODULE DailyUsage -----------------------------
(***************************************************************************)
(* internal/monitor/daily_usage.go: the days a check asks for, and what it *)
(* makes of those it gets.  A date is the number of a day, as which its    *)
(* text is ordered; credits are whole here.  What a day says of clients    *)
(* and models goes with it and is looked at by nobody.                     *)
(***************************************************************************)
EXTENDS Integers, SequencesExt

Days(dates, amounts) ==
    [date : dates, totals : [credits : amounts, tokens : amounts, turns : amounts]]

\* buildDailyUsageURL: start_date and end_date, by UTC.
Window(today) == [start |-> today - 6, end |-> today]

\* sort.Slice is not stable: of days with one date any may come first.
Sorted(data) ==
    {days \in {[i \in DOMAIN data |-> data[p[i]]] : p \in Permutations(DOMAIN data)} :
        \A i, j \in DOMAIN days : i < j => days[i].date <= days[j].date}

Total(days, count) == FoldLeft(LAMBDA sum, day : sum + day.totals[count], 0, days)

\* Every summary it may give.
SummarizeDailyUsage(data) ==
    {[days |-> days, credits |-> Total(days, "credits"),
      tokens |-> Total(days, "tokens"), turns |-> Total(days, "turns")] : days \in Sorted(data)}
=============================================================================
