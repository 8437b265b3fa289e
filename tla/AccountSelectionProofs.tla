----------------------- MODULE AccountSelectionProofs -----------------------
(***************************************************************************)
(* selectAccount chooses the right account of any finite number of them,   *)
(* in whatever order the map is iterated.                                  *)
(***************************************************************************)
EXTENDS AccountSelection, FunctionTheorems, FiniteSetTheorems, WellFoundedInduction, TLAPS

(***************************************************************************)
(* Induction, without an operator as a parameter: a set of numbers that is *)
(* not empty has a least one.                                              *)
(***************************************************************************)
LEMMA LeastNumber ==
    ASSUME NEW T \in SUBSET Nat, T # {}
    PROVE  \E x \in T : \A y \in T : x <= y
<1> DEFINE R == {ss \in Nat \X Nat : ss[1] < ss[2]}
<1>1. IsWellFoundedOn(R, Nat)
    BY NatLessThanWellFounded DEF OpToRel
<1>2. PICK x \in T : \A y \in T : <<y, x>> \notin R
    <2> HIDE DEF R
    <2> QED
        BY <1>1, WFMin
<1>3. \A y \in T : ~(y < x)
    BY <1>2
<1> QED
    BY <1>3

\* The numbers up to n: a set with 0 and the successor of each but n is all.
LEMMA UpTo ==
    ASSUME NEW n \in Nat, NEW T, 0 \in T, \A m \in 0 .. n : m \in T /\ m < n => m + 1 \in T
    PROVE  0 .. n \subseteq T
<1> SUFFICES ASSUME (0 .. n) \ T # {} PROVE FALSE
    OBVIOUS
<1> DEFINE U == (0 .. n) \ T
<1>1. PICK m \in U : \A k \in U : m <= k
    <2>1. U \in SUBSET Nat /\ U # {}
        OBVIOUS
    <2> HIDE DEF U
    <2> QED
        BY <2>1, LeastNumber
<1>2. m # 0 /\ m - 1 \in 0 .. n
    BY <1>1
<1>3. m - 1 \in T
    BY <1>1, <1>2
<1> QED
    BY <1>1, <1>2, <1>3

(***************************************************************************)
(* Turns is what its definition says: a function of that kind exists.      *)
(***************************************************************************)
Turn(accounts, order, f, m) ==
    IF m = 0 THEN [ended |-> FALSE, key |-> {}] ELSE Visit(accounts, f[m - 1], order[m])

IsTurns(f, accounts, order, n) == f = [m \in 0 .. n |-> Turn(accounts, order, f, m)]

LEMMA TurnIs ==
    ASSUME NEW accounts, NEW order, NEW n \in Nat, NEW f, IsTurns(f, accounts, order, n),
           NEW m \in 0 .. n
    PROVE  f[m] = Turn(accounts, order, f, m)
<1>1. f[m] = [k \in 0 .. n |-> Turn(accounts, order, f, k)][m]
    BY DEF IsTurns
<1> QED
    BY <1>1

LEMMA OneTurnMore ==
    ASSUME NEW accounts, NEW order, NEW n \in Nat, NEW f, IsTurns(f, accounts, order, n)
    PROVE  \E g : IsTurns(g, accounts, order, n + 1)
<1> DEFINE g == [m \in 0 .. n + 1 |-> IF m <= n THEN f[m] ELSE Turn(accounts, order, f, n + 1)]
<1>1. ASSUME NEW m \in 0 .. n + 1 PROVE g[m] = Turn(accounts, order, g, m)
    <2>1. m > 0 => g[m - 1] = f[m - 1]
        OBVIOUS
    <2>2. Turn(accounts, order, g, m) = Turn(accounts, order, f, m)
        BY <2>1 DEF Turn
    <2>3. g[m] = Turn(accounts, order, f, m)
        <3>1. CASE m \in 0 .. n
            BY <3>1, TurnIs
        <3>2. CASE m = n + 1
            BY <3>2
        <3> QED
            BY <3>1, <3>2
    <2> QED
        BY <2>2, <2>3
<1>2. g = [m \in 0 .. n + 1 |-> Turn(accounts, order, g, m)]
    BY <1>1
<1> QED
    BY <1>2 DEF IsTurns

LEMMA TurnsIs ==
    ASSUME NEW accounts, NEW order, NEW n \in Nat, n = Len(order)
    PROVE  IsTurns(Turns(accounts, order), accounts, order, n)
<1> DEFINE T == {m \in 0 .. n : \E f : IsTurns(f, accounts, order, m)}
<1>1. 0 \in T
    <2> DEFINE f == [m \in 0 .. 0 |-> [ended |-> FALSE, key |-> {}]]
    <2>1. IsTurns(f, accounts, order, 0)
        BY DEF IsTurns, Turn
    <2> QED
        BY <2>1
<1>2. \A m \in 0 .. n : m \in T /\ m < n => m + 1 \in T
    BY OneTurnMore
<1>3. n \in T
    <2> HIDE DEF T
    <2> QED
        BY <1>1, <1>2, UpTo
<1>4. PICK f : IsTurns(f, accounts, order, n)
    BY <1>3
<1> QED
    BY <1>4 DEF IsTurns, Turn, Turns

(***************************************************************************)
(* The loop.                                                               *)
(***************************************************************************)
\* After n accounts: what was kept is one of them,
KeptOne(accounts, order, n, best) ==
    best.key # {} => \E i \in 1 .. n : best.key = {order[i]} /\ accounts[order[i]].object

\* a default one if the loop has ended;
KeptDefault(accounts, best) ==
    best.ended => best.key # {} /\ \A k \in best.key : accounts[k].default

\* if not there was no default one, one is kept if there was any, and one not
\* known to be free if there was such a one.
NoneMissed(accounts, order, n, best) ==
    ~best.ended => \A i \in 1 .. n :
        accounts[order[i]].object =>
            /\ ~accounts[order[i]].default
            /\ best.key # {}
            /\ accounts[order[i]].plan # {"free"} => \A k \in best.key : accounts[k].plan # {"free"}

Kept(accounts, order, n, best) ==
    /\ best.ended \in BOOLEAN
    /\ KeptOne(accounts, order, n, best)
    /\ KeptDefault(accounts, best)
    /\ NoneMissed(accounts, order, n, best)

LEMMA VisitKeeps ==
    ASSUME NEW accounts, NEW order, NEW n \in Nat, NEW best, Kept(accounts, order, n, best),
           accounts[order[n + 1]].object \in BOOLEAN, accounts[order[n + 1]].default \in BOOLEAN
    PROVE  Kept(accounts, order, n + 1, Visit(accounts, best, order[n + 1]))
<1> DEFINE k == order[n + 1]
           entry == accounts[k]
           next == Visit(accounts, best, k)
<1>1. \A i \in 1 .. n + 1 : i \in 1 .. n \/ i = n + 1
    OBVIOUS
<1>2. CASE ~best.ended /\ entry.object /\ (entry.default \/ Candidate(entry, best))
    <2>1. next.ended = entry.default /\ next.key = {k}
        BY <1>2 DEF Visit
    <2>2. n + 1 \in 1 .. n + 1 /\ next.key = {order[n + 1]}
        BY <2>1
    <2>3. ASSUME ~next.ended, NEW i \in 1 .. n + 1, accounts[order[i]].object
          PROVE  /\ ~accounts[order[i]].default
                 /\ accounts[order[i]].plan # {"free"} => entry.plan # {"free"}
        <3>1. CASE i = n + 1
            BY <2>1, <2>3, <3>1
        <3>2. CASE i \in 1 .. n
            BY <1>2, <2>1, <2>3, <3>2 DEF Kept, NoneMissed, Candidate
        <3> QED
            BY <1>1, <3>1, <3>2
    <2>4. next.ended \in BOOLEAN
        BY <2>1
    <2>5. KeptOne(accounts, order, n + 1, next)
        BY <1>2, <2>2 DEF KeptOne
    <2>6. KeptDefault(accounts, next)
        BY <2>1 DEF KeptDefault
    <2>7. NoneMissed(accounts, order, n + 1, next)
        <3>1. next.key # {} /\ \A j \in next.key : j = k
            BY <2>1
        <3> HIDE DEF next
        <3> QED
            BY <2>3, <3>1 DEF NoneMissed
    <2>8. Kept(accounts, order, n + 1, next)
        <3> HIDE DEF next
        <3> QED
            BY <2>4, <2>5, <2>6, <2>7 DEF Kept
    <2> QED
        BY <2>8
<1>3. CASE ~(~best.ended /\ entry.object /\ (entry.default \/ Candidate(entry, best)))
    <2>1. next = best
        BY <1>3 DEF Visit
    <2>2. \A i \in 1 .. n : i \in 1 .. n + 1
        OBVIOUS
    <2>3. ~best.ended /\ entry.object => ~entry.default /\ best.key # {} /\ entry.plan = {"free"}
        BY <1>3 DEF Candidate
    <2>4. KeptOne(accounts, order, n + 1, best)
        BY <2>2 DEF Kept, KeptOne
    <2>5. NoneMissed(accounts, order, n + 1, best)
        BY <1>1, <2>3 DEF Kept, NoneMissed
    <2> QED
        BY <2>1, <2>4, <2>5 DEF Kept
<1> QED
    BY <1>2, <1>3

LEMMA TurnsKeep ==
    ASSUME NEW accounts, IsListing(accounts), NEW order, NEW n \in Nat, n = Len(order),
           \A i \in 1 .. n : order[i] \in DOMAIN accounts
    PROVE  Kept(accounts, order, n, Turns(accounts, order)[n])
<1> DEFINE f == Turns(accounts, order)
           T == {m \in 0 .. n : Kept(accounts, order, m, f[m])}
<1>1. \A m \in 0 .. n : f[m] = Turn(accounts, order, f, m)
    BY TurnsIs, TurnIs
<1> HIDE DEF f
<1>2. 0 \in T
    <2>1. f[0] = [ended |-> FALSE, key |-> {}]
        BY <1>1 DEF Turn
    <2>2. f[0].key = {} /\ f[0].ended \in BOOLEAN /\ ~f[0].ended
        BY <2>1
    <2>3. KeptOne(accounts, order, 0, f[0]) /\ KeptDefault(accounts, f[0])
        BY <2>2 DEF KeptOne, KeptDefault
    <2>4. NoneMissed(accounts, order, 0, f[0])
        BY DEF NoneMissed
    <2>5. Kept(accounts, order, 0, f[0])
        BY <2>2, <2>3, <2>4 DEF Kept
    <2> QED
        BY <2>5
<1>3. ASSUME NEW m \in 0 .. n, m \in T, m < n PROVE m + 1 \in T
    <2>1. m + 1 \in 0 .. n /\ m + 1 \in 1 .. n /\ m \in Nat
        BY <1>3
    <2>2. f[m + 1] = Visit(accounts, f[m], order[m + 1])
        BY <1>1, <2>1 DEF Turn
    <2>3. /\ accounts[order[m + 1]].object \in BOOLEAN
          /\ accounts[order[m + 1]].default \in BOOLEAN
        BY <2>1 DEF IsListing
    <2> QED
        BY <1>3, <2>1, <2>2, <2>3, VisitKeeps
<1>4. n \in T
    <2> HIDE DEF T
    <2> QED
        BY <1>2, <1>3, UpTo
<1> QED
    BY <1>4 DEF f

(***************************************************************************)
(* The choice.                                                             *)
(***************************************************************************)
\* An iteration visits every account.
LEMMA OrderVisitsAll ==
    ASSUME NEW S, IsFiniteSet(S), NEW order \in SetToSeqs(S)
    PROVE  \E n \in Nat : /\ n = Len(order) /\ DOMAIN order = 1 .. n
                          /\ \A i \in 1 .. n : order[i] \in S
                          /\ \A k \in S : \E i \in 1 .. n : order[i] = k
<1> DEFINE n == Cardinality(S)
           D == 1 .. n
<1>1. n \in Nat
    BY FS_CardinalityType
<1>2. order \in [D -> S] /\ \A i, j \in D : i # j => order[i] # order[j]
    BY DEF SetToSeqs
<1>3. order \in Injection(D, S)
    BY <1>2, Fun_IsInj
<1>4. Cardinality(D) = n
    BY <1>1, FS_Interval
<1>5. order \in Surjection(D, S)
    BY <1>3, <1>4, FS_Injection
<1>6. \A k \in S : \E i \in D : order[i] = k
    BY <1>5 DEF Surjection
<1>7. Len(order) = n
    BY <1>1, <1>2
<1> QED
    BY <1>1, <1>2, <1>6, <1>7

LEMMA FirstNamed ==
    ASSUME NEW T \in SUBSET Nat, T # {}
    PROVE  Min(T) \in T
BY LeastNumber DEF Min

\* Of any finite number of accounts in any order selectAccount (http.go:99-132)
\* chooses the preferred one if it is there, else a default one if there is one,
\* else one not known to be free if there is one, else any.
THEOREM AnyOrderIsRight ==
    ASSUME NEW accounts, IsListing(accounts), NEW preferred, IsOptional(preferred),
           NEW order \in SetToSeqs(DOMAIN accounts)
    PROVE  RightChoice(accounts, preferred, SelectAccount(accounts, preferred, order))
<1> DEFINE keyed == {k \in preferred : k \in DOMAIN accounts /\ accounts[k].object}
           named == {i \in DOMAIN order : Nested(accounts[order[i]], "id") = preferred}
           objects == {k \in DOMAIN accounts : accounts[k].object}
           mine == {k \in objects : {k} = preferred \/ accounts[k].id = preferred}
<1>1. PICK n \in Nat : /\ n = Len(order) /\ DOMAIN order = 1 .. n
                       /\ \A i \in 1 .. n : order[i] \in DOMAIN accounts
                       /\ \A k \in DOMAIN accounts : \E i \in 1 .. n : order[i] = k
    BY OrderVisitsAll DEF IsListing
<1>2. CASE keyed # {}
    <2>1. PICK p \in keyed : preferred = {p}
        BY <1>2 DEF IsOptional
    <2>2. keyed = {p} /\ p \in mine
        BY <2>1
    <2>3. SelectAccount(accounts, preferred, order) = [id |-> preferred, key |-> {p}]
        BY <1>2, <2>2 DEF SelectAccount
    <2> QED
        BY <2>1, <2>2, <2>3 DEF RightChoice
<1>3. CASE keyed = {} /\ preferred # {} /\ named # {}
    <2>1. Min(named) \in named
        <3>1. named \in SUBSET Nat
            BY <1>1
        <3> HIDE DEF named
        <3> QED
            BY <1>3, <3>1, FirstNamed
    <2>2. order[Min(named)] \in mine
        <3>1. PICK k : k = order[Min(named)]
            OBVIOUS
        <3>2. k \in DOMAIN accounts /\ Nested(accounts[k], "id") = preferred
            BY <1>1, <2>1, <3>1
        <3> QED
            BY <1>3, <3>1, <3>2 DEF Nested, IsListing
    <2>3. SelectAccount(accounts, preferred, order) =
              [id |-> preferred, key |-> {order[Min(named)]}]
        BY <1>3 DEF SelectAccount
    <2> DEFINE k == order[Min(named)]
               choice == SelectAccount(accounts, preferred, order)
    <2>4. choice.id = preferred /\ choice.key = {k} /\ k \in mine
        BY <2>2, <2>3
    <2> HIDE DEF k, choice
    <2> QED
        BY <1>3, <2>4 DEF RightChoice, choice
<1>4. CASE keyed = {} /\ ~(preferred # {} /\ named # {})
    <2> DEFINE best == Turns(accounts, order)[n]
    <2>1. Kept(accounts, order, n, best)
        BY <1>1, TurnsKeep
    <2>2. SelectAccount(accounts, preferred, order) = Fallback(accounts, order)
        BY <1>4 DEF SelectAccount
    <2>3. Fallback(accounts, order).key = best.key
        <3>1. best.key = {} => Fallback(accounts, order).key = {}
            BY <1>1 DEF Fallback, NotSelected
        <3>2. best.key # {} => \E k : best.key = {k} /\ Fallback(accounts, order).key = {k}
            BY <1>1, <2>1 DEF Fallback, Selection, Kept, KeptOne
        <3> QED
            BY <3>1, <3>2
    <2>4. preferred = {} \/ mine = {}
        BY <1>1, <1>4 DEF Nested
    <2> HIDE DEF best
    <2>5. best.key \subseteq objects
        BY <1>1, <2>1 DEF Kept, KeptOne, KeptDefault, NoneMissed
    <2>6. best.key = {} <=> objects = {}
        BY <1>1, <2>1, <2>5 DEF Kept, KeptOne, KeptDefault, NoneMissed
    <2>7. (\E k \in objects : accounts[k].default) => \A k \in best.key : accounts[k].default
        BY <1>1, <2>1 DEF Kept, KeptOne, KeptDefault, NoneMissed
    <2>8. (\A k \in objects : ~accounts[k].default)
                  /\ (\E k \in objects : accounts[k].plan # {"free"})
              => \A k \in best.key : accounts[k].plan # {"free"}
        BY <1>1, <2>1, <2>5, <2>6 DEF Kept, KeptOne, KeptDefault, NoneMissed
    <2> QED
        BY <2>2, <2>3, <2>4, <2>5, <2>6, <2>7, <2>8 DEF RightChoice
<1> QED
    BY <1>2, <1>3, <1>4
=============================================================================
