--------------------------- MODULE MCStatusStore ----------------------------
(* StatusStore with two accounts. *)
EXTENDS StatusStore, TLC

\* One with an ordinary e-mail and ID, one with the shortest that are masked.
Long == [email |-> [address |-> TRUE, name |-> 6, starred |-> FALSE, hidden |-> 0],
         id |-> [len |-> 36, dotted |-> FALSE, hidden |-> 0]]
Shortest == [email |-> [address |-> TRUE, name |-> 2, starred |-> FALSE, hidden |-> 0],
             id |-> [len |-> 9, dotted |-> FALSE, hidden |-> 0]]
MCIdentities == <<Long, Shortest>>

\* Documents at the edges of what parseConfig takes, and beyond them.
Off == [mask |-> FALSE]
MCDocuments ==
    {Document(given) : given \in {Nothing, Off, [mask |-> FALSE, concurrency |-> 0],
                                  [mask |-> FALSE, interval |-> 4]}}
        \cup {[Document(Off) EXCEPT !.decodes = FALSE], [Document(Off) EXCEPT !.single = FALSE]}

Symmetry == Permutations(Procs) \cup Permutations(Addrs)
=============================================================================
