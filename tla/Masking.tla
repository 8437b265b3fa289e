------------------------------ MODULE Masking -------------------------------
(***************************************************************************)
(* maskEmail and maskID of internal/monitor/http.go, and the display       *)
(* functions of plugin.go that call them.  A string is represented by what *)
(* the code looks at and by how much of it is hidden.                      *)
(***************************************************************************)
EXTENDS Integers

\* An ID: its length, whether it reads xxxx...xxxx, and how many of its
\* characters have been taken out of it.
ID == [len : Nat, dotted : BOOLEAN, hidden : Nat]

\* An e-mail: whether it is name@domain, the length of its name, the number
\* of characters taken out.  NoEmail is "".
Email == [address : BOOLEAN, name : Nat, starred : BOOLEAN, hidden : Nat]
NoEmail == [address |-> FALSE, name |-> 0, starred |-> FALSE, hidden |-> 0]

Identity == [email : Email, id : ID]

IsShort(id) == id.len <= 8

MaskID(id) ==
    IF (id.len = 11 /\ id.dotted) \/ IsShort(id) THEN id
    ELSE [len |-> 11, dotted |-> TRUE, hidden |-> id.hidden + id.len - 8]

\* Mutant of MaskEmail: a masked name is masked once more.
MaskEmailAgain(email) ==
    IF ~email.address \/ email.name = 0 THEN NoEmail
    ELSE IF email.name = 1 THEN email
    ELSE [email EXCEPT !.name = 4, !.starred = TRUE, !.hidden = @ + email.name - 1]

\* One character and three asterisks; the asterisks of an earlier masking are
\* replaced by themselves.
MaskEmail(email) ==
    IF ~email.address \/ email.name = 0 THEN NoEmail
    ELSE IF email.name = 1 \/ (email.starred /\ email.name = 4) THEN email
    ELSE [email EXCEPT !.name = 4, !.starred = TRUE, !.hidden = @ + email.name - 1]

MaskIdentity(i) == [email |-> MaskEmail(i.email), id |-> MaskID(i.id)]

\* displayEmail, displayID
Display(i, masked) == IF masked THEN MaskIdentity(i) ELSE i

\* What masking is for: of an identity that is long enough to hide something,
\* something is hidden.
Hides(i) ==
    LET masked == MaskIdentity(i)
    IN  /\ (i.email.address /\ i.email.name > 1 /\ ~i.email.starred)
              => masked.email.hidden > i.email.hidden
        /\ (i.id.len > 8 /\ ~i.id.dotted) => masked.id.hidden > i.id.hidden
=============================================================================
