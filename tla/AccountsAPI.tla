----------------------------- MODULE AccountsAPI -----------------------------
(***************************************************************************)
(* What the specifications of registration and login have in common: the   *)
(* credentials that clients send and the answers.                          *)
(*                                                                         *)
(* An e-mail address as it is typed is an address together with "has no    *)
(* capitals and no surrounding white space".  Of a password bcrypt uses    *)
(* the first 72 bytes: Significant.                                        *)
(***************************************************************************)
EXTENDS Integers

CONSTANTS
  Slot,            \* goroutines that serve requests, one request each
  Address,         \* e-mail addresses, up to capitals and white space
  ValidAddress,    \* those that mail.ParseAddress takes, at most 254 bytes long
  Password,        \* passwords that clients may send
  ValidPassword,   \* those of 8 to 72 bytes
  Significant(_),  \* what bcrypt makes of a password: its first 72 bytes
  None             \* a field that is not used

ASSUME AccountsAPIAssumption ==
  /\ ValidAddress \subseteq Address
  /\ ValidPassword \subseteq Password
  /\ \A p \in Password : Significant(p) \in Password
  /\ None \notin Address
  /\ None \notin Password

Email == [address : Address, plain : BOOLEAN]

\* strings.ToLower(strings.TrimSpace(email))
Canonical(email) == [email EXCEPT !.plain = TRUE]

Call ==
  [op       : {"none", "register", "login"},
   email    : Email \cup {None},
   password : Password \cup {None}]

NoCall == [op |-> "none", email |-> None, password |-> None]

Code == {"none", "created", "ok", "bad_request", "validation_error",
         "conflict", "unauthorized", "internal_error"}

\* A wrong password that CheckPassword takes for the right one: bcrypt does not see
\* where they differ.
BcryptConfuses(right, password) ==
  right # password /\ Significant(right) = Significant(password)

\* normalizeEmail and validatePassword both accept.
AcceptsRegister(email, password) ==
  Canonical(email).address \in ValidAddress /\ password \in ValidPassword
=============================================================================
