------------------------------ MODULE MCAccounts ------------------------------
(***************************************************************************)
(* A small instance of Accounts: two valid addresses and one that is not,  *)
(* each in two spellings, two valid passwords and one that is too long, of *)
(* which bcrypt only sees the beginning, which is pw1.                     *)
(***************************************************************************)
EXTENDS Accounts, TLC

CONSTANTS s1, s2, ann, bob, malformed, pw1, pw2, long

Slots          == {s1, s2}
ValidAddresses == {ann, bob}
ValidPasswords == {pw1, pw2}
MCSignificant(p) == IF p = long THEN pw1 ELSE p
SymmetrySets   == Permutations(Slots) \cup Permutations(ValidAddresses)
=============================================================================
