---------------------------- MODULE MCAdmission -----------------------------
(***************************************************************************)
(* TLC instance of Admission.                                              *)
(***************************************************************************)
EXTENDS Admission, TLC

CONSTANTS right, other

\* Two registrations that overlap and two requests that follow, or four chats.
MCRequests == 1..4
MCPasswords == {right, other}
PasswordSymmetry == Permutations(MCPasswords)

\* Accounts and tokens without a limiter, and both limiters.
MCSetups ==
    [limiter : {"none"}, secret_is_set : BOOLEAN, anonymous : {FALSE}]
    \cup [limiter : {"redis", "memory"}, secret_is_set : {TRUE}, anonymous : {TRUE}]
=============================================================================
