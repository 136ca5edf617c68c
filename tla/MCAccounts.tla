----------------------------- MODULE MCAccounts -----------------------------
(* The auth service on a small instance: one account there already.        *)
EXTENDS Accounts, TLC

CONSTANTS old, a

OldHasA == [u \in Old |-> a]

\* Requests differ in nothing but their names.
AnyRequest == Permutations(Requests)
=============================================================================
