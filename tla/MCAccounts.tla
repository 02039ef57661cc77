----------------------------- MODULE MCAccounts -----------------------------
(* The instance of Accounts for TLC: three users, of whom one was made by  *)
(* the createadmin command.                                                *)
EXTENDS Accounts, TLC

CONSTANTS u1, u2, u3

\* Values that no constant and no definition names.
Symmetric ==
    Permutations(Names) \cup Permutations(Passwords)
    \cup Permutations({u2, u3}) \cup Permutations(Requests) \cup Permutations(IPs)
=============================================================================
