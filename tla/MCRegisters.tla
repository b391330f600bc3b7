---------------------------- MODULE MCRegisters ----------------------------
(* The register in small: its rows under two requests at once, up to a        *)
(* transfer, a row of the bank and one of a mail in two accounts.             *)
EXTENDS Ledger, TLC

Symmetry == Permutations(Accounts) \cup Permutations(Ids)
            \cup Permutations(Handlers)
=============================================================================
