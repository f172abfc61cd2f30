-------------------------- MODULE MCRefreshTokens --------------------------
(* A small instance of RefreshTokens with every action: the user's tenant can be
   suspended, rows are swept.  Tokens and requests are interchangeable. *)
EXTENDS RefreshTokens, TLC

CONSTANTS u1, n0, n1

InTenant == [u \in {u1} |-> n1]

Symmetry == Permutations(Token) \cup Permutations(Req)
=============================================================================
