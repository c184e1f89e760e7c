--------------------------- MODULE MCSecretCache ---------------------------
(* Threads, keys and names of SecretCache are interchangeable. *)
EXTENDS SecretCache, TLC

Symmetry == Permutations(Threads) \union Permutations(Keys) \union Permutations(Names)

=============================================================================
