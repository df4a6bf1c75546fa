----------------------- MODULE MCContractDocumentQueue -----------------------
(* Instances of ContractDocumentQueue for TLC. *)
EXTENDS ContractDocumentQueue, TLC

\* Sound for the safety runs: no property tells these values apart.
Symmetry == Permutations(Requests) \union Permutations(Terms) \union Permutations(Faces)
=============================================================================
