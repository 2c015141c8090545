------------------------------ MODULE MCStorage ------------------------------
(* Storage with two record types, two payloads and six sequence numbers.    *)
EXTENDS Storage, TLC

\* Payloads are only copied and compared.
PayloadSymmetry == Permutations(Payloads)
=============================================================================
