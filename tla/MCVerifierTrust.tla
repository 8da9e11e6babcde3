-------------------------- MODULE MCVerifierTrust --------------------------
(* The instances of MCVerifierApi with the memory of VerifierTrust.         *)
EXTENDS MCVerifierApi, VerifierTrust
=============================================================================
