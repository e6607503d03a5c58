------------------------- MODULE MCCertificateTrust -------------------------
(* CertificateTrust for TLC: calls and certificates are interchangeable. *)
EXTENDS CertificateTrust, TLC

Symmetry == Permutations(Calls) \cup Permutations(Certs)

=============================================================================
