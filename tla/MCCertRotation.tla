--------------------------- MODULE MCCertRotation ---------------------------
(* Small instances of CertRotation for TLC. *)
EXTENDS CertRotation

CONSTANTS w1, w2

OneWorker == {w1}
TwoWorkers == {w1, w2}
=============================================================================
