--------------------------- MODULE MCFingerprint ---------------------------
\* Instances of Fingerprint for TLC.
EXTENDS Fingerprint, TLC

Symmetry == Permutations(Clients) \cup Permutations(Accounts) \cup Permutations(Machines) \cup Permutations(Genuine) \cup Permutations(Names)
=============================================================================
