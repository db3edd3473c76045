----------------------- MODULE MCProfileCredentials -----------------------
(* Small instances of ProfileCredentials for TLC.                          *)
EXTENDS ProfileCredentials, TLC

\* No command treats a secret or a profile specially.
Symmetry == Permutations(Profiles) \cup Permutations(Secrets)
=============================================================================
