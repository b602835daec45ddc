----------------------------- MODULE MCAccount -----------------------------
(***************************************************************************)
(* Account for TLC.  Requests, sessions, secrets and codes are each        *)
(* interchangeable.                                                        *)
(***************************************************************************)
EXTENDS Account, TLC

Symmetry ==
  Permutations(Requests) \cup Permutations(Sessions) \cup Permutations(Secrets)
    \cup Permutations(Codes)
=============================================================================
