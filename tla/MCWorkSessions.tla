-------------------------- MODULE MCWorkSessions --------------------------
(* Two requests at a time of a user with the portal and two trackers.         *)
EXTENDS WorkSessions, TLC

Interchangeable == Permutations(Requests) \cup Permutations(Trackers) \cup Permutations(Apps)
=============================================================================
