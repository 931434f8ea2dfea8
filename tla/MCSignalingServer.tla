-------------------------- MODULE MCSignalingServer --------------------------
(* Small instances of SignalingServer for TLC.                             *)
EXTENDS SignalingServer, TLC

\* The connections and the sessions are interchangeable (safety runs only).
Symmetry == Permutations(Conn) \cup Permutations(Session)
=============================================================================
