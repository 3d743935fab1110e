----------------------------- MODULE MCFlusher ------------------------------
EXTENDS Flusher, TLC

CONSTANTS s1, s2

\* One stream that wants a flush at once, and one that can wait.
OneSoon == (s1 :> 0) @@ (s2 :> 2)
=============================================================================
