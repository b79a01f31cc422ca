------------------------------- MODULE MCPtt -------------------------------
\* Transmit control for TLC; connections are interchangeable.
EXTENDS Ptt, TLC

ClientSymmetry == Permutations(Clients)
============================================================================
