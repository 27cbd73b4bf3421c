------------------------ MODULE MCTerminalQueries ------------------------
\* Instances of TerminalQueries for TLC.
EXTENDS TerminalQueries, TLC

\* Devices are interchangeable.
Symmetry == Permutations(Devices)
=============================================================================
