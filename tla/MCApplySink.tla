---------------------------- MODULE MCApplySink ----------------------------
EXTENDS ApplySink

\* Two events of row x around one of row y.
TwoAndOne == <<"x", "y", "x">>

=============================================================================
