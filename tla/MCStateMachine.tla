--------------------------- MODULE MCStateMachine ---------------------------
EXTENDS StateMachine

=============================================================================
