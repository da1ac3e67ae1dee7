---------------------------- MODULE MCTdsSession ----------------------------
EXTENDS TdsSession, TLC

Alike == Permutations(Session) \union Permutations(Conn)

=============================================================================
