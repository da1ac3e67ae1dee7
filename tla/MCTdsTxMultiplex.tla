-------------------------- MODULE MCTdsTxMultiplex --------------------------
EXTENDS TdsTxMultiplex, TLC

Alike == Permutations(Session) \union Permutations(Conn)

=============================================================================
