--------------------------- MODULE MCMultiMaster ---------------------------
EXTENDS MultiMaster

PairEdges == {<<"a", "b">>, <<"b", "a">>}
RingEdges == {<<"a", "b">>, <<"b", "c">>, <<"c", "a">>}
MeshEdges == {e \in Site \X Site : e[1] # e[2]}

AllPostgres == [s \in Site |-> "postgres"]
AllMysql == [s \in Site |-> "mysql"]
Mixed == [s \in Site |-> IF s = "a" THEN "postgres" ELSE "mysql"]

PairRank == [s \in Site |-> IF s = "a" THEN 1 ELSE 2]
TripleRank == [s \in Site |-> CASE s = "a" -> 1 [] s = "b" -> 2 [] OTHER -> 3]

=============================================================================
