------------------------------- MODULE MCNats -------------------------------
EXTENDS Nats, TLC

CONSTANTS n1, k1, folder

MCNodeOf == [p \in Clients |-> n1]

MCFolderOf == [key \in Keys |-> folder]

\* A process ended between the two writes of a delete.
MCBucket ==
    LET created == [Marker(k1) EXCEPT !.put = TRUE, !.create = TRUE]
    IN <<created, [created EXCEPT !.create = FALSE, !.delete = TRUE, !.prev = 1]>>

ClientSymmetry == Permutations(Writers)
=============================================================================
