-------------------------- MODULE MCTimedElection --------------------------
\* TimedElection for TLC.
EXTENDS TimedElection, TLC

SlaveSymmetry == Permutations(Slaves)

\* Votes that collide, and votes that never do.
SameVotes == [n \in Slaves |-> {1, 2}]
OwnVotes ==
    LET first == CHOOSE n \in Slaves : TRUE
    IN  [n \in Slaves |-> IF n = first THEN {1, 3} ELSE {2}]

\* Colliding votes and changing averages, with nobody killed; and a node killed
\* at any moment, with votes that differ.
Ties == [votes |-> SameVotes, changes |-> BOOLEAN, stops |-> 0, inFlight |-> 5]
Kill == [votes |-> OwnVotes, changes |-> {FALSE}, stops |-> 1, inFlight |-> 12]

TiesOrKill == {Ties, Kill}

\* Votes that collide, and that are drawn from three values.
Redraws == {[votes |-> [n \in Slaves |-> {1, 2, 3}], changes |-> {FALSE},
             stops |-> 0, inFlight |-> 6]}
=============================================================================
