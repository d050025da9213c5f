------------------------------- MODULE MCCpr -------------------------------
EXTENDS Cpr

\* The grid on both sides of each end of a band, of every fifth even and odd zone, the equator and the poles.
Ends == {(NL_TRANSITIONS[i] \div (Circle \div Grid)) + d : i \in 1..58, d \in 0..1}
Edges == {(Grid * i) \div z + d : i \in {0, 1, 5, 10, 14}, z \in {59, 60}, d \in -1..1}
Norths == {k \in Ends \cup Edges \cup {3598, 3599, 3600} : k >= 0}
StartLats == Norths \cup {-k : k \in Norths}

\* The date line, Greenwich, and two places of no distinction.
StartLons == {-7200, -7199, -4821, 0, 1, 2633, 7199}

AllStarts == [lat : StartLats, lon : StartLons]
AllMoves == [lat : {-2, 0, 2}, lon : {-2, 0, 2}]
AllOffsets == [lat : {-4, 0, 1, 4, 5}, lon : {-5, -4, 0, 1, 4}]

=============================================================================
