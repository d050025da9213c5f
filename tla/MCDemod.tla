------------------------------- MODULE MCDemod -------------------------------
EXTENDS Demod

\* Every context of three bits at every place of a byte: a cycle of eight bits that holds them all, turned.
Body(df, turn) ==
  {4 - k : k \in {k \in 0..4 : (df \div 2^k) % 2 = 1}}
    \cup {k \in 5..8 * FrameBytes(df) - 1 : (k + turn) % 8 \in {3, 5, 6, 7}}

Transmission(df, turn, start) == [bits |-> Body(df, turn), bytes |-> FrameBytes(df), start |-> start]

Buffer(frames, spare) == [air |-> frames, spare |-> spare]

\* Starts at every place between two samples of any of the rates.
Starts == 12..17
Turned == {Buffer(<<Transmission(17, turn, 12 + (turn % 6))>>, 16) : turn \in 0..7}
Short == {Buffer(<<Transmission(11, 0, start)>>, 16) : start \in Starts}
Cut == {Buffer(<<Transmission(17, 3, start)>>, spare) : start \in Starts, spare \in {-40, 8}}
Close ==
  {Buffer(<<Transmission(11, 1, start), Transmission(17, 2, start + 96 + 12 * 56 + gap)>>, 16) :
     start \in Starts, gap \in {6, 12}}
AllBuffers == Turned \cup Short \cup Cut \cup Close

=============================================================================
