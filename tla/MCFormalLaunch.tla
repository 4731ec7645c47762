----------------------------- MODULE MCFormalLaunch -----------------------------
\* A small matrix: a normal cell of three episodes, in shards of two and one,
\* and a fault cell of one episode, which an earlier launch has finished and
\* the retention manifest names.
EXTENDS FormalLaunch

TwoCells == <<"normal", "fault">>
EpisodesOfCells == <<3, 1>>
TwoGpus == <<0, 1>>
OneNode == [g \in {0, 1} |-> 0]
FaultCell == {2}
FaultAtFirstCommit == {<<2, 1>>}
=================================================================================
