----------------------------- MODULE MCSegments -----------------------------
(* An instance of Segments for TLC: three rows, segments of five bytes.    *)
EXTENDS Segments

\* The first two rows fill a segment, the last one never fits.
MCSize == [l \in Lsns |-> <<2, 3, 6>>[l]]

\* A master and a slave as InitDB builds them, and a master with the other
\* index manager.
MCNodes ==
  {[master |-> TRUE, im |-> "mutex", lsns |-> Lsns, faults |-> {"io", "crash", "torn", "clock"}],
   [master |-> FALSE, im |-> "mutex", lsns |-> Lsns, faults |-> {"io", "crash", "torn"}],
   [master |-> TRUE, im |-> "cow", lsns |-> {1, 3}, faults |-> {"io", "crash", "torn"}]}
=============================================================================
