----------------------------- MODULE MCRestore -----------------------------
(* Instances of Restore for TLC.                                           *)
EXTENDS Restore

\* No file, a file without rows among others, LSNs out of order over files.
MCDirs == { <<>>, << <<>> >>, << <<1, 2>>, <<>> >>, << <<2, 4>>, <<1>>, <<3, 5>> >> }
=============================================================================
