--------------------------- MODULE MCShellRecords ---------------------------
EXTENDS ShellRecords, TLC

\* The shells run the same program.
Symmetry == Permutations(Shells)

MCTroubles == {{}, {"cut"}, {"edit"}, {"restart"}}

\* The saves meet where nothing happens to the log but its growth.
MCMeeting == {{}}

\* With these, the header shows CLEAN for a log nobody checked (CleanMeansChecked).
MCRestart == {{"restart"}}
=============================================================================
