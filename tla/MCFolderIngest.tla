--------------------------- MODULE MCFolderIngest ---------------------------
EXTENDS FolderIngest

\* Six files: batches cut by number only, by bytes only, and by big files at
\* every kind of place (first, in the middle of a batch, twice in a row, last).
MCFolders == {
    <<2, 2, 2, 2, 2, 2>>,
    <<0, 0, 1, 1, 2, 0>>,
    <<3, 0, 3, 3, 1, 0>>,
    <<1, 0, 0, 2, 0, 3>>}

MCTwoFiles == {<<1, 3>>}
=============================================================================
