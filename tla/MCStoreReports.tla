----------------------------- MODULE MCStoreReports -----------------------------
(* One folder of up to two files, and a process that proves and exports in turn: *)
(* three commands make a folder, a file beside it (or under the folder's own id) *)
(* and a change while a report is read.                                          *)
EXTENDS StoreReports, TLC

OneFolder == {<<1>>}
OneSingle == {<<2>>}
FolderId  == {<<1>>, <<2>>}   \* a file registered under the id of the folder, too

\* Nothing orders digests or looks into them
DigestSymmetry == Permutations(Digests)
===============================================================================
