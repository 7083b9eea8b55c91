---------------------------- MODULE SerialIngest ----------------------------
(***************************************************************************)
(* What registering a folder promises, whoever does the hashing: the files *)
(* are taken one by one in the order of the walk, each is recorded under   *)
(* its own digest or skipped, and the folder is stored whole, once, or not *)
(* at all.  The digest of a file is the file itself.                       *)
(***************************************************************************)
EXTENDS Naturals

CONSTANT N \* the walk found the files 1..N

VARIABLES
    file,   \* the next file of the walk
    rows,   \* <<member, digest>> of every file hashed so far
    stored, \* the folder's rows in the database
    ended   \* no file will be hashed and nothing stored any more

vars == <<file, rows, stored, ended>>

Init ==
    /\ file = 1
    /\ rows = {}
    /\ stored = {}
    /\ ended = FALSE

\* hash_file under the loop of _ingest_walked_folder: the next file's row.
Hash ==
    /\ ~ended /\ file <= N
    /\ file' = file + 1
    /\ rows' = rows \cup {<<file, file>>}
    /\ UNCHANGED <<stored, ended>>

\* An unreadable file is left out.
Skip ==
    /\ ~ended /\ file <= N
    /\ file' = file + 1
    /\ UNCHANGED <<rows, stored, ended>>

\* One transaction stores all rows, after the last file.
Record ==
    /\ ~ended /\ file > N
    /\ rows # {}
    /\ stored' = rows
    /\ ended' = TRUE
    /\ UNCHANGED <<file, rows>>

\* A cancel, a failure, or a folder of which nothing could be read.
Stop ==
    /\ ~ended
    /\ ended' = TRUE
    /\ UNCHANGED <<file, rows, stored>>

Next == Hash \/ Skip \/ Record \/ Stop

Spec == Init /\ [][Next]_vars
=============================================================================
