----------------------------- MODULE MCWitnessedLog -----------------------------
(* Witnesses for TLC.  In MCWitness each of three witnesses runs one command at  *)
(* a time (its run has its name); four files are two that a quorum of two has    *)
(* cosigned.  With AllOfOneWitness for Owner, runs of one witness overlap, and   *)
(* OneHistory fails.                                                             *)
EXTENDS WitnessedLog, TLC

CONSTANTS a, b, x

\* A fork at size 1, and growth of one of its branches: by an entry, and in a
\* checkpoint that claims a size its tree has not (x is the hash of no entry)
ForksAndGrowth == {<<a>>, <<b>>, <<a, a>>, <<a, x>>}

OneRunEach == [r \in Runs |-> r]

TheWitness == CHOOSE w \in Witnesses : TRUE
AllOfOneWitness == [r \in Runs |-> TheWitness]

GrowthProofs == {p \in Proofs : p.from_size < Len(p.tree)}

\* Sound where Owner = OneRunEach: renaming a witness renames its run with it
WitnessSymmetry == Permutations(Witnesses)
===============================================================================
