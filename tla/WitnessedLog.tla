----------------------------- MODULE WitnessedLog -----------------------------
(***************************************************************************)
(* Witnesses of the custody log (witness.py) and the quorum rule of        *)
(* verifier.py.  A custodian signs checkpoints of a log (its size and a    *)
(* Merkle root over its entries); a witness cosigns one only if it extends *)
(* the last checkpoint it cosigned for that log, which it remembers in a   *)
(* state file.  `witness.py cosign` is a process of its own: it reads the  *)
(* state file, decides, replaces the state file, then writes the cosigned  *)
(* checkpoint, and can stop after any of these.                            *)
(*                                                                         *)
(* Hashes are ideal: the root of a log IS its history, and a consistency   *)
(* proof carries the tree it was made from, so verify_consistency accepts  *)
(* it exactly when both roots are roots of that tree (MerkleBuilder checks *)
(* the algorithm).  The custodian is not trusted: any history may be       *)
(* presented, signed with the log's key, with any proof.  Nor need the     *)
(* size that is signed be that of the tree: the history is what the root   *)
(* opens to as a tree of that size, and some of its leaves are then the    *)
(* hash of no entry (a root does not encode its size, verifier.py).        *)
(***************************************************************************)
EXTENDS Integers, Sequences, FiniteSets

CONSTANTS Logs,        \* the logs, each named by its custodian's public key
          Leaves,      \* entry hashes, and what a custodian may put in their place
          Histories,   \* bound: the histories a custodian may present
          Witnesses,   \* the witnesses, each with its key and its state file
          Runs,        \* processes running `witness.py cosign`
          Owner,       \* the witness each run belongs to
          ProofFiles,  \* bound: the consistency proof files in circulation
          MaxFiles,    \* bound: cosigned files written
          Quorum,      \* --quorum of the verifier
          None         \* an option that is not given, an absent state entry

ASSUME OwnerAssumption == Owner \in [Runs -> Witnesses]
ASSUME HistoriesAssumption == Histories \subseteq Seq(Leaves) \ {<<>>}

VARIABLES state,     \* per witness, the state file: what it last cosigned per log
          cosigned,  \* the checkpoint files written with --out
          phase,     \* per run: where it is in cmd_cosign
          loaded,    \* per run: the state it read
          accepted   \* per run: the file it cosigns and the key it trusts for it

witnessVars == <<state, cosigned, phase, loaded, accepted>>

Prefix(old, new) ==
    /\ Len(old) <= Len(new)
    /\ \A i \in 1 .. Len(old) : old[i] = new[i]

Comparable(a, b) == Prefix(a, b) \/ Prefix(b, a)

\* The body of a checkpoint signed with the key of log_id: the root, as a tree of
\* the size it claims
Bodies == [log_id : Logs, root : Histories]
Size(body) == Len(body.root)
Files == [body : Bodies, cosignatures : SUBSET Witnesses]

\* consistency_proof_since over the entries of `tree`
Proofs == [from_size : {Len(h) : h \in Histories}, tree : Histories]

Accepted == [file : Files, log_key : Logs]

Remembered == [root : Histories, log_key : Logs]
StateEntries == Remembered \cup {None}

ASSUME ProofFilesAssumption == ProofFiles \subseteq Proofs
ASSUME NoneAssumption == None \notin Logs \cup Proofs \cup Remembered \cup Accepted

WitnessTypeOK ==
    /\ state \in [Witnesses -> [Logs -> StateEntries]]
    /\ cosigned \in SUBSET Files
    /\ phase \in [Runs -> {"idle", "grow", "same", "saved", "refused"}]
    /\ loaded \in [Runs -> [Logs -> StateEntries]]
    /\ accepted \in [Runs -> Accepted \cup {None}]

NothingSeen == [l \in Logs |-> None]

WitnessInit ==
    /\ state = [w \in Witnesses |-> NothingSeen]
    /\ cosigned = {}
    /\ phase = [r \in Runs |-> "idle"]
    /\ loaded = [r \in Runs |-> NothingSeen]
    /\ accepted = [r \in Runs |-> None]

-------------------------------------------------------------------------------
(* check: whether to cosign, in the order the code decides.                *)

\* The key the signature is checked under: given, remembered, or none
LogKey(seen, in) ==
    IF in.log_key # None THEN in.log_key
    ELSE IF seen[in.file.body.log_id] # None
           THEN seen[in.file.body.log_id].log_key
           ELSE None

\* The signature verifies under that key, and it is the key the log is named by
KeyAccepted(seen, in) == LogKey(seen, in) = in.file.body.log_id

\* Nothing cosigned for this log yet: it is trusted on first use
FirstUse(seen, body) == seen[body.log_id] = None

\* Mutant: the same size is taken for the same log
RepeatsSize(seen, body) ==
    seen[body.log_id] # None /\ Size(body) = Len(seen[body.log_id].root)

\* The same size again, with the same root (another root is a fork)
Repeats(seen, body) ==
    LET last == seen[body.log_id]
    IN  /\ last # None
        /\ Size(body) = Len(last.root)
        /\ body.root = last.root

\* Mutant: any larger size will do
ExtendsSize(seen, body, proof) ==
    seen[body.log_id] # None /\ Size(body) > Len(seen[body.log_id].root)

\* A larger size (a smaller one is a rollback), with a consistency proof of
\* that range that verify_consistency accepts for the two roots
ExtendsLast(seen, body, proof) ==
    LET last == seen[body.log_id]
    IN  /\ last # None
        /\ Size(body) > Len(last.root)
        /\ proof # None
        /\ proof.from_size = Len(last.root)
        /\ proof.tree = body.root
        /\ Prefix(last.root, proof.tree)

\* check returns with update = TRUE, or with update = FALSE
Grows(seen, in) ==
    /\ KeyAccepted(seen, in)
    /\ \/ FirstUse(seen, in.file.body)
       \/ ExtendsLast(seen, in.file.body, in.proof)

Same(seen, in) == KeyAccepted(seen, in) /\ Repeats(seen, in.file.body)

-------------------------------------------------------------------------------
(* cmd_cosign.                                                             *)

\* What may be handed to a witness: a fresh checkpoint of any history, or a
\* file another witness has cosigned; with any proof or none, any key or none
Presented ==
    [file : [body : Bodies, cosignatures : {{}}] \cup cosigned,
     proof : ProofFiles \cup {None},
     log_key : Logs \cup {None}]

\* Read the inputs and the state file, and decide to cosign
Accept(r, in) ==
    LET seen == state[Owner[r]]
    IN  /\ phase[r] = "idle"
        /\ \/ Grows(seen, in) /\ phase' = [phase EXCEPT ![r] = "grow"]
           \/ Same(seen, in)  /\ phase' = [phase EXCEPT ![r] = "same"]
        /\ loaded' = [loaded EXCEPT ![r] = seen]
        /\ accepted' = [accepted EXCEPT ![r] =
                           [file |-> in.file, log_key |-> LogKey(seen, in)]]
        /\ UNCHANGED <<state, cosigned>>

\* Refused: the process prints why and exits
Refuse(r, in) ==
    /\ phase[r] = "idle"
    /\ ~Grows(state[Owner[r]], in)
    /\ ~Same(state[Owner[r]], in)
    /\ phase' = [phase EXCEPT ![r] = "refused"]
    /\ UNCHANGED <<state, cosigned, loaded, accepted>>

\* Mutant: the log's key is not saved
SaveNoKey(r) ==
    LET body == accepted[r].file.body
    IN  /\ phase[r] = "grow"
        /\ state' = [state EXCEPT ![Owner[r]] =
                        [loaded[r] EXCEPT ![body.log_id] =
                            [root |-> body.root, log_key |-> None]]]
        /\ phase' = [phase EXCEPT ![r] = "saved"]
        /\ UNCHANGED <<cosigned, loaded, accepted>>

\* save_state: the loaded copy with this log's entry replaced, renamed into place
SaveState(r) ==
    LET body == accepted[r].file.body
    IN  /\ phase[r] = "grow"
        /\ state' = [state EXCEPT ![Owner[r]] =
                        [loaded[r] EXCEPT ![body.log_id] =
                            [root |-> body.root, log_key |-> accepted[r].log_key]]]
        /\ phase' = [phase EXCEPT ![r] = "saved"]
        /\ UNCHANGED <<cosigned, loaded, accepted>>

Forget(r) ==
    /\ phase' = [phase EXCEPT ![r] = "idle"]
    /\ loaded' = [loaded EXCEPT ![r] = NothingSeen]
    /\ accepted' = [accepted EXCEPT ![r] = None]

\* Write the file with this witness's cosignature beside those of the others
WriteOut(r) ==
    /\ phase[r] \in {"same", "saved"}
    /\ Cardinality(cosigned) < MaxFiles
    /\ cosigned' = cosigned \cup
          {[accepted[r].file EXCEPT !.cosignatures = @ \cup {Owner[r]}]}
    /\ Forget(r)
    /\ UNCHANGED state

\* The process ends without an output: after a refusal, because a key cannot
\* be read or a file cannot be written, or by a crash
Stop(r) ==
    /\ phase[r] # "idle"
    /\ Forget(r)
    /\ UNCHANGED <<state, cosigned>>

WitnessStep(r) ==
    \/ \E in \in Presented : Accept(r, in)
    \/ \E in \in Presented : Refuse(r, in)
    \/ SaveState(r)
    \/ WriteOut(r)
    \/ Stop(r)

WitnessNext == \E r \in Runs : WitnessStep(r)

WitnessSpec == WitnessInit /\ [][WitnessNext]_witnessVars

-------------------------------------------------------------------------------
(* verifier.py                                                             *)

\* cosigning_witnesses: every cosignature in a file of `cosigned` is genuine
CosigningWitnesses(file, trusted) == file.cosignatures \cap trusted

\* checkpoint_problem = None: the entries still start with the checkpoint
NoCheckpointProblem(body, entries) == Prefix(body.root, entries)

Accepts(file, entries) ==
    /\ NoCheckpointProblem(file.body, entries)
    /\ Cardinality(CosigningWitnesses(file, Witnesses)) >= Quorum

-------------------------------------------------------------------------------
(* Properties.                                                             *)

CosignedBy(w) == {f.body : f \in {g \in cosigned : w \in g.cosignatures}}

\* A witness never vouches for two histories of a log that contradict each
\* other, whatever it is shown, across refusals, crashes and repeated runs
\* (witness.py: "cosigns it only if it extends the last checkpoint").  Of runs of one
\* witness at a time: two that overlap can make it vouch for both of two forks.
OneHistory ==
    \A w \in Witnesses : \A b, c \in CosignedBy(w) :
        b.log_id = c.log_id => Comparable(b.root, c.root)

\* The state file covers everything the witness ever gave out: after a crash
\* at any step no cosignature is outside the remembered history.
StateCoversCosigned ==
    \A w \in Witnesses : \A b \in CosignedBy(w) :
        /\ state[w][b.log_id] # None
        /\ Prefix(b.root, state[w][b.log_id].root)

\* A run that saved the state but could not write its output can be repeated:
\* the same command is accepted and needs no update (cmd_cosign's last message).
RetryAccepted ==
    \A r \in Runs : phase[r] = "saved" =>
        \A key \in {accepted[r].file.body.log_id, None} :
            Same(state[Owner[r]], [file |-> accepted[r].file, proof |-> None,
                                   log_key |-> key])

\* What a witness remembers of a log only ever grows along one history.
RememberedOnlyGrows ==
    [][ \A w \in Witnesses, l \in Logs : state[w][l] # None =>
          /\ state'[w][l] # None
          /\ Prefix(state[w][l].root, state'[w][l].root)
          /\ state'[w][l].log_key = state[w][l].log_key ]_witnessVars

\* When any two quorums share a witness, two logs that the verifier accepts
\* against cosigned checkpoints agree wherever both checkpoints reach: a
\* history that a quorum cosigned cannot be replaced by another.
QuorumsIntersect == 2 * Quorum > Cardinality(Witnesses)

AcceptedLogsAgree ==
    \A f, g \in cosigned : \A d, e \in Histories :
        (f.body.log_id = g.body.log_id /\ Accepts(f, d) /\ Accepts(g, e)) =>
            \A i \in 1 .. Len(f.body.root) :
                i <= Len(g.body.root) => d[i] = e[i]
===============================================================================
