------------------------------ MODULE StoreReports ------------------------------
(***************************************************************************)
(* The commands of cli.py that read the store while other processes write  *)
(* it: merkle-proof and export.  Each of their SELECTs is a read of its    *)
(* own, with no transaction around them, so a commit may fall between any  *)
(* two; and what verifier.py makes of the files they leave.                *)
(***************************************************************************)
EXTENDS EvidenceStore

CONSTANTS Provers,     \* processes that run merkle-proof
          Exporters    \* processes that run export

VARIABLES report       \* what a reader has read, and what it wrote at the end

allvars == <<vars, report>>

Readers == Provers \cup Exporters
NoReport == [op |-> "none"]

ReportsInit == Init /\ report = [r \in Readers |-> NoReport]

\* The ids of the groups: COALESCE(NULLIF(folder_id, ''), evidence_id)
GroupIds(rows) == {IF rows[id].folder_id # NoFolder THEN rows[id].folder_id ELSE id :
                     id \in DOMAIN rows}

\* iter_group_leaves, group_leaves: the groups in order, each with its leaf,
\* COALESCE(f.root, e.sha256)
GroupLeaves(rows, subtrees) ==
    LET gids == InOrder(GroupIds(rows))
    IN  [i \in DOMAIN gids |->
           <<gids[i], IF gids[i] \in DOMAIN subtrees THEN subtrees[gids[i]].root
                      ELSE rows[gids[i]].sha256>>]

RootOver(items) == IF items = <<>> THEN NoNode ELSE Root(Leaves(items))

-------------------------------------------------------------------------------
(* merkle-proof.                                                            *)

GetEvidence(p, id) ==
    /\ report[p] = NoReport /\ id \in DOMAIN evidence
    /\ report' = [report EXCEPT ![p] = [op |-> "proof", id |-> id, rec |-> evidence[id]]]

\* Of a folder's member: its proof in the folder.  KeyError: the row is left over
\* from an earlier registration and no member of the folder.  No version is asked for
\* here.  For the property below: the folder's row, and whether it holds what is proved
ProveMember(p) ==
    LET id == report[p].id
        f  == report[p].rec.folder_id
        local == ProofStream(MemberLeaves(f), id)
    IN  /\ f # NoFolder
        /\ report' = [report EXCEPT ![p] =
             IF local = NotFound THEN [op |-> "KeyError"]
             ELSE Put([op |-> "member", local |-> local, folder_row |-> folders[f],
                       holds |-> /\ version = 2 /\ f \notin stale
                                 /\ evidence[id] = report[p].rec], @)]

\* What a proof needs in order to verify.  Of a member: when its folder was read, the
\* evidence was what it was at first and the folder's root held, by the rules of
\* version 2; the folder was not written since, and is not the only group.  Of a
\* single file: it was not written again, and no folder has its id (the folder's root
\* would be the leaf)
Provable(p) ==
    LET id == report[p].id
        f  == report[p].rec.folder_id
    IN  IF f = NoFolder THEN evidence[id] = report[p].rec /\ id \notin DOMAIN folders
        ELSE /\ report[p].holds /\ folders[f] = report[p].folder_row
             /\ Cardinality(GroupIds(evidence)) > 1

\* The proof among the groups, and the proof as it is written; the group of the id
\* may be gone from the groups (KeyError) if the file became a folder's member
ProveGroup(p) ==
    LET f      == report[p].rec.folder_id
        nested == f # NoFolder
        group  == ProofStream(GroupLeaves(evidence, folders), IF nested THEN f ELSE report[p].id)
        Written(leaf, local, subtree, folder) ==
          [op |-> "proved", id |-> report[p].id, rec |-> report[p].rec, leaf |-> leaf,
           root |-> group.root, provable |-> Provable(p),
           proof |-> [local_proof |-> local, subtree_root |-> subtree, folder_proof |-> folder]]
    IN  /\ report[p].op = (IF nested THEN "member" ELSE "proof") /\ version = 2
        /\ report' = [report EXCEPT ![p] =
             IF group = NotFound THEN [op |-> "KeyError"]
             ELSE IF nested
               THEN Written(report[p].local.leaf, report[p].local.proof, report[p].local.root,
                            group.proof)
               ELSE Written(report[p].rec.sha256, group.proof, group.root, <<>>)]

-------------------------------------------------------------------------------
(* export: three files, then the anchor.                                    *)

ExportLog(e) ==
    /\ report[e] = NoReport
    /\ report' = [report EXCEPT ![e] = [op |-> "log", custody_log |-> log]]

ExportEvidence(e) ==
    /\ report[e].op = "log"
    /\ report' = [report EXCEPT ![e] = Put([op |-> "evidence", evidence_index |-> evidence], @)]

ExportFolders(e) ==
    /\ report[e].op = "evidence" /\ version = 2
    /\ report' = [report EXCEPT ![e] = Put([op |-> "folders", folder_index |-> folders], @)]

\* Mutant: the log is read when the anchor is made of it
WriteAnchorAndLog(e) ==
    /\ report[e].op = "folders" /\ version = 2
    /\ report' = [report EXCEPT ![e] =
         Put([op |-> "exported", custody_log |-> log,
              merkle_root |-> RootOver(GroupLeaves(evidence, folders))], @)]

WriteAnchor(e) ==
    /\ report[e].op = "folders" /\ version = 2
    /\ report' = [report EXCEPT ![e] =
         Put([op |-> "exported", merkle_root |-> RootOver(GroupLeaves(evidence, folders))], @)]

\* The reader ends, at the end or before it (LegacyMerkleFormat, a crash)
CloseReport(r) ==
    /\ report[r] # NoReport
    /\ report' = [report EXCEPT ![r] = NoReport]

ReportStep ==
    \/ \E p \in Provers : \/ \E id \in DOMAIN evidence : GetEvidence(p, id)
                          \/ report[p].op = "proof" /\ ProveMember(p)
                          \/ report[p].op \in {"proof", "member"} /\ ProveGroup(p)
    \/ \E e \in Exporters : \/ ExportLog(e)
                            \/ ExportEvidence(e)
                            \/ ExportFolders(e)
                            \/ WriteAnchor(e)
    \/ \E r \in Readers : CloseReport(r)

ReportsNext == \/ Next /\ UNCHANGED report
               \/ ReportStep /\ UNCHANGED vars

ReportsSpec == ReportsInit /\ [][ReportsNext]_allvars

-------------------------------------------------------------------------------
(* What verifier.py looks up in the files.                                  *)

\* The end of _verify_records: each of grouped_ids has a root in folder_index or a
\* digest in the index of the evidence; else it ends in a KeyError and says nothing
LeavesFound(index, folder_index) ==
    \A gid \in {IF index[id].folder_id # NoFolder THEN index[id].folder_id ELSE id :
                  id \in DOMAIN index} :
      gid \in DOMAIN folder_index \cup DOMAIN index

\* logged_ids: the folders that entries name, each of which counts for a member
\* only if folder_index has it too
LoggedFound(custody_entries, folder_index) ==
    \A i \in DOMAIN custody_entries : custody_entries[i].evidence_id \in DOMAIN folder_index

-------------------------------------------------------------------------------
(* Properties.                                                             *)

ReportsTypeOK ==
    /\ TypeOK
    /\ \A r \in Readers : report[r].op \in {"none", "proof", "member", "proved", "KeyError",
                                            "log", "evidence", "folders", "exported"}

\* The folders, with the types of the store and of its reports.
ReportsInv == ReportsTypeOK /\ FoldersAreWhole

Proved(p)   == report[p].op = "proved"
Verifies(p) == VerifyNestedProof(report[p].leaf, report[p].proof, report[p].root)

\* README, merkle.py: it "produces/verifies inclusion proofs, so you can prove a
\* specific file was part of the evidence set".
ProofVerifies == \A p \in Provers : Proved(p) => Verifies(p)

\* A proof merkle-proof writes verifies, and its leaf is the digest on record,
\* whatever else is committed while it is made, in every case Provable allows.
ProofVerifiesAmongGroups ==
    \A p \in Provers :
      Proved(p) /\ report[p].provable => Verifies(p) /\ report[p].leaf = report[p].rec.sha256

\* The files of one export hold together, though each is read by itself while folders
\* are registered, logged and converted: verifier.py finds a leaf for every group of
\* the evidence, and every event of the log names a folder the export has.  It is so
\* because cmd_export reads the log first and the folders last, and no folder goes.
ExportHoldsTogether ==
    \A e \in Exporters :
      LET r == report[e]
      IN  r.op = "exported" => /\ LeavesFound(r.evidence_index, r.folder_index)
                               /\ LoggedFound(r.custody_log, r.folder_index)
===============================================================================
