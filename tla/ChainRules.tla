------------------------------ MODULE ChainRules ------------------------------
(***************************************************************************)
(* The rules of the hash chain (src/vcoc/hash_chain.py): what an entry     *)
(* carries, what of it is hashed (models.py), how add_event makes one, and *)
(* what verify and verify_each say of a list of entries.                   *)
(*                                                                         *)
(* SHA-256 is ideal: the hash of a payload that names prev_hash is the     *)
(* history it commits to, so a hash IS the sequence of <<index, canonical  *)
(* payload>> pairs up to and including the entry, and two hashes are equal *)
(* exactly when these are.  The canonical payloads of two different rows   *)
(* may well be equal.  An ECDSA signature is the pair of the signer and    *)
(* the hash signed.                                                        *)
(***************************************************************************)
EXTENDS Integers, Sequences

CONSTANTS Payloads,     \* the columns of a row beside index, hashes and signature
          NULL          \* in a column

\* A text is the sequence of its pieces between the bars; the empty one has one.
Texts == Seq(STRING) \ {<<>>}
EmptyText == <<"">>

\* "notes" stands for case_number, tag and notes, which are treated alike; the
\* timestamp, one more text between the bars, is left out.
ASSUME PayloadsAssumption ==
    Payloads \subseteq [evidence_id: Texts \cup {NULL}, evidence_ids: Seq(Texts) \cup {NULL},
                       actor: Texts, action: Texts, notes: Texts \cup {NULL}]

\* What add_event makes and event_to_row writes: of one item, or of several
Events == {p \in Payloads : IF p.evidence_ids = NULL THEN p.evidence_id # NULL /\ p.notes = NULL
                                                     ELSE p.evidence_id = NULL}

\* canonical_payload: of one item the texts are joined with bars and nothing else is
\* hashed; of several a JSON object is made, in which an absent note is an empty one.
Canonical(p) ==
    IF p.evidence_ids = NULL
      THEN [joined |-> p.evidence_id \o p.actor \o p.action]
      ELSE [evidence_ids |-> p.evidence_ids, actor |-> p.actor, action |-> p.action,
            notes |-> IF p.notes = NULL THEN EmptyText ELSE p.notes]

Canonicals == {Canonical(p) : p \in Payloads}
Hashes     == Seq(Nat \X Canonicals)
Signatures == [signer: {"custodian", "nobody"}, over: Hashes]
Entries    == [index: Nat, payload: Payloads, prev_hash: Hashes,
               entry_hash: Hashes, signature: Signatures]

GenesisHash == <<>>

\* hash_bytes(entry.canonical_payload()): index and prev_hash are in the payload
PayloadHash(index, payload, prev) == Append(prev, <<index, Canonical(payload)>>)

Sign(h) == [signer |-> "custodian", over |-> h]

SignatureValid(entry) == entry.signature = Sign(entry.entry_hash)

\* Mutant: the stored hash is taken as it is
HashTrusted(entry) == TRUE

HashValid(entry) ==
    entry.entry_hash = PayloadHash(entry.index, entry.payload, entry.prev_hash)

\* HashChain.last_hash
LastHash(entries) ==
    IF entries = <<>> THEN GenesisHash ELSE entries[Len(entries)].entry_hash

\* Mutant: the index is that of the last entry
NewEntrySameIndex(entries, payload) ==
    LET index == IF entries = <<>> THEN 0 ELSE Len(entries) - 1
        h == PayloadHash(index, payload, LastHash(entries))
    IN  [index |-> index, payload |-> payload,
         prev_hash |-> LastHash(entries), entry_hash |-> h, signature |-> Sign(h)]

\* The entry add_event builds on top of `entries`
NewEntry(entries, payload) ==
    LET h == PayloadHash(Len(entries), payload, LastHash(entries))
    IN  [index |-> Len(entries), payload |-> payload,
         prev_hash |-> LastHash(entries), entry_hash |-> h,
         signature |-> Sign(h)]

-------------------------------------------------------------------------------
(* verify and verify_each.  `expected_prev` is the stored entry_hash of the *)
(* entry before, whether or not that entry was good.                        *)

ExpectedPrev(entries, i) ==
    IF i = 1 THEN GenesisHash ELSE entries[i - 1].entry_hash

Linked(entries, i) == entries[i].prev_hash = ExpectedPrev(entries, i)

\* Mutant: the signature is not checked
EntryUnsigned(entries, i) == Linked(entries, i) /\ HashValid(entries[i])

EntrySound(entries, i) ==
    /\ Linked(entries, i)
    /\ HashValid(entries[i])
    /\ SignatureValid(entries[i])

NoIndex == -1   \* None in the code

ChainSound(entries) == \A i \in 1 .. Len(entries) : EntrySound(entries, i)

\* verify: the index of the first entry that fails, and the first check it fails
Verify(entries) ==
    IF ChainSound(entries)
      THEN [ok |-> TRUE, at |-> NoIndex, reason |-> "chain verified"]
      ELSE LET k == CHOOSE i \in 1 .. Len(entries) :
                       /\ ~EntrySound(entries, i)
                       /\ \A j \in 1 .. i - 1 : EntrySound(entries, j)
           IN  [ok |-> FALSE, at |-> entries[k].index,
                reason |-> IF ~Linked(entries, k)        THEN "prev_hash"
                           ELSE IF ~HashValid(entries[k]) THEN "entry_hash"
                           ELSE "signature"]

\* Mutant: the entry itself counts as upstream
UpstreamOrSelf(entries, i) == \E j \in 1 .. i : ~EntrySound(entries, j)

\* verify_each: every reason of every entry, in the order it is appended
Upstream(entries, i) == \E j \in 1 .. i - 1 : ~EntrySound(entries, j)

ReasonIf(fails, reason) == IF fails THEN <<reason>> ELSE <<>>

Reasons(entries, i) ==
    ReasonIf(~Linked(entries, i), "prev_hash")
      \o ReasonIf(~HashValid(entries[i]), "entry_hash")
      \o ReasonIf(~SignatureValid(entries[i]), "signature")
      \o ReasonIf(Upstream(entries, i), "upstream")

VerifyEach(entries) == [i \in 1 .. Len(entries) |-> Reasons(entries, i)]
===============================================================================
