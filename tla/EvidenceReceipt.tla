-------------------------- MODULE EvidenceReceipt --------------------------
(***************************************************************************)
(* Emitting audit entries, sealing a window of the ledger into a signed    *)
(* receipt, exporting the ledger to a file and verifying the receipt later *)
(* against the ledger, which has grown, or against the file, which may     *)
(* have been edited.  Policies that share a ledger emit concurrently: the  *)
(* entry is appended under the ledger's lock and written to the audit file *)
(* after it.                                                               *)
(***************************************************************************)
EXTENDS AuditLedger, FiniteSets

CONSTANTS Emitter,    \* threads calling AuditPolicy::emit
          None,
          MaxEntries, \* bound: entries of a ledger nobody has sealed or exported
          MaxSealed,  \* bound: entries of one that is sealed or exported
          MaxEdits    \* bound: edits of the exported file and of the receipt

ASSUME EvidenceAssumption ==
    /\ MaxSealed \in Nat /\ MaxEntries \in Nat /\ MaxSealed <= MaxEntries /\ MaxEdits \in Nat
    /\ IsFiniteSet(Emitter) /\ None \notin Entry

VARIABLES ledger,    \* the shared ledger
          emitter,   \* what each emitter has sealed and not yet written
          trail,     \* how often each entry is in the audit file
          receipt,   \* the latest receipt, None before the first
          sealed,    \* history variable: that receipt and the entries it was made of
          exported,  \* the exported file, a sequence of [seq, entry]; None before
          edits      \* edits so far

vars == <<ledger, emitter, trail, receipt, sealed, exported, edits>>

Init ==
    /\ ledger = NewLedger
    /\ emitter = [p \in Emitter |-> None]
    /\ trail = [e \in Entry |-> 0]
    /\ receipt = None
    /\ sealed = None
    /\ exported = None
    /\ edits = 0

Length == Len(ledger.entries)

-----------------------------------------------------------------------------
(* AuditPolicy::emit *)

WriteFirst(p, entry) ==  \* mutant: the line is written before the entry is sealed
    /\ trail' = [trail EXCEPT ![entry] = @ + 1]
    /\ emitter' = [emitter EXCEPT ![p] = entry]
    /\ UNCHANGED ledger
SealThenWrite(p, entry) ==
    /\ ledger' = AppendEntry(ledger, entry)
    /\ emitter' = [emitter EXCEPT ![p] = entry]
    /\ UNCHANGED trail

Emit(p, entry) ==
    /\ emitter[p] = None
    /\ Length < IF receipt = None /\ exported = None THEN MaxEntries ELSE MaxSealed
    /\ SealThenWrite(p, entry)
    /\ UNCHANGED <<receipt, sealed, exported, edits>>

\* An error of the file is ignored: the line is lost.
Dispatch(p) ==
    /\ emitter[p] # None
    /\ \/ trail' = [trail EXCEPT ![emitter[p]] = @ + 1]
       \/ trail' = trail
    /\ emitter' = [emitter EXCEPT ![p] = None]
    /\ UNCHANGED <<ledger, receipt, sealed, exported, edits>>

-----------------------------------------------------------------------------
(* Sealing and verifying *)

\* receipt_binding; an Ed25519 signature is what was signed.  There is one
\* prover, hence one key.
Binding(root, start, end, len) == [root |-> root, start |-> start, end |-> end, len |-> len]

InRange(start, end, n) == start <= end /\ end < n

WindowRoot(entries, start, end) ==
    IF InRange(start, end, Len(entries))
    THEN MerkleRoot(SubSeq(entries, start + 1, end + 1)) ELSE Zero

\* Inclusion proofs are of the whole ledger; those wanted past it are left out.
Receipt(entries, start, end, wanted) ==
    LET root == WindowRoot(entries, start, end)
        n    == Len(entries)
    IN  [root |-> root, start |-> start, end |-> end, len |-> n,
         signature  |-> Binding(root, start, end, n),
         inclusions |-> {[seq |-> i, self |-> entries[i + 1].self,
                          path |-> MerkleProof(entries, i)] : i \in {j \in wanted : j < n}}]

Unsigned(r, root) == TRUE  \* mutant: the signature is not checked
Signed(r, root)   == r.signature = Binding(root, r.start, r.end, r.len)

ButTheLast(inc, entries) ==  \* mutant: the last entry is taken to be out of bounds
    /\ inc.seq + 1 < Len(entries)
    /\ entries[inc.seq + 1].self = inc.self
    /\ VerifyMerkleProof(inc.self, inc.seq, Len(entries), inc.path, MerkleRoot(entries))
Included(inc, entries) ==
    /\ inc.seq < Len(entries)
    /\ entries[inc.seq + 1].self = inc.self
    /\ VerifyMerkleProof(inc.self, inc.seq, Len(entries), inc.path, MerkleRoot(entries))

\* Ed25519Verifier::verify returns Ok.
Verify(r, entries) ==
    LET root == WindowRoot(entries, r.start, r.end)
    IN  /\ r.len = Len(entries)
        /\ InRange(r.start, r.end, Len(entries))
        /\ root = r.root
        /\ Signed(r, root)
        /\ \A inc \in r.inclusions : Included(inc, entries)

\* rebuild_ledger: the lines in order, appended again; an error when a seq is off.
Parses(lines)  == \A i \in DOMAIN lines : lines[i].seq = i - 1
Rebuild(lines) ==
    LET after[i \in 0 .. Len(lines)] ==
          IF i = 0 THEN NewLedger ELSE AppendEntry(after[i - 1], lines[i].entry)
    IN  after[Len(lines)]

\* Which ledgers the prover and the verifier are given.
Given == {ledger.entries} \cup
           IF exported # None /\ Parses(exported) THEN {Rebuild(exported).entries} ELSE {}

Seal(entries, start, end, wanted) ==
    /\ entries \in Given /\ Len(entries) <= MaxSealed
    /\ InRange(start, end, Len(entries))
    /\ receipt' = Receipt(entries, start, end, wanted)
    /\ sealed' = [receipt |-> receipt', entries |-> entries]
    /\ UNCHANGED <<ledger, emitter, trail, exported, edits>>

Export ==
    /\ Length <= MaxSealed
    /\ exported' = [i \in DOMAIN ledger.entries |->
                      [seq |-> ledger.entries[i].seq, entry |-> ledger.entries[i].entry]]
    /\ UNCHANGED <<ledger, emitter, trail, receipt, sealed, edits>>

-----------------------------------------------------------------------------
(* Files that were edited between two uses *)

Renumbered(lines) == [i \in DOMAIN lines |-> [lines[i] EXCEPT !.seq = i - 1]]

Edited(lines) ==
    {[lines EXCEPT ![i].entry = e] : i \in DOMAIN lines, e \in Entry}
      \cup {RemoveAt(lines, i) : i \in DOMAIN lines}
      \cup {Renumbered(RemoveAt(lines, i)) : i \in DOMAIN lines}

EditFile ==
    /\ exported # None /\ edits < MaxEdits
    /\ edits' = edits + 1
    /\ exported' \in Edited(exported)
    /\ UNCHANGED <<ledger, emitter, trail, receipt, sealed>>

\* What whoever has a ledger can put together: any leaf at any place with the
\* path of any entry, the right one included.
Inclusions(entries) ==
    {[seq |-> i - 1, self |-> entries[j].self, path |-> MerkleProof(entries, k - 1)] :
       i, j, k \in DOMAIN entries}

\* Only part of a receipt is signed; its inclusions are not.
EditReceipt ==
    /\ receipt # None /\ edits < MaxEdits
    /\ edits' = edits + 1
    /\ \/ \E n \in 0 .. MaxSealed :
            receipt' \in {[receipt EXCEPT !.start = n], [receipt EXCEPT !.end = n],
                          [receipt EXCEPT !.len = n]}
       \/ \E entries \in Given :
            \/ receipt' = [receipt EXCEPT !.root = WindowRoot(entries, receipt.start, receipt.end)]
            \/ \E inc \in Inclusions(entries) : receipt' = [receipt EXCEPT !.inclusions = @ \cup {inc}]
       \/ \E inc \in receipt.inclusions : receipt' = [receipt EXCEPT !.inclusions = @ \ {inc}]
    /\ UNCHANGED <<ledger, emitter, trail, sealed, exported>>

Next ==
    \/ \E p \in Emitter, entry \in Entry : Emit(p, entry)
    \/ \E p \in Emitter : Dispatch(p)
    \/ \E entries \in Given, start, end \in 0 .. MaxSealed, wanted \in {{}, 0 .. MaxSealed} :
         Seal(entries, start, end, wanted)
    \/ Export
    \/ EditFile
    \/ EditReceipt

Spec == Init /\ [][Next]_vars

-----------------------------------------------------------------------------
(* Properties *)

\* Type invariant: the ledger's chain of hashes, lines and windows within bounds.
TypeOK ==
    /\ Length \in 0 .. MaxEntries
    /\ \A i \in 1 .. Length :
         ledger.entries[i].entry \in Entry /\ Len(ledger.entries[i].self) = i
    /\ emitter \in [Emitter -> Entry \cup {None}]
    /\ trail \in [Entry -> 0 .. MaxEntries]
    /\ sealed # None => InRange(sealed.receipt.start, sealed.receipt.end, sealed.receipt.len)
    /\ exported # None => \A i \in DOMAIN exported : exported[i].seq \in 0 .. MaxSealed - 1
    /\ edits \in 0 .. MaxEdits

\* The ledger's four invariants and its head, however many policies share it.
ChainSound ==
    /\ VerifyChain(ledger)
    /\ ledger.last = IF Length = 0 THEN Zero ELSE ledger.entries[Length].self

\* Every entry has a proof of inclusion, for every length of the ledger, and the
\* proof is of that entry at that place and of no other.
EntriesProvable ==
    LET entries == ledger.entries
        root    == MerkleRoot(entries)
    IN  \A k \in 1 .. Length :
          LET proof == MerkleProof(entries, k - 1)
          IN  \A i, j \in 1 .. Length :
                VerifyMerkleProof(entries[i].self, j - 1, Length, proof, root) <=> i = k /\ j = k

\* What is in the audit file or about to be written was sealed in the chain
\* first, once for each time.
DispatchedWasSealed ==
    \A e \in Entry :
      trail[e] + Cardinality({p \in Emitter : emitter[p] = e})
        <= Cardinality({i \in 1 .. Length : ledger.entries[i].entry = e})

\* A receipt that verifies says what was signed, whoever edited it, and the ledger
\* it is verified with is, up to the end of the window and of every entry the
\* prover included, the ledger that was sealed: also the entries before the
\* window.  An inclusion that was added later says of its entry no more than that
\* it is in the ledger supplied.
ReceiptMeansUnchanged ==
    sealed # None =>
      \A entries \in {es \in Given : Verify(receipt, es)} :
        LET upTo(n) == SubSeq(entries, 1, n) = SubSeq(sealed.entries, 1, n)
        IN  /\ \A field \in {"root", "start", "end", "len"} :
                 receipt[field] = sealed.receipt[field]
            /\ Len(entries) = Len(sealed.entries)
            /\ upTo(receipt.end + 1)
            /\ \A inc \in receipt.inclusions \cap sealed.receipt.inclusions : upTo(inc.seq + 1)

\* A receipt nobody edited verifies with every ledger equal to the sealed one:
\* rebuilt from a file, in another process, or still in memory.
UneditedVerifies ==
    sealed # None /\ receipt = sealed.receipt /\ sealed.entries \in Given =>
      Verify(receipt, sealed.entries)

=============================================================================
