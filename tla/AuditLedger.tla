---------------------------- MODULE AuditLedger ----------------------------
(***************************************************************************)
(* The audit ledger of epica-contracts as a value: a hash chain of audit   *)
(* entries, its Merkle root, and inclusion proofs.  A hash is the value    *)
(* that was hashed, since the hash functions have no collisions to speak   *)
(* of: the hash of an entry is the chain of the entries up to it, that of  *)
(* a leaf or of an inner node is tagged with its domain.                   *)
(***************************************************************************)
EXTENDS Integers, Sequences, SequencesExt

CONSTANT Entry  \* audit entries

Zero == <<>>  \* [0; 32]

HashEntry(prev, entry) == Append(prev, entry)

LeafHash(h)    == <<"leaf", h>>
NodeHash(l, r) == <<"node", l, r>>

NewLedger == [entries |-> <<>>, last |-> Zero]

Unlinked(l, entry) ==  \* mutant: last_hash is not advanced
    [l EXCEPT !.entries = Append(@, [seq |-> Len(l.entries), entry |-> entry, prev |-> l.last,
                                     self |-> HashEntry(l.last, entry)])]
AppendEntry(l, entry) ==
    LET self == HashEntry(l.last, entry)
    IN  [entries |-> Append(l.entries, [seq |-> Len(l.entries), entry |-> entry,
                                        prev |-> l.last, self |-> self]),
         last    |-> self]

\* verify_chain: each entry is in its place, linked, and hashes to what it says.
VerifyChain(l) ==
    \A i \in DOMAIN l.entries :
      LET e == l.entries[i]
      IN  /\ e.seq = i - 1
          /\ e.prev = IF i = 1 THEN Zero ELSE l.entries[i - 1].self
          /\ e.self = HashEntry(e.prev, e.entry)

-----------------------------------------------------------------------------
(* The Merkle tree.  Levels go up until one node is left; the last node of *)
(* an odd level is its own sibling.                                        *)

Leaves(entries) == [i \in DOMAIN entries |-> LeafHash(entries[i].self)]

RoundedUp(size) == (size + 1) \div 2

Above(level) ==
    [i \in 1 .. RoundedUp(Len(level)) |->
       NodeHash(level[2 * i - 1],
                IF 2 * i <= Len(level) THEN level[2 * i] ELSE level[2 * i - 1])]

\* On the way from a leaf upwards: the place in each level, and its size.
Paths(seq, height) ==
    LET path[k \in 0 .. height] == IF k = 0 THEN seq ELSE path[k - 1] \div 2
    IN  path
Sizes(n, height) ==
    LET size[k \in 0 .. height] == IF k = 0 THEN n ELSE RoundedUp(size[k - 1])
    IN  size

\* How many levels lie above n leaves: they go up while there are two nodes.
Height(n) ==
    LET size == Sizes(n, n)
    IN  CHOOSE k \in 0 .. n : size[k] = 1 /\ \A j \in 0 .. k - 1 : size[j] > 1

Levels(entries) ==
    LET up[k \in 0 .. Height(Len(entries))] ==
          IF k = 0 THEN Leaves(entries) ELSE Above(up[k - 1])
    IN  up

MerkleRoot(entries) ==
    IF entries = <<>> THEN Zero ELSE Levels(entries)[Height(Len(entries))][1]

Neighbour(path, size) ==  \* mutant: an odd tail takes the node on its left
    IF path % 2 = 0 /\ path + 1 < size THEN path + 1 ELSE path - 1
Sibling(path, size) ==
    IF path % 2 = 1 THEN path - 1 ELSE IF path + 1 < size THEN path + 1 ELSE path

\* merkle_proof(seq), for a seq in range: the siblings from the leaf upwards.
MerkleProof(entries, seq) ==
    LET height == Height(Len(entries))
        path   == Paths(seq, height)
        size   == Sizes(Len(entries), height)
        levels == Levels(entries)
    IN  [k \in 1 .. height |-> levels[k - 1][Sibling(path[k - 1], size[k - 1]) + 1]]

\* verify_merkle_proof: the hashes from the leaf upwards, the last one the root.
Hashes(self, seq, proof) ==
    LET path == Paths(seq, Len(proof))
        hash[k \in 0 .. Len(proof)] ==
          IF k = 0 THEN LeafHash(self)
          ELSE IF path[k - 1] % 2 = 0 THEN NodeHash(hash[k - 1], proof[k])
               ELSE NodeHash(proof[k], hash[k - 1])
    IN  hash

VerifyMerkleProof(self, seq, n, proof, root) ==
    LET height == Len(proof)
    IN  seq < n /\ Sizes(n, height)[height] = 1 /\ Hashes(self, seq, proof)[height] = root

=============================================================================
