----------------------- MODULE EvidenceReceipt_proofs -----------------------
(***************************************************************************)
(* Theorems about EvidenceReceipt for any number of emitters and entries   *)
(* and for ledgers of any length: the shared ledger is always a sound      *)
(* chain, no line of the audit file is missing from it, an inclusion proof *)
(* proves its entry and no other, a receipt that verifies names the ledger *)
(* that was sealed, and one nobody edited verifies.                        *)
(*                                                                         *)
(* The trees are walked by functions defined on 0 .. Height: what holds at *)
(* every level is proved by induction over that segment, upwards for what  *)
(* is computed and downwards for what an equal root says of the leaves.    *)
(***************************************************************************)
EXTENDS EvidenceReceipt, FiniteSetTheorems, WellFoundedInduction, SequenceTheorems, TLAPS

-----------------------------------------------------------------------------
(* Induction and recursion over 0 .. n *)

\* A non-empty set of naturals has a least member: its segments are finite
\* sets, well-founded under strict inclusion.
LEMMA Least ==
    ASSUME NEW T \in SUBSET Nat, T # {}
    PROVE  \E m \in T : \A k \in T : m <= k
<1>1. PICK n \in T : TRUE
    OBVIOUS
<1> DEFINE R == StrictSubsetOrdering(Nat)
           S == FiniteSubsetsOf(Nat)
           U == {0 .. k : k \in T}
<1>2. IsWellFoundedOn(R, S)
    BY FS_StrictSubsetOrderingWellFounded
<1>3. U \subseteq S /\ U # {}
  <2>1. \A k \in T : 0 .. k \in SUBSET Nat /\ IsFiniteSet(0 .. k)
      BY FS_Interval
  <2> QED
      BY <1>1, <2>1 DEF FiniteSubsetsOf
<1>4. \E x \in U : \A y \in U : <<y, x>> \notin R
  <2> HIDE DEF R, S, U
  <2> QED
      BY <1>2, <1>3, WFMin
<1>5. PICK m \in T : \A k \in T : <<0 .. k, 0 .. m>> \notin R
    BY <1>4
<1>6. ASSUME NEW k \in T, k < m
      PROVE  FALSE
  <2>1. 0 .. k \subseteq 0 .. m /\ 0 .. k # 0 .. m
      BY <1>6
  <2>2. 0 .. k \subseteq Nat /\ 0 .. m \subseteq Nat
      OBVIOUS
  <2> QED
      BY <1>5, <2>1, <2>2 DEF StrictSubsetOrdering
<1>7. \A k \in T : m <= k
    BY <1>6
<1> QED
    BY <1>7

\* A set that holds 0 and is closed under successor below n holds 0 .. n.
LEMMA SegmentInduction ==
    ASSUME NEW n \in Nat, NEW T, 0 \in T, \A i \in 0 .. n - 1 : i \in T => i + 1 \in T
    PROVE  0 .. n \subseteq T
<1> DEFINE U == (0 .. n) \ T
<1>1. SUFFICES ASSUME U # {} PROVE FALSE
    OBVIOUS
<1>2. PICK m \in U : \A k \in U : m <= k
  <2>1. U \in SUBSET Nat
      OBVIOUS
  <2> HIDE DEF U
  <2> QED
      BY <1>1, <2>1, Least
<1>3. m \in 1 .. n /\ m - 1 \in T
    BY <1>2
<1>4. (m - 1) + 1 \in T
    BY <1>3
<1> QED
    BY <1>2, <1>3, <1>4

\* f starts at base and goes from f[i - 1] to f[i] by the step for i.
Steps(n, S) == [(1 .. n) \X S -> S]
Iterates(f, n, S, base, step) ==
    /\ f \in [0 .. n -> S]
    /\ f[0] = base
    /\ \A i \in 1 .. n : f[i] = step[<<i, f[i - 1]>>]

\* A base and a step define a function on 0 .. n.
LEMMA SegmentRecursion ==
    ASSUME NEW n \in Nat, NEW S, NEW base \in S, NEW step \in Steps(n, S)
    PROVE  \E f : Iterates(f, n, S, base, step)
<1> USE DEF Steps
<1> DEFINE Solves(f, k) == Iterates(f, k, S, base, step)
           T == {k \in 0 .. n : \E f : Solves(f, k)}
<1> USE DEF Iterates
<1>1. 0 \in T
  <2> DEFINE f == [i \in 0 .. 0 |-> base]
  <2>1. Solves(f, 0)
      OBVIOUS
  <2> HIDE DEF f, Iterates
  <2> QED
      BY <2>1
<1>2. ASSUME NEW k \in 0 .. n - 1, k \in T
      PROVE  k + 1 \in T
  <2>1. PICK f : Solves(f, k)
      BY <1>2
  <2> DEFINE g == [i \in 0 .. k + 1 |-> IF i <= k THEN f[i] ELSE step[<<k + 1, f[k]>>]]
  <2>2. f[k] \in S /\ \A i \in 0 .. k : g[i] = f[i] /\ f[i] \in S
      BY <2>1
  <2>3. step[<<k + 1, f[k]>>] \in S
      BY <2>2
  <2>4. g \in [0 .. k + 1 -> S] /\ g[k + 1] = step[<<k + 1, g[k]>>]
    <3>1. \A i \in 0 .. k + 1 : (IF i <= k THEN f[i] ELSE step[<<k + 1, f[k]>>]) \in S
      <4> SUFFICES ASSUME NEW i \in 0 .. k + 1
                   PROVE  (IF i <= k THEN f[i] ELSE step[<<k + 1, f[k]>>]) \in S
          OBVIOUS
      <4>1. CASE i <= k
        <5>1. i \in 0 .. k
            BY <4>1
        <5>2. f[i] \in S
            BY <2>2, <5>1
        <5> QED
            BY <4>1, <5>2
      <4>2. CASE ~(i <= k)
          BY <2>3, <4>2
      <4> QED
          BY <4>1, <4>2
    <3>2. g[k] = f[k] /\ g[k + 1] = step[<<k + 1, f[k]>>]
        BY <2>2
    <3> QED
        BY <3>1, <3>2
  <2>5. \A i \in 1 .. k : g[i] = step[<<i, g[i - 1]>>]
    <3> SUFFICES ASSUME NEW i \in 1 .. k PROVE g[i] = step[<<i, g[i - 1]>>]
        OBVIOUS
    <3>1. i \in 0 .. k /\ i - 1 \in 0 .. k
        OBVIOUS
    <3>2. g[i] = f[i] /\ g[i - 1] = f[i - 1]
        BY <2>2, <3>1
    <3> QED
        BY <2>1, <3>2
  <2>6. g[0] = base
      BY <2>1, <2>2
  <2> HIDE DEF g
  <2>7. \A i \in 1 .. k + 1 : g[i] = step[<<i, g[i - 1]>>]
    <3> SUFFICES ASSUME NEW i \in 1 .. k + 1 PROVE g[i] = step[<<i, g[i - 1]>>]
        OBVIOUS
    <3>1. CASE i = k + 1
        BY <2>4, <3>1
    <3>2. CASE i # k + 1
        BY <2>5, <3>2
    <3> QED
        BY <3>1, <3>2
  <2>8. Solves(g, k + 1)
      BY <2>4, <2>6, <2>7
  <2> HIDE DEF Iterates
  <2> QED
      BY <2>8
<1>3. n \in T
  <2> HIDE DEF T
  <2> QED
      BY <1>1, <1>2, SegmentInduction
<1> HIDE DEF Iterates
<1> QED
    BY <1>3

-----------------------------------------------------------------------------
(* The ledger *)

Sealing == [seq : Nat, entry : Entry, prev : Seq(Entry), self : Seq(Entry)]

Chain(entries) ==
    /\ entries \in Seq(Sealing)
    /\ \A i \in 1 .. Len(entries) :
         /\ entries[i].seq = i - 1
         /\ entries[i].prev = IF i = 1 THEN Zero ELSE entries[i - 1].self
         /\ entries[i].self = HashEntry(entries[i].prev, entries[i].entry)

LEMMA SealingFields ==
    ASSUME NEW x \in Sealing
    PROVE  /\ x.seq \in Nat /\ x.entry \in Entry /\ x.prev \in Seq(Entry) /\ x.self \in Seq(Entry)
           /\ x = [seq |-> x.seq, entry |-> x.entry, prev |-> x.prev, self |-> x.self]
BY DEF Sealing

LEMMA ChainFields ==
    ASSUME NEW a, Chain(a), NEW i \in 1 .. Len(a)
    PROVE  /\ a[i] \in Sealing /\ a[i].seq = i - 1
           /\ a[i].entry \in Entry /\ a[i].prev \in Seq(Entry) /\ a[i].self \in Seq(Entry)
           /\ a[i].prev = IF i = 1 THEN Zero ELSE a[i - 1].self
           /\ a[i].self = Append(a[i].prev, a[i].entry)
<1>1. a[i] \in Sealing
    BY DEF Chain
<1> QED
    BY <1>1, SealingFields DEF Chain, HashEntry

\* The hash of an entry tells its place.
LEMMA ChainLengths ==
    ASSUME NEW a, Chain(a)
    PROVE  \A i \in 1 .. Len(a) : Len(a[i].self) = i
<1> DEFINE n == Len(a)
           T == {i \in 0 .. n : i = 0 \/ Len(a[i].self) = i}
<1>1. n \in Nat
    BY DEF Chain
<1>2. \A i \in 1 .. n : /\ a[i].prev \in Seq(Entry) /\ a[i].entry \in Entry
                        /\ a[i].prev = IF i = 1 THEN Zero ELSE a[i - 1].self
                        /\ a[i].self = Append(a[i].prev, a[i].entry)
    BY ChainFields
<1> HIDE DEF n
<1>3. 0 \in T
    BY <1>1
<1>4. ASSUME NEW i \in 0 .. n - 1, i \in T PROVE i + 1 \in T
  <2>1. i + 1 \in 1 .. n /\ (i + 1) - 1 = i
      BY <1>1
  <2>2. /\ a[i + 1].prev \in Seq(Entry) /\ a[i + 1].entry \in Entry
        /\ a[i + 1].prev = IF i + 1 = 1 THEN Zero ELSE a[i].self
        /\ a[i + 1].self = Append(a[i + 1].prev, a[i + 1].entry)
      BY <1>2, <2>1
  <2>3. Len(a[i + 1].prev) = i
      BY <1>4, <2>1, <2>2 DEF Zero
  <2>4. Len(a[i + 1].self) = i + 1
      BY <2>2, <2>3
  <2> QED
      BY <1>1, <2>1, <2>4
<1> HIDE DEF T
<1>5. 0 .. n \subseteq T
    BY <1>1, <1>3, <1>4, SegmentInduction
<1>6. ASSUME NEW i \in 1 .. n PROVE Len(a[i].self) = i
  <2>1. i \in T /\ i # 0
      BY <1>1, <1>5
  <2> QED
      BY <2>1 DEF T
<1> QED
    BY <1>6 DEF n

LEMMA Unlinking ==
    ASSUME NEW s \in Seq(Entry), NEW t \in Seq(Entry), NEW e \in Entry, NEW f \in Entry,
           Append(s, e) = Append(t, f)
    PROVE  s = t /\ e = f
BY AppendInjective

\* Two chains with an entry of the same hash are the same chain up to it.
LEMMA ChainPrefix ==
    ASSUME NEW a, Chain(a), NEW b, Chain(b),
           NEW i \in 1 .. Len(a), i <= Len(b), a[i].self = b[i].self
    PROVE  SubSeq(a, 1, i) = SubSeq(b, 1, i)
<1> DEFINE Same(k) == a[k].self = b[k].self
           T == {t \in 0 .. i - 1 : Same(i - t)}
<1>1. Len(a) \in Nat /\ Len(b) \in Nat /\ a \in Seq(Sealing) /\ b \in Seq(Sealing)
    BY DEF Chain
<1>2. ASSUME NEW k \in 1 .. i, Same(k)
      PROVE  a[k] = b[k] /\ (k > 1 => Same(k - 1))
  <2>1. k \in 1 .. Len(a) /\ k \in 1 .. Len(b)
      BY <1>1
  <2>2. /\ a[k] \in Sealing /\ a[k].seq = k - 1
        /\ a[k].entry \in Entry /\ a[k].prev \in Seq(Entry)
        /\ a[k].prev = IF k = 1 THEN Zero ELSE a[k - 1].self
        /\ a[k].self = Append(a[k].prev, a[k].entry)
      BY <2>1, ChainFields
  <2>3. /\ b[k] \in Sealing /\ b[k].seq = k - 1
        /\ b[k].entry \in Entry /\ b[k].prev \in Seq(Entry)
        /\ b[k].prev = IF k = 1 THEN Zero ELSE b[k - 1].self
        /\ b[k].self = Append(b[k].prev, b[k].entry)
      BY <2>1, ChainFields
  <2>4. Append(a[k].prev, a[k].entry) = Append(b[k].prev, b[k].entry)
      BY <1>2, <2>2, <2>3
  <2>5. a[k].prev = b[k].prev /\ a[k].entry = b[k].entry
    <3> DEFINE s == a[k].prev
               t == b[k].prev
               e == a[k].entry
               f == b[k].entry
    <3>1. s \in Seq(Entry) /\ t \in Seq(Entry) /\ e \in Entry /\ f \in Entry
        BY <2>2, <2>3
    <3>2. Append(s, e) = Append(t, f)
        BY <2>4
    <3> HIDE DEF s, t, e, f
    <3>3. s = t /\ e = f
        BY <3>1, <3>2, Unlinking
    <3> QED
        BY <3>3 DEF s, t, e, f
  <2>6. a[k] = b[k]
      BY <1>2, <2>2, <2>3, <2>5, SealingFields
  <2>7. k > 1 => Same(k - 1)
      BY <2>2, <2>3, <2>5
  <2> QED
      BY <2>6, <2>7
<1>3. Same(i)
    OBVIOUS
<1> HIDE DEF Same
<1>4. 0 \in T
    BY <1>3
<1>5. ASSUME NEW t \in 0 .. (i - 1) - 1, t \in T PROVE t + 1 \in T
  <2>1. i - t \in 1 .. i /\ i - t > 1 /\ (i - t) - 1 = i - (t + 1) /\ t + 1 \in 0 .. i - 1
      BY <1>1
  <2>2. Same((i - t) - 1)
      BY <1>2, <1>5, <2>1
  <2> QED
      BY <2>1, <2>2
<1> HIDE DEF T
<1>6. 0 .. i - 1 \subseteq T
  <2> DEFINE m == i - 1
  <2>1. m \in Nat
      BY <1>1
  <2>2. \A t \in 0 .. m - 1 : t \in T => t + 1 \in T
      BY <1>5
  <2> HIDE DEF m
  <2>3. 0 .. m \subseteq T
      BY <1>4, <2>1, <2>2, SegmentInduction, Zenon
  <2> QED
      BY <2>3, Zenon DEF m
<1>7. \A k \in 1 .. i : a[k] = b[k]
  <2> SUFFICES ASSUME NEW k \in 1 .. i PROVE a[k] = b[k]
      OBVIOUS
  <2>1. i - k \in 0 .. i - 1 /\ i - (i - k) = k
      BY <1>1
  <2>2. i - k \in T
      BY <1>6, <2>1
  <2>3. Same(k)
      BY <2>1, <2>2 DEF T
  <2> QED
      BY <1>2, <2>3
<1> QED
    BY <1>1, <1>7

-----------------------------------------------------------------------------
(* The shared ledger *)

LastHash(entries) == IF Len(entries) = 0 THEN Zero ELSE entries[Len(entries)].self

SoundLedger == {l \in [entries : Seq(Sealing), last : Seq(Entry)] :
                  Chain(l.entries) /\ l.last = LastHash(l.entries)}

\* The inductive invariant of the ledger: its chain, typed.
ChainInv == ledger \in SoundLedger

LEMMA SoundFields ==
    ASSUME NEW l \in SoundLedger
    PROVE  /\ Chain(l.entries) /\ l.last = LastHash(l.entries)
           /\ l.entries \in Seq(Sealing) /\ l.last \in Seq(Entry) /\ Len(l.entries) \in Nat
BY DEF SoundLedger, Chain

LEMMA AppendFields ==
    ASSUME NEW l, NEW entry
    PROVE  /\ AppendEntry(l, entry) = [entries |-> AppendEntry(l, entry).entries,
                                      last |-> HashEntry(l.last, entry)]
           /\ AppendEntry(l, entry).entries =
                Append(l.entries, [seq |-> Len(l.entries), entry |-> entry, prev |-> l.last,
                                   self |-> HashEntry(l.last, entry)])
BY DEF AppendEntry

\* Appending an entry to a sound ledger gives a sound ledger.
LEMMA AppendSound ==
    ASSUME NEW l \in SoundLedger, NEW entry \in Entry
    PROVE  AppendEntry(l, entry) \in SoundLedger
<1> DEFINE n   == Len(l.entries)
           new == [seq |-> n, entry |-> entry, prev |-> l.last,
                   self |-> HashEntry(l.last, entry)]
           es  == AppendEntry(l, entry).entries
<1>1. /\ Chain(l.entries) /\ l.last = LastHash(l.entries)
      /\ l.entries \in Seq(Sealing) /\ l.last \in Seq(Entry) /\ n \in Nat
    BY SoundFields
<1>2. AppendEntry(l, entry) = [entries |-> es, last |-> new.self] /\ es = Append(l.entries, new)
    BY AppendFields
<1>3. new \in Sealing /\ new.self \in Seq(Entry)
    BY <1>1 DEF Sealing, HashEntry
<1>4. /\ es \in Seq(Sealing) /\ Len(es) = n + 1
      /\ \A i \in 1 .. n : es[i] = l.entries[i]
      /\ es[n + 1] = new
  <2> HIDE DEF new, es
  <2> QED
      BY <1>1, <1>2, <1>3
<1>5. /\ new.seq = n /\ new.prev = l.last
      /\ new.self = HashEntry(new.prev, new.entry)
    OBVIOUS
<1> HIDE DEF n, new, es
<1>6. ASSUME NEW i \in 1 .. n + 1
      PROVE  /\ es[i].seq = i - 1
             /\ es[i].prev = IF i = 1 THEN Zero ELSE es[i - 1].self
             /\ es[i].self = HashEntry(es[i].prev, es[i].entry)
  <2>1. CASE i = n + 1
    <3>1. l.last = IF i = 1 THEN Zero ELSE es[i - 1].self
      <4>1. i = 1 => n = 0
          BY <1>1, <2>1
      <4>2. i # 1 => n # 0 /\ i - 1 = n /\ n \in 1 .. n
          BY <1>1, <2>1
      <4> QED
          BY <1>1, <1>4, <4>1, <4>2 DEF LastHash, n
    <3> QED
        BY <1>1, <1>4, <1>5, <2>1, <3>1
  <2>2. CASE i \in 1 .. n
    <3>1. es[i] = l.entries[i] /\ (i # 1 => es[i - 1] = l.entries[i - 1])
      <4>1. i # 1 => i - 1 \in 1 .. n
          BY <1>1, <2>2
      <4> QED
          BY <1>4, <2>2, <4>1
    <3>2. /\ l.entries[i].seq = i - 1
          /\ l.entries[i].prev = IF i = 1 THEN Zero ELSE l.entries[i - 1].self
          /\ l.entries[i].self = HashEntry(l.entries[i].prev, l.entries[i].entry)
        BY <1>1, <2>2 DEF Chain, n
    <3> QED
        BY <3>1, <3>2
  <2> QED
      BY <1>1, <2>1, <2>2
<1>7. Chain(es)
    BY <1>4, <1>6 DEF Chain
<1>8. new.self = LastHash(es)
    BY <1>1, <1>4 DEF LastHash
<1> DEFINE r    == AppendEntry(l, entry)
           last == new.self
<1>9. r = [entries |-> es, last |-> last] /\ last \in Seq(Entry) /\ last = LastHash(es)
    BY <1>2, <1>3, <1>8
<1> HIDE DEF r, last
<1>10. /\ r \in [entries : Seq(Sealing), last : Seq(Entry)]
       /\ r.entries = es /\ r.last = last
    BY <1>4, <1>9
<1>11. r \in SoundLedger
    BY <1>7, <1>9, <1>10 DEF SoundLedger
<1> QED
    BY <1>11 DEF r

\* The ledger changes in one way only: an emitter appends an entry.
LEMMA LedgerSteps ==
    ASSUME [Next]_vars
    PROVE  ledger' = ledger \/ \E entry \in Entry : ledger' = AppendEntry(ledger, entry)
BY DEF Next, vars, Emit, SealThenWrite, Dispatch, Seal, Export, EditFile, EditReceipt

LEMMA ChainKept == ChainInv /\ [Next]_vars => ChainInv'
BY LedgerSteps, AppendSound DEF ChainInv

LEMMA NewSound == NewLedger \in SoundLedger
<1> DEFINE es   == NewLedger.entries
           last == NewLedger.last
<1>1. /\ NewLedger = [entries |-> es, last |-> last] /\ last = <<>> /\ es = <<>>
    BY DEF NewLedger, Zero
<1>2. es \in Seq(Sealing) /\ last \in Seq(Entry) /\ Len(es) = 0
  <2> HIDE DEF es, last
  <2> QED
      BY <1>1
<1> HIDE DEF es, last
<1>3. Chain(es) /\ last = LastHash(es)
    BY <1>1, <1>2 DEF Chain, LastHash, Zero
<1> QED
    BY <1>1, <1>2, <1>3 DEF SoundLedger

LEMMA ChainInit == Init => ChainInv
    BY NewSound DEF Init, ChainInv

LEMMA LedgerChain ==
    ASSUME ChainInv
    PROVE  ChainSound /\ Chain(ledger.entries) /\ Length \in Nat
<1>1. /\ Chain(ledger.entries) /\ ledger.last = LastHash(ledger.entries)
      /\ ledger.entries \in Seq(Sealing) /\ Len(ledger.entries) \in Nat
    BY SoundFields DEF ChainInv
<1>2. DOMAIN ledger.entries = 1 .. Len(ledger.entries)
    BY <1>1
<1> QED
    BY <1>1, <1>2 DEF Chain, ChainSound, VerifyChain, LastHash, Length

\* However many policies share the ledger, it is always a sound chain whose
\* head is its last entry's hash.
THEOREM LedgerChained == Spec => []ChainSound
    BY LedgerChain, ChainInit, ChainKept, PTL DEF Spec

-----------------------------------------------------------------------------
(* The audit file.                                                         *)

\* The emitters that have sealed e and not written it, and e's places in the chain.
Waiting(e) == {p \in Emitter : emitter[p] = e}
Places(e)  == {i \in 1 .. Length : ledger.entries[i].entry = e}

FileInv ==
    /\ ChainInv
    /\ emitter \in [Emitter -> Entry \cup {None}]
    /\ trail \in [Entry -> Nat]
    /\ DispatchedWasSealed

LEMMA WaitingFinite ==
    ASSUME FileInv, NEW e \in Entry
    PROVE  IsFiniteSet(Waiting(e)) /\ Cardinality(Waiting(e)) \in Nat
<1>1. Waiting(e) \subseteq Emitter
    BY DEF Waiting
<1> QED
    BY <1>1, EvidenceAssumption, FS_Subset, FS_CardinalityType

LEMMA PlacesFinite ==
    ASSUME FileInv, NEW e \in Entry
    PROVE  IsFiniteSet(Places(e)) /\ Cardinality(Places(e)) \in Nat
<1>1. Length \in Nat
    BY LedgerChain DEF FileInv
<1>2. IsFiniteSet(1 .. Length)
    BY <1>1, FS_Interval
<1>3. Places(e) \subseteq 1 .. Length
    BY DEF Places
<1> QED
    BY <1>2, <1>3, FS_Subset, FS_CardinalityType

LEMMA EmitKept ==
    ASSUME FileInv, NEW p \in Emitter, NEW entry \in Entry, Emit(p, entry)
    PROVE  FileInv'
<1>1. ChainInv'
    BY ChainKept DEF FileInv, Next
<1>2. /\ emitter[p] = None /\ emitter' = [emitter EXCEPT ![p] = entry]
      /\ trail' = trail /\ ledger' = AppendEntry(ledger, entry)
    BY DEF Emit, SealThenWrite
<1>3. /\ Length \in Nat /\ ledger.entries \in Seq(Sealing)
      /\ ledger.last \in Seq(Entry)
      /\ emitter \in [Emitter -> Entry \cup {None}] /\ trail \in [Entry -> Nat]
    BY SoundFields DEF FileInv, ChainInv, Length
<1>4. /\ Length' = Length + 1
      /\ \A i \in 1 .. Length : ledger'.entries[i] = ledger.entries[i]
      /\ ledger'.entries[Length + 1].entry = entry
  <2> DEFINE new == [seq |-> Length, entry |-> entry, prev |-> ledger.last,
                     self |-> HashEntry(ledger.last, entry)]
  <2>1. ledger'.entries = Append(ledger.entries, new)
      BY <1>2, AppendFields DEF Length
  <2>2. Length = Len(ledger.entries) /\ Length' = Len(ledger'.entries)
      BY DEF Length
  <2>3. new.entry = entry /\ new \in Sealing
    <3>1. HashEntry(ledger.last, entry) \in Seq(Entry)
        BY <1>3 DEF HashEntry
    <3> QED
        BY <1>3, <3>1 DEF Sealing
  <2> HIDE DEF new
  <2> QED
      BY <1>3, <2>1, <2>2, <2>3
<1>5. ASSUME NEW e \in Entry
      PROVE  trail'[e] + Cardinality(Waiting(e)') <= Cardinality(Places(e)')
  <2>1. trail[e] + Cardinality(Waiting(e)) <= Cardinality(Places(e))
      BY DEF FileInv, DispatchedWasSealed, Waiting, Places
  <2>2. trail[e] \in Nat
      BY <1>3
  <2> DEFINE was(i) == ledger.entries[i].entry
             is(i)  == ledger'.entries[i].entry
             n      == Length
  <2>5. Places(e) = {i \in 1 .. n : was(i) = e} /\ Places(e)' = {i \in 1 .. Length' : is(i) = e}
      BY Zenon DEF Places
  <2>6. /\ n \in Nat /\ Length' = n + 1 /\ is(n + 1) = entry
        /\ \A i \in 1 .. n : is(i) = was(i)
      BY <1>3, <1>4, Zenon
  <2> HIDE DEF was, is, n
  <2>3. CASE e = entry
    <3>1. Waiting(e)' = Waiting(e) \cup {p} /\ p \notin Waiting(e)
        BY <1>2, <1>3, <2>3, EvidenceAssumption DEF Waiting
    <3>2. Places(e)' = Places(e) \cup {n + 1} /\ n + 1 \notin Places(e)
        BY <2>3, <2>5, <2>6
    <3>3. Cardinality(Waiting(e)') = Cardinality(Waiting(e)) + 1
        BY <3>1, WaitingFinite, FS_AddElement
    <3>4. Cardinality(Places(e)') = Cardinality(Places(e)) + 1
        BY <3>2, PlacesFinite, FS_AddElement
    <3> QED
        BY <1>2, <2>1, <2>2, <3>3, <3>4, WaitingFinite, PlacesFinite
  <2>4. CASE e # entry
    <3>1. Waiting(e)' = Waiting(e)
        BY <1>2, <1>3, <2>4, EvidenceAssumption DEF Waiting
    <3>2. Places(e)' = Places(e)
        BY <2>4, <2>5, <2>6
    <3> QED
        BY <1>2, <2>1, <3>1, <3>2
  <2> QED
      BY <2>3, <2>4
<1>6. DispatchedWasSealed'
    BY <1>5 DEF DispatchedWasSealed, Waiting, Places
<1>7. trail' \in [Entry -> Nat] /\ emitter' \in [Emitter -> Entry \cup {None}]
    BY <1>2, <1>3
<1> QED
    BY <1>1, <1>6, <1>7 DEF FileInv

LEMMA DispatchKept ==
    ASSUME FileInv, NEW p \in Emitter, Dispatch(p)
    PROVE  FileInv'
<1>1. ChainInv'
    BY ChainKept DEF FileInv, Next
<1>2. /\ emitter[p] # None /\ emitter' = [emitter EXCEPT ![p] = None]
      /\ trail' = [trail EXCEPT ![emitter[p]] = @ + 1] \/ trail' = trail
      /\ ledger' = ledger
    BY DEF Dispatch
<1>3. /\ emitter \in [Emitter -> Entry \cup {None}] /\ trail \in [Entry -> Nat]
      /\ emitter[p] \in Entry
    BY <1>2 DEF FileInv
<1>4. ASSUME NEW e \in Entry
      PROVE  trail'[e] + Cardinality(Waiting(e)') <= Cardinality(Places(e)')
  <2>1. /\ trail[e] + Cardinality(Waiting(e)) <= Cardinality(Places(e))
        /\ Places(e)' = Places(e)
      BY <1>2 DEF FileInv, DispatchedWasSealed, Waiting, Places, Length
  <2>2. trail[e] \in Nat
      BY <1>3
  <2>3. CASE e = emitter[p]
    <3>1. Waiting(e)' = Waiting(e) \ {p} /\ p \in Waiting(e)
        BY <1>2, <1>3, <2>3 DEF Waiting
    <3>2. Cardinality(Waiting(e)') = Cardinality(Waiting(e)) - 1
      <4>1. IsFiniteSet(Waiting(e))
          BY WaitingFinite, Zenon
      <4>2. Cardinality(Waiting(e) \ {p}) = Cardinality(Waiting(e)) - 1
          BY <3>1, <4>1, FS_RemoveElement, Zenon
      <4> QED
          BY <3>1, <4>2, Zenon
    <3>3. trail'[e] \in {trail[e], trail[e] + 1}
        BY <1>2, <1>3, <2>3
    <3> QED
        BY <2>1, <2>2, <3>2, <3>3, WaitingFinite, PlacesFinite
  <2>4. CASE e # emitter[p]
    <3>1. Waiting(e)' = Waiting(e)
        BY <1>2, <1>3, <2>4, EvidenceAssumption DEF Waiting
    <3>2. trail'[e] = trail[e]
        BY <1>2, <1>3, <2>4
    <3> QED
        BY <2>1, <3>1, <3>2
  <2> QED
      BY <2>3, <2>4
<1>5. DispatchedWasSealed'
    BY <1>4 DEF DispatchedWasSealed, Waiting, Places
<1>6. trail' \in [Entry -> Nat] /\ emitter' \in [Emitter -> Entry \cup {None}]
    BY <1>2, <1>3
<1> QED
    BY <1>1, <1>5, <1>6 DEF FileInv

LEMMA FileKept == FileInv /\ [Next]_vars => FileInv'
<1> SUFFICES ASSUME FileInv, [Next]_vars PROVE FileInv'
    OBVIOUS
<1>1. ASSUME ledger' = ledger, emitter' = emitter, trail' = trail PROVE FileInv'
    BY <1>1, ChainKept DEF FileInv, DispatchedWasSealed, Length
<1>2. CASE \E p \in Emitter, entry \in Entry : Emit(p, entry)
    BY <1>2, EmitKept
<1>3. CASE \E p \in Emitter : Dispatch(p)
    BY <1>3, DispatchKept
<1>4. CASE UNCHANGED vars
    BY <1>1, <1>4 DEF vars
<1>5. CASE \E entries \in Given, start, end \in 0 .. MaxSealed,
              wanted \in {{}, 0 .. MaxSealed} : Seal(entries, start, end, wanted)
    BY <1>1, <1>5 DEF Seal
<1>6. CASE Export \/ EditFile \/ EditReceipt
    BY <1>1, <1>6 DEF Export, EditFile, EditReceipt
<1> QED
    BY <1>2, <1>3, <1>4, <1>5, <1>6 DEF Next

LEMMA FileInit == Init => FileInv
<1> SUFFICES ASSUME Init PROVE FileInv
    OBVIOUS
<1>1. /\ emitter = [p \in Emitter |-> None] /\ trail = [e \in Entry |-> 0]
      /\ Length \in Nat
    BY DEF Init, NewLedger, Length
<1>2. ASSUME NEW e \in Entry
      PROVE  trail[e] + Cardinality(Waiting(e)) <= Cardinality(Places(e))
  <2>1. Waiting(e) = {} /\ trail[e] = 0
      BY <1>1, EvidenceAssumption DEF Waiting
  <2>2. Places(e) = {}
      BY DEF Init, NewLedger, Places, Length
  <2> QED
      BY <2>1, <2>2, FS_EmptySet
<1> QED
    BY <1>1, <1>2, ChainInit DEF FileInv, DispatchedWasSealed, Waiting, Places

\* Whatever the interleaving of the policies and the errors of the audit file,
\* every line of it, written or about to be, was sealed in the chain first.
THEOREM DispatchSealed == Spec => []DispatchedWasSealed
<1>1. FileInv => DispatchedWasSealed
    BY DEF FileInv
<1> QED
    BY <1>1, FileInit, FileKept, PTL DEF Spec

-----------------------------------------------------------------------------
(* The ways up a tree: places and sizes *)

LEMMA PathsRun ==
    ASSUME NEW h \in Nat, NEW seq \in Nat
    PROVE  LET path == Paths(seq, h)
           IN  /\ path \in [0 .. h -> Nat] /\ path[0] = seq
               /\ \A k \in 1 .. h : path[k] = path[k - 1] \div 2
<1> DEFINE Runs(f) == f = [k \in 0 .. h |-> IF k = 0 THEN seq ELSE f[k - 1] \div 2]
           step == [x \in (1 .. h) \X Nat |-> x[2] \div 2]
<1>1. \A x \in Nat : x \div 2 \in Nat
    OBVIOUS
<1>2. step \in Steps(h, Nat) /\ \A k \in 1 .. h, x \in Nat : step[<<k, x>>] = x \div 2
    BY <1>1 DEF Steps
<1>3. Paths(seq, h) = CHOOSE f : Runs(f)
    BY Zenon DEF Paths
<1> HIDE DEF step
<1>4. PICK f : Iterates(f, h, Nat, seq, step)
    BY <1>2, SegmentRecursion
<1>5. Runs(f)
  <2>1. \A k \in 0 .. h : f[k] = IF k = 0 THEN seq ELSE f[k - 1] \div 2
    <3> SUFFICES ASSUME NEW k \in 0 .. h
                 PROVE  f[k] = IF k = 0 THEN seq ELSE f[k - 1] \div 2
        OBVIOUS
    <3>1. CASE k = 0
        BY <1>4, <3>1 DEF Iterates
    <3>2. CASE k # 0
      <4>1. k \in 1 .. h /\ k - 1 \in 0 .. h
          BY <3>2
      <4>2. f[k - 1] \in Nat /\ f[k] = step[<<k, f[k - 1]>>]
          BY <1>4, <4>1 DEF Iterates
      <4> QED
          BY <1>2, <3>2, <4>1, <4>2
    <3> QED
        BY <3>1, <3>2
  <2> QED
      BY <1>4, <2>1 DEF Iterates
<1> DEFINE path == Paths(seq, h)
<1>6. Runs(path)
  <2> HIDE DEF Runs
  <2> QED
      BY <1>3, <1>5, Zenon
<1> HIDE DEF path
<1>7. /\ DOMAIN path = 0 .. h /\ path[0] = seq
      /\ \A k \in 1 .. h : path[k] = path[k - 1] \div 2
    BY <1>6
<1> DEFINE T == {k \in 0 .. h : path[k] \in Nat}
<1>8. 0 \in T
    BY <1>7
<1>9. ASSUME NEW k \in 0 .. h - 1, k \in T PROVE k + 1 \in T
  <2>1. k + 1 \in 1 .. h /\ (k + 1) - 1 = k
      OBVIOUS
  <2>2. path[k + 1] = path[k] \div 2
      BY <1>7, <2>1
  <2> QED
      BY <1>1, <1>9, <2>1, <2>2
<1> HIDE DEF T
<1>10. 0 .. h \subseteq T
    BY <1>8, <1>9, SegmentInduction
<1>11. path = [k \in 0 .. h |-> path[k]]
    BY <1>6
<1> QED
    BY <1>7, <1>10, <1>11 DEF T, path

LEMMA SizesRun ==
    ASSUME NEW h \in Nat, NEW n \in Nat
    PROVE  LET size == Sizes(n, h)
           IN  /\ size \in [0 .. h -> Nat] /\ size[0] = n
               /\ \A k \in 1 .. h : size[k] = RoundedUp(size[k - 1])
<1> DEFINE Runs(f) == f = [k \in 0 .. h |-> IF k = 0 THEN n ELSE RoundedUp(f[k - 1])]
           step == [x \in (1 .. h) \X Nat |-> RoundedUp(x[2])]
<1>1. \A x \in Nat : RoundedUp(x) \in Nat
    BY DEF RoundedUp
<1>2. step \in Steps(h, Nat) /\ \A k \in 1 .. h, x \in Nat : step[<<k, x>>] = RoundedUp(x)
    BY <1>1 DEF Steps
<1>3. Sizes(n, h) = CHOOSE f : Runs(f)
    BY Zenon DEF Sizes
<1> HIDE DEF step
<1>4. PICK f : Iterates(f, h, Nat, n, step)
    BY <1>2, SegmentRecursion
<1>5. Runs(f)
  <2>1. \A k \in 0 .. h : f[k] = IF k = 0 THEN n ELSE RoundedUp(f[k - 1])
    <3> SUFFICES ASSUME NEW k \in 0 .. h
                 PROVE  f[k] = IF k = 0 THEN n ELSE RoundedUp(f[k - 1])
        OBVIOUS
    <3>1. CASE k = 0
        BY <1>4, <3>1 DEF Iterates
    <3>2. CASE k # 0
      <4>1. k \in 1 .. h /\ k - 1 \in 0 .. h
          BY <3>2
      <4>2. f[k - 1] \in Nat /\ f[k] = step[<<k, f[k - 1]>>]
          BY <1>4, <4>1 DEF Iterates
      <4> QED
          BY <1>2, <3>2, <4>1, <4>2
    <3> QED
        BY <3>1, <3>2
  <2> QED
      BY <1>4, <2>1 DEF Iterates
<1> DEFINE size == Sizes(n, h)
<1>6. Runs(size)
  <2> HIDE DEF Runs
  <2> QED
      BY <1>3, <1>5, Zenon
<1> HIDE DEF size
<1>7. /\ DOMAIN size = 0 .. h /\ size[0] = n
      /\ \A k \in 1 .. h : size[k] = RoundedUp(size[k - 1])
    BY <1>6
<1> DEFINE T == {k \in 0 .. h : size[k] \in Nat}
<1>8. 0 \in T
    BY <1>7
<1>9. ASSUME NEW k \in 0 .. h - 1, k \in T PROVE k + 1 \in T
  <2>1. k + 1 \in 1 .. h /\ (k + 1) - 1 = k
      OBVIOUS
  <2>2. size[k + 1] = RoundedUp(size[k])
      BY <1>7, <2>1
  <2> QED
      BY <1>1, <1>9, <2>1, <2>2
<1> HIDE DEF T
<1>10. 0 .. h \subseteq T
    BY <1>8, <1>9, SegmentInduction
<1>11. size = [k \in 0 .. h |-> size[k]]
    BY <1>6
<1> QED
    BY <1>7, <1>10, <1>11 DEF T, size

\* The sizes of the levels do not depend on how far up one looks.
LEMMA SizesAgree ==
    ASSUME NEW h \in Nat, NEW m \in Nat, NEW n \in Nat, h <= m
    PROVE  \A k \in 0 .. h : Sizes(n, h)[k] = Sizes(n, m)[k]
<1> DEFINE a == Sizes(n, h)
           b == Sizes(n, m)
           T == {k \in 0 .. h : a[k] = b[k]}
<1>1. /\ a[0] = n /\ \A k \in 1 .. h : a[k] = RoundedUp(a[k - 1])
      /\ b[0] = n /\ \A k \in 1 .. m : b[k] = RoundedUp(b[k - 1])
    BY SizesRun
<1> HIDE DEF a, b
<1>2. 0 \in T
    BY <1>1
<1>3. ASSUME NEW k \in 0 .. h - 1, k \in T PROVE k + 1 \in T
  <2>1. k + 1 \in 1 .. h /\ k + 1 \in 1 .. m /\ (k + 1) - 1 = k
      OBVIOUS
  <2>2. a[k + 1] = RoundedUp(a[k]) /\ b[k + 1] = RoundedUp(b[k])
      BY <1>1, <2>1
  <2> QED
      BY <1>3, <2>1, <2>2
<1> HIDE DEF T
<1>4. 0 .. h \subseteq T
    BY <1>2, <1>3, SegmentInduction
<1> QED
    BY <1>4 DEF T, a, b

\* Levels shrink until one node is left, so there is a top.
LEMMA HeightType ==
    ASSUME NEW n \in Nat \ {0}
    PROVE  /\ Height(n) \in 0 .. n
           /\ Sizes(n, Height(n))[Height(n)] = 1
           /\ \A j \in 0 .. Height(n) - 1 : Sizes(n, Height(n))[j] > 1
<1> DEFINE size == Sizes(n, n)
           Top(k) == size[k] = 1 /\ \A j \in 0 .. k - 1 : size[j] > 1
           T == {k \in 0 .. n : size[k] >= 1 /\ (size[k] = 1 \/ size[k] + k <= n)}
           S == {k \in 0 .. n : size[k] = 1}
<1>1. /\ size \in [0 .. n -> Nat] /\ size[0] = n
      /\ \A k \in 1 .. n : size[k] = RoundedUp(size[k - 1])
    BY SizesRun
<1>2. Height(n) = CHOOSE k \in 0 .. n : Top(k)
    BY DEF Height
<1> HIDE DEF size
<1>3. 0 \in T
    BY <1>1
<1>4. ASSUME NEW k \in 0 .. n - 1, k \in T PROVE k + 1 \in T
  <2>1. k + 1 \in 1 .. n /\ (k + 1) - 1 = k
      OBVIOUS
  <2>2. size[k + 1] = (size[k] + 1) \div 2 /\ size[k] \in Nat
    <3> DEFINE m == k + 1
    <3> HIDE DEF T, S, Top
    <3>1. m \in 1 .. n /\ m - 1 = k
        BY <2>1, Zenon
    <3>2. size[m] = RoundedUp(size[m - 1])
      <4> HIDE DEF m
      <4> QED
          BY <1>1, <3>1, Zenon
    <3>3. size[k] \in Nat
      <4>1. k \in 0 .. n
          OBVIOUS
      <4> QED
          BY <1>1, <4>1
    <3> QED
        BY <3>1, <3>2, <3>3, Zenon DEF RoundedUp
  <2>3. size[k] >= 1 /\ (size[k] = 1 \/ size[k] + k <= n)
      BY <1>4
  <2> QED
      BY <2>1, <2>2, <2>3
<1>5. 0 .. n \subseteq T
  <2> HIDE DEF T
  <2> QED
      BY <1>3, <1>4, SegmentInduction
<1>6. n \in S
  <2>1. size[n] >= 1 /\ (size[n] = 1 \/ size[n] + n <= n)
      BY <1>5
  <2>2. size[n] \in Nat
      BY <1>1
  <2> QED
      BY <2>1, <2>2
<1>7. PICK k \in S : \A j \in S : k <= j
  <2>1. S \in SUBSET Nat /\ S # {}
      BY <1>6
  <2> HIDE DEF S
  <2> QED
      BY <2>1, Least
<1>8. Top(k)
  <2>1. ASSUME NEW j \in 0 .. k - 1 PROVE size[j] > 1
    <3>1. j \in 0 .. n /\ ~(k <= j)
        BY <1>7
    <3>2. size[j] # 1 /\ size[j] >= 1 /\ size[j] \in Nat
        BY <1>1, <1>5, <1>7, <3>1
    <3> QED
        BY <3>2
  <2> QED
      BY <1>7, <2>1
<1>9. Height(n) \in 0 .. n /\ Top(Height(n))
  <2> HIDE DEF Top
  <2> QED
      BY <1>2, <1>7, <1>8
<1>10. \A j \in 0 .. Height(n) : Sizes(n, Height(n))[j] = size[j]
    BY <1>9, SizesAgree DEF size
<1> QED
    BY <1>9, <1>10

-----------------------------------------------------------------------------
(* The levels of a tree *)

LEMMA LengthOfFunction ==
    ASSUME NEW n \in Nat, NEW f, f = [i \in 1 .. n |-> f[i]]
    PROVE  Len(f) = n
<1> DEFINE S == {f[i] : i \in 1 .. n}
<1>1. f \in [1 .. n -> S]
    OBVIOUS
<1> HIDE DEF S
<1>2. f \in Seq(S)
    BY <1>1, SeqDef
<1> QED
    BY <1>1, <1>2

\* The levels are computed one from the other.
LEMMA LevelsRun ==
    ASSUME NEW entries, Height(Len(entries)) \in Nat
    PROVE  LET h  == Height(Len(entries))
               up == Levels(entries)
           IN  /\ up[0] = Leaves(entries)
               /\ \A k \in 1 .. h : up[k] = Above(up[k - 1])
<1> DEFINE h    == Height(Len(entries))
           base == Leaves(entries)
           Solves(f, n) == f = [k \in 0 .. n |-> IF k = 0 THEN base ELSE Above(f[k - 1])]
           T == {n \in 0 .. h : \E f : Solves(f, n)}
<1>1. Levels(entries) = CHOOSE f : Solves(f, h)
    BY Zenon DEF Levels
<1>2. h \in Nat
    OBVIOUS
<1> HIDE DEF h, base
<1>3. 0 \in T
  <2> DEFINE f == [k \in 0 .. 0 |-> base]
  <2>1. Solves(f, 0)
      OBVIOUS
  <2> HIDE DEF f, Solves
  <2> QED
      BY <1>2, <2>1
<1>4. ASSUME NEW n \in 0 .. h - 1, n \in T PROVE n + 1 \in T
  <2>1. PICK f : Solves(f, n)
      BY <1>4
  <2> DEFINE g == [k \in 0 .. n + 1 |-> IF k <= n THEN f[k] ELSE Above(f[n])]
  <2>2. \A k \in 0 .. n + 1 : g[k] = IF k = 0 THEN base ELSE Above(g[k - 1])
    <3> SUFFICES ASSUME NEW k \in 0 .. n + 1
                 PROVE  g[k] = IF k = 0 THEN base ELSE Above(g[k - 1])
        OBVIOUS
    <3>1. CASE k = n + 1
      <4>1. g[k] = Above(f[n]) /\ g[k - 1] = f[n] /\ k # 0
          BY <3>1
      <4> QED
          BY <4>1
    <3>2. CASE k # n + 1
      <4>1. k \in 0 .. n /\ g[k] = f[k]
          BY <3>2
      <4>2. k # 0 => g[k - 1] = f[k - 1]
          BY <4>1
      <4>3. f[k] = IF k = 0 THEN base ELSE Above(f[k - 1])
          BY <2>1, <4>1
      <4> QED
          BY <4>1, <4>2, <4>3
    <3> QED
        BY <3>1, <3>2
  <2>3. Solves(g, n + 1)
      BY <2>2
  <2>4. n + 1 \in 0 .. h
      BY <1>2
  <2> HIDE DEF g, Solves
  <2> QED
      BY <2>3, <2>4
<1>5. \E f : Solves(f, h)
  <2> HIDE DEF T
  <2>1. 0 .. h \subseteq T
      BY <1>2, <1>3, <1>4, SegmentInduction
  <2>2. h \in T
      BY <1>2, <2>1
  <2> HIDE DEF Solves
  <2> QED
      BY <2>2 DEF T
<1> DEFINE up == Levels(entries)
<1>6. Solves(up, h)
  <2> HIDE DEF Solves
  <2> QED
      BY <1>1, <1>5, Zenon
<1> HIDE DEF up
<1>7. up[0] = base /\ \A k \in 1 .. h : up[k] = Above(up[k - 1])
    BY <1>2, <1>6
<1> QED
    BY <1>7 DEF up, h, base

\* A level has the size that the verifier computes for it.
LEMMA LevelSizes ==
    ASSUME NEW entries \in Seq(Sealing), entries # <<>>
    PROVE  LET h    == Height(Len(entries))
               up   == Levels(entries)
               size == Sizes(Len(entries), h)
           IN  \A k \in 0 .. h : up[k] = [i \in 1 .. size[k] |-> up[k][i]]
<1> DEFINE n    == Len(entries)
           h    == Height(n)
           up   == Levels(entries)
           size == Sizes(n, h)
           T    == {k \in 0 .. h : up[k] = [i \in 1 .. size[k] |-> up[k][i]]}
<1>1. n \in Nat \ {0} /\ h \in Nat
    BY HeightType
<1>2. /\ size \in [0 .. h -> Nat] /\ size[0] = n
      /\ \A k \in 1 .. h : size[k] = RoundedUp(size[k - 1])
    BY <1>1, SizesRun
<1>3. up[0] = Leaves(entries) /\ \A k \in 1 .. h : up[k] = Above(up[k - 1])
    BY <1>1, LevelsRun
<1>4. DOMAIN entries = 1 .. n
    OBVIOUS
<1> HIDE DEF n, h, up, size
<1>5. 0 \in T
  <2> DEFINE level == Leaves(entries)
  <2>1. level = [i \in 1 .. n |-> level[i]]
      BY <1>4 DEF Leaves
  <2>2. up[0] = level /\ size[0] = n /\ 0 \in 0 .. h
      BY <1>1, <1>2, <1>3
  <2> HIDE DEF level
  <2> QED
      BY <2>1, <2>2
<1>6. ASSUME NEW k \in 0 .. h - 1, k \in T PROVE k + 1 \in T
  <2> DEFINE level == up[k]
             m     == size[k]
  <2>1. k + 1 \in 1 .. h /\ k + 1 \in 0 .. h /\ (k + 1) - 1 = k /\ k \in 0 .. h
      BY <1>1
  <2>2. level = [i \in 1 .. m |-> level[i]] /\ m \in Nat
      BY <1>2, <1>6, <2>1
  <2>3. up[k + 1] = Above(level) /\ size[k + 1] = RoundedUp(m)
      BY <1>2, <1>3, <2>1
  <2> HIDE DEF level, m
  <2>4. Len(level) = m
      BY <2>2, LengthOfFunction
  <2>5. Above(level) = [i \in 1 .. RoundedUp(m) |-> Above(level)[i]]
      BY <2>4 DEF Above
  <2> QED
      BY <2>1, <2>3, <2>5
<1> HIDE DEF T
<1>7. 0 .. h \subseteq T
    BY <1>1, <1>5, <1>6, SegmentInduction
<1> QED
    BY <1>7 DEF T, n, h, up, size

\* The parent of a node is made of the node and its sibling, in their order.
Parent(level, q, m) ==
    IF q % 2 = 0 THEN NodeHash(level[q + 1], level[Sibling(q, m) + 1])
    ELSE NodeHash(level[Sibling(q, m) + 1], level[q + 1])

LEMMA NodeOver ==
    ASSUME NEW m \in Nat, NEW level, level = [i \in 1 .. m |-> level[i]],
           NEW q \in 0 .. m - 1
    PROVE  /\ Above(level)[q \div 2 + 1] = Parent(level, q, m)
           /\ q \div 2 \in 0 .. RoundedUp(m) - 1
<1>1. Len(level) = m
    BY LengthOfFunction
<1>2. q \div 2 \in 0 .. RoundedUp(m) - 1
    BY DEF RoundedUp
<1> DEFINE p == q \div 2 + 1
<1>3. p \in 1 .. RoundedUp(m)
    BY DEF RoundedUp
<1>4. Above(level)[p] = NodeHash(level[2 * p - 1],
                                 IF 2 * p <= m THEN level[2 * p] ELSE level[2 * p - 1])
    BY <1>1, <1>3 DEF Above
<1>5. q % 2 = 0 => 2 * p - 1 = q + 1 /\ 2 * p = q + 2
    OBVIOUS
<1>6. q % 2 # 0 => q % 2 = 1 /\ 2 * p - 1 = q /\ 2 * p = q + 1
    OBVIOUS
<1> HIDE DEF p
<1>7. ASSUME q % 2 = 0 PROVE Above(level)[p] = Parent(level, q, m)
  <2>1. Sibling(q, m) + 1 = IF q + 1 < m THEN q + 2 ELSE q + 1
      BY <1>7 DEF Sibling
  <2>2. 2 * p <= m <=> q + 1 < m
      BY <1>5, <1>7
  <2> QED
      BY <1>4, <1>5, <1>7, <2>1, <2>2 DEF Parent
<1>8. ASSUME q % 2 # 0 PROVE Above(level)[p] = Parent(level, q, m)
  <2>1. Sibling(q, m) + 1 = q
      BY <1>6, <1>8 DEF Sibling
  <2>2. 2 * p <= m
      BY <1>6, <1>8
  <2> QED
      BY <1>4, <1>6, <1>8, <2>1, <2>2 DEF Parent
<1>9. Above(level)[p] = Parent(level, q, m)
    BY <1>7, <1>8
<1> QED
    BY <1>2, <1>9 DEF p

-----------------------------------------------------------------------------
(* The way of one leaf *)

\* What the verifier hashes on the way up.
HashRun(hash, path, self, proof) ==
    /\ hash[0] = LeafHash(self)
    /\ \A k \in 1 .. Len(proof) :
         hash[k] = IF path[k - 1] % 2 = 0 THEN NodeHash(hash[k - 1], proof[k])
                   ELSE NodeHash(proof[k], hash[k - 1])

\* It takes one hash per level, with the node of the level below on the side its
\* place tells.
LEMMA HashesRun ==
    ASSUME NEW self, NEW seq, NEW proof, Len(proof) \in Nat
    PROVE  HashRun(Hashes(self, seq, proof), Paths(seq, Len(proof)), self, proof)
<1> DEFINE h    == Len(proof)
           path == Paths(seq, h)
           base == LeafHash(self)
           Over(x, k) == IF path[k - 1] % 2 = 0 THEN NodeHash(x, proof[k])
                         ELSE NodeHash(proof[k], x)
           Solves(f, n) == f = [k \in 0 .. n |-> IF k = 0 THEN base ELSE Over(f[k - 1], k)]
           T == {n \in 0 .. h : \E f : Solves(f, n)}
<1>1. Hashes(self, seq, proof) = CHOOSE f : Solves(f, h)
    BY Zenon DEF Hashes
<1>2. h \in Nat
    OBVIOUS
<1> HIDE DEF h, path, base, Over
<1>3. 0 \in T
  <2> DEFINE f == [k \in 0 .. 0 |-> base]
  <2>1. Solves(f, 0)
      OBVIOUS
  <2> HIDE DEF f, Solves
  <2> QED
      BY <1>2, <2>1
<1>4. ASSUME NEW n \in 0 .. h - 1, n \in T PROVE n + 1 \in T
  <2>1. PICK f : Solves(f, n)
      BY <1>4
  <2> DEFINE g == [k \in 0 .. n + 1 |-> IF k <= n THEN f[k] ELSE Over(f[n], k)]
  <2>2. \A k \in 0 .. n + 1 : g[k] = IF k = 0 THEN base ELSE Over(g[k - 1], k)
    <3> SUFFICES ASSUME NEW k \in 0 .. n + 1
                 PROVE  g[k] = IF k = 0 THEN base ELSE Over(g[k - 1], k)
        OBVIOUS
    <3>1. CASE k = n + 1
      <4>1. g[k] = Over(f[n], k) /\ g[k - 1] = f[n] /\ k # 0
          BY <3>1
      <4> QED
          BY <4>1
    <3>2. CASE k # n + 1
      <4>1. k \in 0 .. n /\ g[k] = f[k]
          BY <3>2
      <4>2. k # 0 => g[k - 1] = f[k - 1]
          BY <4>1
      <4>3. f[k] = IF k = 0 THEN base ELSE Over(f[k - 1], k)
          BY <2>1, <4>1
      <4> QED
          BY <4>1, <4>2, <4>3
    <3> QED
        BY <3>1, <3>2
  <2>3. Solves(g, n + 1)
      BY <2>2
  <2>4. n + 1 \in 0 .. h
      BY <1>2
  <2> HIDE DEF g, Solves
  <2> QED
      BY <2>3, <2>4
<1>5. \E f : Solves(f, h)
  <2> HIDE DEF T
  <2>1. 0 .. h \subseteq T
      BY <1>2, <1>3, <1>4, SegmentInduction
  <2>2. h \in T
      BY <1>2, <2>1
  <2> HIDE DEF Solves
  <2> QED
      BY <2>2 DEF T
<1> DEFINE hash == Hashes(self, seq, proof)
<1>6. Solves(hash, h)
  <2> HIDE DEF Solves
  <2> QED
      BY <1>1, <1>5, Zenon
<1> HIDE DEF hash
<1>7. hash[0] = base /\ \A k \in 1 .. h : hash[k] = Over(hash[k - 1], k)
    BY <1>2, <1>6
<1> QED
    BY <1>7, Zenon DEF HashRun, hash, h, base, Over, path

\* The way of a leaf stays inside every level.
LEMMA PathInside ==
    ASSUME NEW h \in Nat, NEW n \in Nat, NEW seq \in 0 .. n - 1
    PROVE  \A k \in 0 .. h : Paths(seq, h)[k] \in 0 .. Sizes(n, h)[k] - 1
<1> DEFINE path == Paths(seq, h)
           size == Sizes(n, h)
           T    == {k \in 0 .. h : path[k] \in 0 .. size[k] - 1}
<1>1. path[0] = seq /\ \A k \in 1 .. h : path[k] = path[k - 1] \div 2
    BY PathsRun
<1>2. /\ size \in [0 .. h -> Nat] /\ size[0] = n
      /\ \A k \in 1 .. h : size[k] = RoundedUp(size[k - 1])
    BY SizesRun
<1> HIDE DEF path, size
<1>3. 0 \in T
    BY <1>1, <1>2
<1>4. ASSUME NEW k \in 0 .. h - 1, k \in T PROVE k + 1 \in T
  <2>1. k + 1 \in 1 .. h /\ (k + 1) - 1 = k /\ k \in 0 .. h
      OBVIOUS
  <2>2. path[k + 1] = path[k] \div 2 /\ size[k + 1] = RoundedUp(size[k])
      BY <1>1, <1>2, <2>1
  <2>3. size[k] \in Nat /\ path[k] \in 0 .. size[k] - 1
      BY <1>2, <1>4, <2>1
  <2>4. path[k] \div 2 \in 0 .. RoundedUp(size[k]) - 1
      BY <2>3 DEF RoundedUp
  <2> QED
      BY <2>1, <2>2, <2>4
<1> HIDE DEF T
<1>5. 0 .. h \subseteq T
    BY <1>3, <1>4, SegmentInduction
<1> QED
    BY <1>5 DEF T, path, size

\* Each node on the way is the parent of the one below it; the top is the root.
LEMMA Climb ==
    ASSUME NEW entries \in Seq(Sealing), entries # <<>>, NEW seq \in 0 .. Len(entries) - 1
    PROVE  LET h    == Height(Len(entries))
               up   == Levels(entries)
               size == Sizes(Len(entries), h)
               path == Paths(seq, h)
           IN  /\ h \in Nat /\ size[h] = 1 /\ path[h] = 0 /\ path[0] = seq
               /\ \A k \in 1 .. h : up[k][path[k] + 1] = Parent(up[k - 1], path[k - 1], size[k - 1])
               /\ up[0][seq + 1] = LeafHash(entries[seq + 1].self)
               /\ up[h][1] = MerkleRoot(entries)
<1> DEFINE n    == Len(entries)
           h    == Height(n)
           up   == Levels(entries)
           size == Sizes(n, h)
           path == Paths(seq, h)
<1>1. n \in Nat \ {0} /\ h \in Nat /\ size[h] = 1 /\ seq \in Nat
    BY HeightType
<1>2. /\ size \in [0 .. h -> Nat]
      /\ \A k \in 0 .. h : up[k] = [i \in 1 .. size[k] |-> up[k][i]]
    BY <1>1, SizesRun, LevelSizes
<1>3. up[0] = Leaves(entries) /\ \A k \in 1 .. h : up[k] = Above(up[k - 1])
    BY <1>1, LevelsRun
<1>4. path[0] = seq /\ \A k \in 1 .. h : path[k] = path[k - 1] \div 2
  <2> HIDE DEF h
  <2> QED
      BY <1>1, PathsRun
<1>5. \A k \in 0 .. h : path[k] \in 0 .. size[k] - 1
    BY <1>1, PathInside
<1>6. MerkleRoot(entries) = up[h][1]
    BY DEF MerkleRoot
<1>7. Leaves(entries)[seq + 1] = LeafHash(entries[seq + 1].self)
  <2>1. seq + 1 \in DOMAIN entries
      OBVIOUS
  <2> QED
      BY <2>1 DEF Leaves
<1> HIDE DEF n, h, up, size, path
<1>8. path[h] = 0
    BY <1>1, <1>5
<1>9. ASSUME NEW k \in 1 .. h
      PROVE  up[k][path[k] + 1] = Parent(up[k - 1], path[k - 1], size[k - 1])
  <2> DEFINE level == up[k - 1]
             m     == size[k - 1]
             q     == path[k - 1]
  <2>1. k - 1 \in 0 .. h
      BY <1>1
  <2>2. m \in Nat /\ level = [i \in 1 .. m |-> level[i]] /\ q \in 0 .. m - 1
      BY <1>2, <1>5, <2>1
  <2>3. up[k] = Above(level) /\ path[k] = q \div 2
      BY <1>3, <1>4
  <2> HIDE DEF level, m, q
  <2>4. Above(level)[q \div 2 + 1] = Parent(level, q, m)
      BY <2>2, NodeOver
  <2>5. up[k][path[k] + 1] = Parent(level, q, m)
      BY <2>3, <2>4
  <2> QED
      BY <2>5 DEF level, m, q
<1> QED
    BY <1>1, <1>3, <1>4, <1>6, <1>7, <1>8, <1>9 DEF n, h, up, size, path

\* A proof of inclusion holds the siblings on the way.
LEMMA ProofHolds ==
    ASSUME NEW entries \in Seq(Sealing), entries # <<>>, NEW seq
    PROVE  LET h     == Height(Len(entries))
               up    == Levels(entries)
               size  == Sizes(Len(entries), h)
               path  == Paths(seq, h)
               proof == MerkleProof(entries, seq)
           IN  /\ Len(proof) = h
               /\ \A k \in 1 .. h : proof[k] = up[k - 1][Sibling(path[k - 1], size[k - 1]) + 1]
<1> DEFINE h     == Height(Len(entries))
           up    == Levels(entries)
           size  == Sizes(Len(entries), h)
           path  == Paths(seq, h)
           proof == MerkleProof(entries, seq)
           At(k) == up[k - 1][Sibling(path[k - 1], size[k - 1]) + 1]
<1>1. Len(entries) \in Nat \ {0}
    OBVIOUS
<1>2. h \in Nat
    BY <1>1, HeightType
<1>3. proof = [k \in 1 .. h |-> At(k)]
    BY DEF MerkleProof
<1> HIDE DEF h, proof, At
<1>4. \A k \in 1 .. h : proof[k] = At(k)
    BY <1>3
<1>5. proof = [k \in 1 .. h |-> proof[k]]
    BY <1>3
<1>6. Len(proof) = h
    BY <1>2, <1>5, LengthOfFunction
<1> QED
    BY <1>4, <1>6 DEF h, proof, At

\* The verifier recomputes the nodes on the way of the entry it is shown ...
LEMMA ProofVerifies ==
    ASSUME NEW entries \in Seq(Sealing), entries # <<>>, NEW seq \in 0 .. Len(entries) - 1
    PROVE  VerifyMerkleProof(entries[seq + 1].self, seq, Len(entries), MerkleProof(entries, seq),
                             MerkleRoot(entries))
<1> DEFINE n     == Len(entries)
           h     == Height(n)
           up    == Levels(entries)
           size  == Sizes(n, h)
           path  == Paths(seq, h)
           proof == MerkleProof(entries, seq)
           self  == entries[seq + 1].self
           hash  == Hashes(self, seq, proof)
           T     == {k \in 0 .. h : hash[k] = up[k][path[k] + 1]}
<1>1. /\ h \in Nat /\ size[h] = 1 /\ path[h] = 0 /\ path[0] = seq
      /\ \A k \in 1 .. h : up[k][path[k] + 1] = Parent(up[k - 1], path[k - 1], size[k - 1])
      /\ up[0][seq + 1] = LeafHash(self)
      /\ up[h][1] = MerkleRoot(entries)
    BY Climb
<1>2. /\ Len(proof) = h
      /\ \A k \in 1 .. h : proof[k] = up[k - 1][Sibling(path[k - 1], size[k - 1]) + 1]
    BY ProofHolds
<1>3. /\ hash[0] = LeafHash(self)
      /\ \A k \in 1 .. h : hash[k] = IF path[k - 1] % 2 = 0 THEN NodeHash(hash[k - 1], proof[k])
                                   ELSE NodeHash(proof[k], hash[k - 1])
  <2>1. Len(proof) \in Nat
      BY <1>1, <1>2, Zenon
  <2> HIDE DEF proof, self
  <2>2. HashRun(hash, Paths(seq, Len(proof)), self, proof)
      BY <2>1, HashesRun, Zenon
  <2> HIDE DEF hash
  <2>3. HashRun(hash, path, self, proof)
      BY <1>2, <2>2, Zenon
  <2> HIDE DEF h, path
  <2> QED
      BY <1>2, <2>3, Zenon DEF HashRun
<1>4. VerifyMerkleProof(self, seq, n, proof, MerkleRoot(entries))
        <=> seq < n /\ size[h] = 1 /\ hash[h] = MerkleRoot(entries)
  <2> HIDE DEF h, proof, self
  <2> QED
      BY <1>2 DEF VerifyMerkleProof
<1>5. seq < n
    OBVIOUS
<1> HIDE DEF n, h, up, size, path, proof, self, hash
<1>6. 0 \in T
    BY <1>1, <1>3
<1>7. ASSUME NEW k \in 0 .. h - 1, k \in T PROVE k + 1 \in T
  <2>1. k + 1 \in 1 .. h /\ k + 1 \in 0 .. h /\ (k + 1) - 1 = k
      BY <1>1
  <2>2. up[k + 1][path[k + 1] + 1] = Parent(up[k], path[k], size[k])
      BY <1>1, <2>1
  <2>3. proof[k + 1] = up[k][Sibling(path[k], size[k]) + 1]
      BY <1>2, <2>1
  <2>4. hash[k + 1] = IF path[k] % 2 = 0 THEN NodeHash(hash[k], proof[k + 1])
                      ELSE NodeHash(proof[k + 1], hash[k])
      BY <1>3, <2>1
  <2>5. hash[k] = up[k][path[k] + 1]
      BY <1>7
  <2>6. hash[k + 1] = up[k + 1][path[k + 1] + 1]
      BY <2>2, <2>3, <2>4, <2>5 DEF Parent
  <2> QED
      BY <2>1, <2>6
<1> HIDE DEF T
<1>8. 0 .. h \subseteq T
    BY <1>1, <1>6, <1>7, SegmentInduction
<1>9. hash[h] = up[h][0 + 1]
  <2>1. h \in T
      BY <1>1, <1>8
  <2> QED
      BY <1>1, <2>1 DEF T
<1>10. VerifyMerkleProof(self, seq, n, proof, MerkleRoot(entries))
    BY <1>1, <1>4, <1>5, <1>9
<1> QED
    BY <1>10 DEF n, proof, self

\* ... and of no other: a proof as long as the tree is high that verifies holds the
\* siblings on the way, and what it is a proof of is the entry at that place.
LEMMA ProofSound ==
    ASSUME NEW entries \in Seq(Sealing), entries # <<>>, NEW seq \in 0 .. Len(entries) - 1,
           NEW self, NEW proof, Len(proof) = Height(Len(entries)),
           VerifyMerkleProof(self, seq, Len(entries), proof, MerkleRoot(entries))
    PROVE  /\ self = entries[seq + 1].self
           /\ Height(Len(entries)) > 0 =>
                proof[1] = LeafHash(entries[Sibling(seq, Len(entries)) + 1].self)
<1> DEFINE n     == Len(entries)
           h     == Height(n)
           up    == Levels(entries)
           size  == Sizes(n, h)
           path  == Paths(seq, h)
           hash  == Hashes(self, seq, proof)
           Good(k) == hash[k] = up[k][path[k] + 1]
           T     == {t \in 0 .. h : Good(h - t)}
<1>1. /\ h \in Nat /\ size[h] = 1 /\ path[h] = 0 /\ path[0] = seq
      /\ \A k \in 1 .. h : up[k][path[k] + 1] = Parent(up[k - 1], path[k - 1], size[k - 1])
      /\ up[0][seq + 1] = LeafHash(entries[seq + 1].self)
      /\ up[h][1] = MerkleRoot(entries)
    BY Climb
<1>2. /\ hash[0] = LeafHash(self)
      /\ \A k \in 1 .. h : hash[k] = IF path[k - 1] % 2 = 0 THEN NodeHash(hash[k - 1], proof[k])
                                   ELSE NodeHash(proof[k], hash[k - 1])
  <2>1. Len(proof) = h /\ h \in Nat
      BY <1>1
  <2> HIDE DEF h, path, hash
  <2>2. path = Paths(seq, Len(proof))
      BY <2>1, Zenon DEF path
  <2>3. Len(proof) \in Nat
      BY <2>1, Zenon
  <2>4. HashRun(hash, path, self, proof)
      BY <2>2, <2>3, HashesRun, Zenon DEF hash
  <2> QED
      BY <2>1, <2>4, Zenon DEF HashRun
<1>3. hash[h] = MerkleRoot(entries)
    BY DEF VerifyMerkleProof
<1>4. size[0] = n /\ n \in Nat \ {0}
  <2>1. n \in Nat \ {0}
      OBVIOUS
  <2> HIDE DEF n, h
  <2> QED
      BY <1>1, <2>1, SizesRun
<1>5. up[0] = Leaves(entries)
    BY <1>1, LevelsRun
<1> HIDE DEF n, h, up, size, path, hash
<1>6. ASSUME NEW k \in 1 .. h, Good(k)
      PROVE  Good(k - 1) /\ proof[k] = up[k - 1][Sibling(path[k - 1], size[k - 1]) + 1]
  <2>1. hash[k] = Parent(up[k - 1], path[k - 1], size[k - 1])
      BY <1>1, <1>6
  <2>2. CASE path[k - 1] % 2 = 0
    <3>1. NodeHash(hash[k - 1], proof[k])
            = NodeHash(up[k - 1][path[k - 1] + 1],
                       up[k - 1][Sibling(path[k - 1], size[k - 1]) + 1])
        BY <1>2, <2>1, <2>2 DEF Parent
    <3> QED
        BY <3>1 DEF NodeHash
  <2>3. CASE path[k - 1] % 2 # 0
    <3>1. NodeHash(proof[k], hash[k - 1])
            = NodeHash(up[k - 1][Sibling(path[k - 1], size[k - 1]) + 1],
                       up[k - 1][path[k - 1] + 1])
        BY <1>2, <2>1, <2>3 DEF Parent
    <3> QED
        BY <3>1 DEF NodeHash
  <2> QED
      BY <2>2, <2>3
<1>7. Good(h)
    BY <1>1, <1>3
<1> HIDE DEF Good
<1>8. 0 \in T
    BY <1>1, <1>7
<1>9. ASSUME NEW t \in 0 .. h - 1, t \in T PROVE t + 1 \in T
  <2>1. h - t \in 1 .. h /\ (h - t) - 1 = h - (t + 1) /\ t + 1 \in 0 .. h
      BY <1>1
  <2>2. Good((h - t) - 1)
      BY <1>6, <1>9, <2>1
  <2> QED
      BY <2>1, <2>2
<1> HIDE DEF T
<1>10. 0 .. h \subseteq T
    BY <1>1, <1>8, <1>9, SegmentInduction
<1>11. \A k \in 0 .. h : Good(k)
  <2> SUFFICES ASSUME NEW k \in 0 .. h PROVE Good(k)
      OBVIOUS
  <2>1. h - k \in 0 .. h /\ h - (h - k) = k
      BY <1>1
  <2>2. h - k \in T
      BY <1>10, <2>1
  <2> QED
      BY <2>1, <2>2 DEF T
<1>12. self = entries[seq + 1].self
  <2>1. Good(0)
      BY <1>1, <1>11
  <2>2. LeafHash(self) = LeafHash(entries[seq + 1].self)
      BY <1>1, <1>2, <2>1 DEF Good
  <2> QED
      BY <2>2 DEF LeafHash
<1>13. ASSUME h > 0 PROVE proof[1] = LeafHash(entries[Sibling(seq, n) + 1].self)
  <2>1. 1 \in 1 .. h /\ 1 - 1 = 0 /\ 1 \in 0 .. h
      BY <1>1, <1>13
  <2>2. proof[1] = up[0][Sibling(path[0], size[0]) + 1]
      BY <1>6, <1>11, <2>1
  <2>3. proof[1] = Leaves(entries)[Sibling(seq, n) + 1]
      BY <1>1, <1>4, <1>5, <2>2
  <2>4. Sibling(seq, n) + 1 \in DOMAIN entries
      BY <1>4 DEF Sibling, n
  <2> QED
      BY <2>3, <2>4 DEF Leaves
<1> QED
    BY <1>12, <1>13 DEF n, h

-----------------------------------------------------------------------------
(* Proofs of inclusion *)

\* Two leaves with the same sibling are one.
LEMMA SiblingInjective ==
    ASSUME NEW n \in Nat, NEW a \in 0 .. n - 1, NEW b \in 0 .. n - 1,
           Sibling(a, n) = Sibling(b, n)
    PROVE  a = b
<1>1. a % 2 \in {0, 1} /\ b % 2 \in {0, 1}
    OBVIOUS
<1> QED
    BY <1>1 DEF Sibling

LEMMA ChainProvable ==
    ASSUME NEW entries, Chain(entries),
           NEW i \in 1 .. Len(entries), NEW j \in 1 .. Len(entries), NEW k \in 1 .. Len(entries)
    PROVE  VerifyMerkleProof(entries[i].self, j - 1, Len(entries), MerkleProof(entries, k - 1),
                             MerkleRoot(entries))
             <=> i = k /\ j = k
<1> DEFINE n     == Len(entries)
           h     == Height(n)
           root  == MerkleRoot(entries)
           proof == MerkleProof(entries, k - 1)
           Verifies(x, y) == VerifyMerkleProof(entries[x].self, y - 1, n, proof, root)
<1>1. entries \in Seq(Sealing) /\ entries # <<>> /\ n \in Nat \ {0}
    BY DEF Chain
<1>2. j - 1 \in 0 .. n - 1 /\ k - 1 \in 0 .. n - 1 /\ (j - 1) + 1 = j /\ (k - 1) + 1 = k
    BY <1>1
<1>3. Verifies(k, k)
    BY <1>1, <1>2, ProofVerifies
<1>4. Len(proof) = h
    BY <1>1, ProofHolds
<1>5. ASSUME Verifies(i, j) PROVE i = j /\ j = k
  <2>1. /\ entries[i].self = entries[j].self
        /\ h > 0 => proof[1] = LeafHash(entries[Sibling(j - 1, n) + 1].self)
    <3> HIDE DEF n, h, proof, root
    <3> QED
        BY <1>1, <1>2, <1>4, <1>5, ProofSound DEF n, h, root
  <2>2. h > 0 => proof[1] = LeafHash(entries[Sibling(k - 1, n) + 1].self)
    <3> HIDE DEF n, h, proof, root
    <3> QED
        BY <1>1, <1>2, <1>3, <1>4, ProofSound DEF n, h, root
  <2>3. \A x \in 1 .. n : Len(entries[x].self) = x
      BY ChainLengths
  <2>4. i = j
      BY <2>1, <2>3
  <2>5. CASE h > 0
    <3> DEFINE x == Sibling(j - 1, n) + 1
               y == Sibling(k - 1, n) + 1
    <3>1. x \in 1 .. n /\ y \in 1 .. n
        BY <1>1 DEF Sibling
    <3>2. entries[x].self = entries[y].self
        BY <2>1, <2>2, <2>5 DEF LeafHash
    <3>3. x = y
      <4> HIDE DEF x, y
      <4> QED
          BY <2>3, <3>1, <3>2
    <3>4. Sibling(j - 1, n) = Sibling(k - 1, n)
      <4>1. Sibling(j - 1, n) \in Int /\ Sibling(k - 1, n) \in Int
          BY <1>1 DEF Sibling
      <4> QED
          BY <3>3, <4>1
    <3>5. j - 1 = k - 1
      <4> HIDE DEF n
      <4> QED
          BY <1>1, <1>2, <3>4, SiblingInjective
    <3> QED
        BY <1>2, <2>4, <3>5
  <2>6. CASE ~(h > 0)
    <3>1. h \in Nat /\ Sizes(n, h)[h] = 1
      <4> HIDE DEF n
      <4> QED
          BY <1>1, HeightType DEF h
    <3>2. Sizes(n, h)[0] = n
      <4> HIDE DEF n, h
      <4> QED
          BY <1>1, <3>1, SizesRun
    <3>3. n = 1
      <4> HIDE DEF n, h
      <4>1. h = 0
          BY <2>6, <3>1
      <4> QED
          BY <3>1, <3>2, <4>1
    <3> QED
        BY <2>4, <3>3
  <2> QED
      BY <2>5, <2>6
<1> HIDE DEF Verifies
<1>6. Verifies(i, j) <=> i = k /\ j = k
    BY <1>3, <1>5
<1> QED
    BY <1>6 DEF Verifies, n, root, proof

\* Every sealed entry has a proof of inclusion, whatever the length of the
\* ledger, and it proves that entry at that place and nothing else.
THEOREM Provable == Spec => []EntriesProvable
<1>1. ASSUME ChainInv PROVE EntriesProvable
  <2>1. Chain(ledger.entries)
      BY <1>1, LedgerChain
  <2>2. \A i, j, k \in 1 .. Length :
          VerifyMerkleProof(ledger.entries[i].self, j - 1, Length,
                            MerkleProof(ledger.entries, k - 1), MerkleRoot(ledger.entries))
            <=> i = k /\ j = k
      BY <2>1, ChainProvable DEF Length
  <2> QED
      BY <2>2 DEF EntriesProvable
<1> QED
    BY <1>1, ChainInit, ChainKept, PTL DEF Spec

-----------------------------------------------------------------------------
(* Equal roots *)

LEMMA AboveInjective ==
    ASSUME NEW m \in Nat, NEW a, a = [i \in 1 .. m |-> a[i]],
           NEW b, b = [i \in 1 .. m |-> b[i]], Above(a) = Above(b)
    PROVE  a = b
<1>1. ASSUME NEW i \in 1 .. m PROVE a[i] = b[i]
  <2> DEFINE q == i - 1
  <2>1. q \in 0 .. m - 1 /\ q + 1 = i
      OBVIOUS
  <2> HIDE DEF q
  <2>2. Parent(a, q, m) = Parent(b, q, m)
    <3>1. Above(a)[q \div 2 + 1] = Parent(a, q, m)
        BY <2>1, NodeOver
    <3>2. Above(b)[q \div 2 + 1] = Parent(b, q, m)
        BY <2>1, NodeOver
    <3> QED
        BY <3>1, <3>2
  <2>3. a[q + 1] = b[q + 1]
    <3>1. CASE q % 2 = 0
        BY <2>2, <3>1 DEF Parent, NodeHash
    <3>2. CASE q % 2 # 0
        BY <2>2, <3>2 DEF Parent, NodeHash
    <3> QED
        BY <3>1, <3>2
  <2> QED
      BY <2>1, <2>3
<1>2. [i \in 1 .. m |-> a[i]] = [i \in 1 .. m |-> b[i]]
    BY <1>1
<1> QED
    BY <1>2

\* Trees of the same size with the same root have the same leaves.
LEMMA RootInjective ==
    ASSUME NEW a \in Seq(Sealing), NEW b \in Seq(Sealing), a # <<>>, Len(a) = Len(b),
           MerkleRoot(a) = MerkleRoot(b)
    PROVE  \A i \in 1 .. Len(a) : a[i].self = b[i].self
<1> DEFINE n    == Len(a)
           h    == Height(n)
           ua   == Levels(a)
           ub   == Levels(b)
           size == Sizes(n, h)
           Same(k) == ua[k] = ub[k]
           T    == {t \in 0 .. h : Same(h - t)}
<1>1. n \in Nat \ {0} /\ h \in Nat /\ size[h] = 1 /\ b # <<>>
    BY HeightType
<1>2. size \in [0 .. h -> Nat]
    BY <1>1, SizesRun
<1>3. \A k \in 0 .. h : /\ ua[k] = [i \in 1 .. size[k] |-> ua[k][i]]
                        /\ ub[k] = [i \in 1 .. size[k] |-> ub[k][i]]
    BY <1>1, LevelSizes
<1>4. ua[0] = Leaves(a) /\ \A k \in 1 .. h : ua[k] = Above(ua[k - 1])
    BY <1>1, LevelsRun
<1>5. ub[0] = Leaves(b) /\ \A k \in 1 .. h : ub[k] = Above(ub[k - 1])
  <2>1. Height(Len(b)) = h
      OBVIOUS
  <2> HIDE DEF h
  <2> QED
      BY <1>1, <2>1, LevelsRun
<1>6. ua[h][1] = ub[h][1]
    BY <1>1 DEF MerkleRoot
<1>7. DOMAIN a = 1 .. n /\ DOMAIN b = 1 .. n
    OBVIOUS
<1> HIDE DEF n, h, ua, ub, size
<1>8. Same(h)
  <2>1. h \in 0 .. h
      BY <1>1
  <2>2. ua[h] = [i \in 1 .. 1 |-> ua[h][i]] /\ ub[h] = [i \in 1 .. 1 |-> ub[h][i]]
      BY <1>1, <1>3, <2>1
  <2>3. \A i \in 1 .. 1 : ua[h][i] = ub[h][i]
      BY <1>6
  <2> QED
      BY <2>2, <2>3
<1>9. ASSUME NEW k \in 1 .. h, Same(k) PROVE Same(k - 1)
  <2> DEFINE x == ua[k - 1]
             y == ub[k - 1]
             m == size[k - 1]
  <2>1. k - 1 \in 0 .. h
      BY <1>1
  <2>2. m \in Nat /\ x = [i \in 1 .. m |-> x[i]] /\ y = [i \in 1 .. m |-> y[i]]
      BY <1>2, <1>3, <2>1
  <2>3. Above(x) = Above(y)
      BY <1>4, <1>5, <1>9
  <2> HIDE DEF x, y, m
  <2>4. x = y
      BY <2>2, <2>3, AboveInjective
  <2> QED
      BY <2>4 DEF x, y
<1> HIDE DEF Same
<1>10. 0 \in T
    BY <1>1, <1>8
<1>11. ASSUME NEW t \in 0 .. h - 1, t \in T PROVE t + 1 \in T
  <2>1. h - t \in 1 .. h /\ (h - t) - 1 = h - (t + 1) /\ t + 1 \in 0 .. h
      BY <1>1
  <2>2. Same((h - t) - 1)
      BY <1>9, <1>11, <2>1
  <2> QED
      BY <2>1, <2>2
<1> HIDE DEF T
<1>12. h \in T
  <2>1. 0 .. h \subseteq T
      BY <1>1, <1>10, <1>11, SegmentInduction
  <2> QED
      BY <1>1, <2>1
<1>13. Leaves(a) = Leaves(b)
  <2>1. Same(0)
      BY <1>1, <1>12 DEF T
  <2> QED
      BY <1>4, <1>5, <2>1 DEF Same
<1>14. ASSUME NEW i \in 1 .. n PROVE a[i].self = b[i].self
  <2>1. LeafHash(a[i].self) = LeafHash(b[i].self)
    <3>1. Leaves(a)[i] = LeafHash(a[i].self) /\ Leaves(b)[i] = LeafHash(b[i].self)
        BY <1>7, <1>14 DEF Leaves
    <3> QED
        BY <1>13, <3>1
  <2> QED
      BY <2>1 DEF LeafHash
<1> QED
    BY <1>14 DEF n

\* A window of two chains of one length with the same root ends in one entry, and
\* so the chains agree from the first entry on.
LEMMA WindowPrefix ==
    ASSUME NEW a, Chain(a), NEW b, Chain(b), Len(a) = Len(b),
           NEW start \in Nat, NEW end \in Nat, InRange(start, end, Len(a)),
           WindowRoot(a, start, end) = WindowRoot(b, start, end)
    PROVE  SubSeq(a, 1, end + 1) = SubSeq(b, 1, end + 1)
<1> DEFINE x == SubSeq(a, start + 1, end + 1)
           y == SubSeq(b, start + 1, end + 1)
           n == end + 1 - start
<1>1. a \in Seq(Sealing) /\ b \in Seq(Sealing) /\ Len(a) \in Nat
    BY DEF Chain
<1>2. start <= end /\ end < Len(a) /\ n \in Nat \ {0}
    BY <1>1 DEF InRange
<1>3. /\ x \in Seq(Sealing) /\ y \in Seq(Sealing) /\ Len(x) = n /\ Len(y) = n
      /\ x[n] = a[end + 1] /\ y[n] = b[end + 1]
  <2>1. /\ x \in Seq(Sealing) /\ Len(x) = n
        /\ \A i \in 1 .. n : x[i] = a[start + i]
      BY <1>1, <1>2
  <2>2. /\ y \in Seq(Sealing) /\ Len(y) = n
        /\ \A i \in 1 .. n : y[i] = b[start + i]
      BY <1>1, <1>2
  <2>3. n \in 1 .. n /\ start + n = end + 1
      BY <1>2
  <2> HIDE DEF x, y, n
  <2> QED
      BY <2>1, <2>2, <2>3
<1>4. MerkleRoot(x) = MerkleRoot(y)
    BY DEF WindowRoot
<1> HIDE DEF x, y, n
<1>5. x[n].self = y[n].self
  <2>1. x # <<>> /\ n \in 1 .. Len(x)
      BY <1>2, <1>3
  <2> QED
      BY <1>3, <1>4, <2>1, RootInjective
<1>6. a[end + 1].self = b[end + 1].self /\ end + 1 \in 1 .. Len(a) /\ end + 1 <= Len(b)
    BY <1>1, <1>2, <1>3, <1>5
<1> QED
    BY <1>6, ChainPrefix

-----------------------------------------------------------------------------
(* Files *)

Line == [seq : Nat, entry : Entry]

\* A ledger rebuilt from any lines is sound.
LEMMA RebuildSound ==
    ASSUME NEW lines \in Seq(Line)
    PROVE  Rebuild(lines) \in SoundLedger
<1> DEFINE n == Len(lines)
           Runs(f) == f = [i \in 0 .. n |-> IF i = 0 THEN NewLedger
                                           ELSE AppendEntry(f[i - 1], lines[i].entry)]
           step == [x \in (1 .. n) \X SoundLedger |-> AppendEntry(x[2], lines[x[1]].entry)]
           after == CHOOSE f : Runs(f)
<1>1. n \in Nat /\ \A i \in 1 .. n : lines[i].entry \in Entry
  <2>1. \A i \in 1 .. n : lines[i] \in Line
      OBVIOUS
  <2> QED
      BY <2>1 DEF Line
<1>2. Rebuild(lines) = after[n]
    BY Zenon DEF Rebuild
<1> HIDE DEF n
<1>3. /\ step \in Steps(n, SoundLedger)
      /\ \A i \in 1 .. n, l \in SoundLedger :
           step[<<i, l>>] = AppendEntry(l, lines[i].entry)
  <2>1. \A i \in 1 .. n, l \in SoundLedger : AppendEntry(l, lines[i].entry) \in SoundLedger
      BY <1>1, AppendSound
  <2> QED
      BY <2>1 DEF Steps
<1> HIDE DEF step
<1>4. PICK f : Iterates(f, n, SoundLedger, NewLedger, step)
    BY <1>1, <1>3, NewSound, SegmentRecursion
<1>5. Runs(f)
  <2>1. \A i \in 0 .. n : f[i] = IF i = 0 THEN NewLedger ELSE AppendEntry(f[i - 1], lines[i].entry)
    <3> SUFFICES ASSUME NEW i \in 0 .. n
                 PROVE  f[i] = IF i = 0 THEN NewLedger
                               ELSE AppendEntry(f[i - 1], lines[i].entry)
        OBVIOUS
    <3>1. CASE i = 0
        BY <1>4, <3>1 DEF Iterates
    <3>2. CASE i # 0
      <4>1. i \in 1 .. n /\ i - 1 \in 0 .. n
          BY <1>1, <3>2
      <4>2. f[i - 1] \in SoundLedger /\ f[i] = step[<<i, f[i - 1]>>]
          BY <1>4, <4>1 DEF Iterates
      <4> QED
          BY <1>3, <3>2, <4>1, <4>2
    <3> QED
        BY <3>1, <3>2
  <2> QED
      BY <1>4, <2>1 DEF Iterates
<1>6. Runs(after)
  <2> HIDE DEF Runs
  <2> QED
      BY <1>5, Zenon
<1> HIDE DEF after
<1>7. after[0] = NewLedger /\ \A i \in 1 .. n : after[i] = AppendEntry(after[i - 1], lines[i].entry)
    BY <1>1, <1>6
<1> DEFINE T == {i \in 0 .. n : after[i] \in SoundLedger}
<1>8. 0 \in T
    BY <1>1, <1>7, NewSound
<1>9. ASSUME NEW i \in 0 .. n - 1, i \in T PROVE i + 1 \in T
  <2>1. i + 1 \in 1 .. n /\ i + 1 \in 0 .. n /\ (i + 1) - 1 = i
      BY <1>1
  <2>2. after[i + 1] = AppendEntry(after[i], lines[i + 1].entry)
      BY <1>7, <2>1
  <2>3. after[i] \in SoundLedger /\ lines[i + 1].entry \in Entry
      BY <1>1, <1>9, <2>1
  <2> QED
      BY <2>1, <2>2, <2>3, AppendSound
<1> HIDE DEF T
<1>10. n \in T
  <2>1. 0 .. n \subseteq T
      BY <1>1, <1>8, <1>9, SegmentInduction
  <2> QED
      BY <1>1, <2>1
<1> QED
    BY <1>2, <1>10 DEF T

LEMMA LineFields ==
    ASSUME NEW x \in Line
    PROVE  /\ x.seq \in Nat /\ x.entry \in Entry
           /\ \A n \in Nat : [x EXCEPT !.seq = n] \in Line
           /\ \A e \in Entry : [x EXCEPT !.entry = e] \in Line
BY DEF Line

\* An edited file still has lines.
LEMMA EditedLines ==
    ASSUME NEW lines \in Seq(Line), NEW edited \in Edited(lines)
    PROVE  edited \in Seq(Line)
<1>1. ASSUME NEW i \in DOMAIN lines PROVE RemoveAt(lines, i) \in Seq(Line)
  <2>1. i \in 1 .. Len(lines) /\ Len(lines) \in Nat
      OBVIOUS
  <2>2. SubSeq(lines, 1, i - 1) \in Seq(Line) /\ SubSeq(lines, i + 1, Len(lines)) \in Seq(Line)
      BY <2>1
  <2> QED
      BY <2>2 DEF RemoveAt
<1>2. ASSUME NEW s \in Seq(Line) PROVE Renumbered(s) \in Seq(Line)
  <2>1. \A i \in 1 .. Len(s) : [s[i] EXCEPT !.seq = i - 1] \in Line
    <3> SUFFICES ASSUME NEW i \in 1 .. Len(s) PROVE [s[i] EXCEPT !.seq = i - 1] \in Line
        OBVIOUS
    <3>1. s[i] \in Line /\ i - 1 \in Nat
        OBVIOUS
    <3> QED
        BY <3>1, LineFields
  <2>2. DOMAIN s = 1 .. Len(s) /\ Len(s) \in Nat
      OBVIOUS
  <2> DEFINE r == Renumbered(s)
  <2>3. r \in [1 .. Len(s) -> Line]
      BY <2>1, <2>2 DEF Renumbered
  <2> HIDE DEF r
  <2>4. r \in Seq(Line)
      BY <2>2, <2>3, SeqDef
  <2> QED
      BY <2>4 DEF r
<1>3. ASSUME NEW i \in DOMAIN lines, NEW e \in Entry
      PROVE  [lines EXCEPT ![i].entry = e] \in Seq(Line)
  <2>1. lines[i] \in Line
      OBVIOUS
  <2>2. [lines[i] EXCEPT !.entry = e] \in Line
      BY <2>1, LineFields
  <2> DEFINE y == [lines[i] EXCEPT !.entry = e]
  <2> HIDE DEF y
  <2>3. [lines EXCEPT ![i] = y] \in Seq(Line)
      BY <2>2 DEF y
  <2> QED
      BY <2>3 DEF y
<1>4. CASE \E i \in DOMAIN lines, e \in Entry : edited = [lines EXCEPT ![i].entry = e]
    BY <1>3, <1>4, Zenon
<1>5. CASE \E i \in DOMAIN lines : edited = RemoveAt(lines, i)
    BY <1>1, <1>5, Zenon
<1>6. CASE \E i \in DOMAIN lines : edited = Renumbered(RemoveAt(lines, i))
    BY <1>1, <1>2, <1>6, Zenon
<1>7. \/ \E i \in DOMAIN lines, e \in Entry : edited = [lines EXCEPT ![i].entry = e]
      \/ \E i \in DOMAIN lines : edited = RemoveAt(lines, i)
      \/ \E i \in DOMAIN lines : edited = Renumbered(RemoveAt(lines, i))
    BY DEF Edited
<1> QED
    BY <1>4, <1>5, <1>6, <1>7, Zenon

-----------------------------------------------------------------------------
(* Receipts *)

\* A receipt, edited or not, carries the signature it was sealed with.
ReceiptOf(r, original) ==
    /\ r = [root |-> r.root, start |-> r.start, end |-> r.end, len |-> r.len,
            signature |-> r.signature, inclusions |-> r.inclusions]
    /\ r.signature = original.signature

SealedAs(s) ==
    /\ Chain(s.entries)
    /\ \E start, end \in Nat, wanted \in SUBSET Nat :
         /\ InRange(start, end, Len(s.entries))
         /\ s.receipt = Receipt(s.entries, start, end, wanted)

\* The inductive invariant of receipts.
ReceiptInv ==
    /\ ChainInv
    /\ exported # None => exported \in Seq(Line)
    /\ sealed # None => SealedAs(sealed) /\ ReceiptOf(receipt, sealed.receipt)

LEMMA GivenChains ==
    ASSUME ReceiptInv, NEW entries \in Given
    PROVE  Chain(entries)
<1>1. CASE entries = ledger.entries
    BY <1>1, LedgerChain DEF ReceiptInv
<1>2. CASE exported # None /\ entries = Rebuild(exported).entries
    BY <1>2, RebuildSound, SoundFields DEF ReceiptInv
<1> QED
    BY <1>1, <1>2 DEF Given

LEMMA ReceiptFields ==
    ASSUME NEW entries, NEW start, NEW end, NEW wanted, NEW r,
           r = Receipt(entries, start, end, wanted)
    PROVE  /\ r = [root |-> r.root, start |-> r.start, end |-> r.end, len |-> r.len,
                   signature |-> r.signature, inclusions |-> r.inclusions]
           /\ r.root = WindowRoot(entries, start, end)
           /\ r.start = start /\ r.end = end /\ r.len = Len(entries)
           /\ r.signature = Binding(r.root, start, end, Len(entries))
           /\ r.inclusions = {[seq |-> i, self |-> entries[i + 1].self,
                                path |-> MerkleProof(entries, i)] :
                               i \in {j \in wanted : j < Len(entries)}}
<1> DEFINE root == WindowRoot(entries, start, end)
           len  == Len(entries)
           sig  == Binding(root, start, end, len)
           incs == {[seq |-> i, self |-> entries[i + 1].self, path |-> MerkleProof(entries, i)] :
                      i \in {j \in wanted : j < Len(entries)}}
<1>1. r = [root |-> root, start |-> start, end |-> end, len |-> len, signature |-> sig,
           inclusions |-> incs]
    BY DEF Receipt
<1>2. sig = Binding(root, start, end, len)
    OBVIOUS
<1> HIDE DEF root, len, sig, incs
<1>3. /\ r.root = root /\ r.start = start /\ r.end = end /\ r.len = len
      /\ r.signature = sig /\ r.inclusions = incs
    BY <1>1
<1> QED
    BY <1>1, <1>2, <1>3 DEF root, len, incs

LEMMA SealKept ==
    ASSUME ReceiptInv, NEW entries \in Given, NEW start \in Nat, NEW end \in Nat,
           NEW wanted \in SUBSET Nat, Seal(entries, start, end, wanted)
    PROVE  ReceiptInv'
<1> DEFINE r == Receipt(entries, start, end, wanted)
           s == [receipt |-> r, entries |-> entries]
<1>1. /\ Chain(entries) /\ entries \in Seq(Sealing) /\ Len(entries) \in Nat
      /\ InRange(start, end, Len(entries))
    BY GivenChains DEF Chain, Seal
<1>2. receipt' = r /\ sealed' = s /\ ledger' = ledger /\ exported' = exported
    BY DEF Seal
<1>3. s.receipt = r /\ s.entries = entries
    OBVIOUS
<1> HIDE DEF s
<1>4. SealedAs(s)
    BY <1>1, <1>3 DEF SealedAs
<1> HIDE DEF r
<1>5. ReceiptOf(r, r)
    BY ReceiptFields DEF ReceiptOf, r
<1>6. ChainInv'
    BY <1>2 DEF ReceiptInv, ChainInv
<1> QED
    BY <1>2, <1>3, <1>4, <1>5, <1>6 DEF ReceiptInv

LEMMA ExportKept ==
    ASSUME ReceiptInv, Export
    PROVE  ReceiptInv'
<1> DEFINE es    == ledger.entries
           n     == Len(es)
           lines == [i \in DOMAIN es |-> [seq |-> es[i].seq, entry |-> es[i].entry]]
<1>1. es \in Seq(Sealing) /\ n \in Nat
    BY SoundFields DEF ReceiptInv, ChainInv
<1>2. lines \in [1 .. n -> Line]
  <2>1. DOMAIN es = 1 .. n
      BY <1>1
  <2>2. ASSUME NEW i \in 1 .. n PROVE [seq |-> es[i].seq, entry |-> es[i].entry] \in Line
    <3>1. es[i] \in Sealing
        BY <1>1
    <3>2. es[i].seq \in Nat /\ es[i].entry \in Entry
        BY <3>1, SealingFields
    <3> QED
        BY <3>2 DEF Line
  <2> QED
      BY <2>1, <2>2
<1>3. exported' = lines /\ ledger' = ledger /\ receipt' = receipt /\ sealed' = sealed
    BY DEF Export
<1> HIDE DEF lines, n
<1>4. lines \in Seq(Line)
    BY <1>1, <1>2, SeqDef
<1> QED
    BY <1>3, <1>4 DEF ReceiptInv, ChainInv

LEMMA EditReceiptKept ==
    ASSUME ReceiptInv, EditReceipt
    PROVE  ReceiptInv'
<1>1. ledger' = ledger /\ exported' = exported /\ sealed' = sealed
    BY DEF EditReceipt
<1>2. SUFFICES ASSUME sealed # None
               PROVE  ReceiptOf(receipt', sealed.receipt)
    BY <1>1 DEF ReceiptInv, ChainInv
<1>3. ReceiptOf(receipt, sealed.receipt)
    BY <1>2 DEF ReceiptInv
<1> DEFINE By(x, y) ==
             receipt' \in {[receipt EXCEPT !.start = x], [receipt EXCEPT !.end = x],
                          [receipt EXCEPT !.len = x], [receipt EXCEPT !.root = x],
                          [receipt EXCEPT !.inclusions = y]}
<1>4. \E x, y : By(x, y)
  <2>1. CASE \E n \in 0 .. MaxSealed :
               receipt' \in {[receipt EXCEPT !.start = n], [receipt EXCEPT !.end = n],
                             [receipt EXCEPT !.len = n]}
      BY <2>1
  <2>2. CASE \E entries \in Given :
               receipt' = [receipt EXCEPT !.root =
                             WindowRoot(entries, receipt.start, receipt.end)]
      BY <2>2
  <2>3. CASE \E inc : receipt' \in {[receipt EXCEPT !.inclusions = @ \cup {inc}],
                                    [receipt EXCEPT !.inclusions = @ \ {inc}]}
      BY <2>3
  <2> QED
      BY <2>1, <2>2, <2>3 DEF EditReceipt
<1>5. ASSUME NEW x, NEW y, By(x, y)
      PROVE  ReceiptOf(receipt', sealed.receipt)
    BY <1>3, <1>5 DEF ReceiptOf
<1> QED
    BY <1>4, <1>5

LEMMA ReceiptKept == ReceiptInv /\ [Next]_vars => ReceiptInv'
<1> SUFFICES ASSUME ReceiptInv, [Next]_vars PROVE ReceiptInv'
    OBVIOUS
<1>1. ChainInv'
    BY ChainKept DEF ReceiptInv
<1>2. ASSUME exported' = exported, receipt' = receipt, sealed' = sealed PROVE ReceiptInv'
    BY <1>1, <1>2 DEF ReceiptInv
<1>3. CASE \/ \E p \in Emitter, entry \in Entry : Emit(p, entry)
           \/ \E p \in Emitter : Dispatch(p)
           \/ UNCHANGED vars
    BY <1>2, <1>3 DEF Emit, Dispatch, vars
<1>4. ASSUME NEW entries \in Given, NEW start \in 0 .. MaxSealed, NEW end \in 0 .. MaxSealed,
             NEW wanted \in {{}, 0 .. MaxSealed}, Seal(entries, start, end, wanted)
      PROVE  ReceiptInv'
  <2> DEFINE bounds == 0 .. MaxSealed
  <2>1. bounds \subseteq Nat
      OBVIOUS
  <2> HIDE DEF bounds
  <2>2. start \in bounds /\ end \in bounds /\ wanted \in {{}, bounds}
      BY DEF bounds
  <2>3. start \in Nat /\ end \in Nat /\ wanted \in SUBSET Nat
      BY <2>1, <2>2
  <2> QED
      BY <1>4, <2>3, SealKept
<1>5. CASE Export
    BY <1>5, ExportKept
<1>6. CASE EditFile
  <2>1. exported' \in Seq(Line)
      BY <1>6, EditedLines DEF EditFile, ReceiptInv
  <2> QED
      BY <1>1, <1>6, <2>1 DEF EditFile, ReceiptInv
<1>7. CASE EditReceipt
    BY <1>7, EditReceiptKept
<1> QED
    BY <1>3, <1>4, <1>5, <1>6, <1>7 DEF Next

LEMMA ReceiptInit == Init => ReceiptInv
    BY ChainInit DEF Init, ReceiptInv

\* A receipt that verifies says what was signed, whoever edited it, and the
\* ledger it is verified with is the sealed one up to the end of the window and
\* of every entry the prover included.
THEOREM ReceiptBinds == Spec => []ReceiptMeansUnchanged
<1>1. ASSUME ReceiptInv PROVE ReceiptMeansUnchanged
  <2> SUFFICES ASSUME sealed # None, NEW entries \in Given, Verify(receipt, entries)
               PROVE  /\ \A field \in {"root", "start", "end", "len"} :
                            receipt[field] = sealed.receipt[field]
                      /\ Len(entries) = Len(sealed.entries)
                      /\ SubSeq(entries, 1, receipt.end + 1)
                           = SubSeq(sealed.entries, 1, receipt.end + 1)
                      /\ \A inc \in receipt.inclusions \cap sealed.receipt.inclusions :
                           SubSeq(entries, 1, inc.seq + 1) = SubSeq(sealed.entries, 1, inc.seq + 1)
      BY DEF ReceiptMeansUnchanged
  <2> DEFINE es == sealed.entries
             o  == sealed.receipt
             r  == receipt
  <2>1. SealedAs(sealed) /\ ReceiptOf(r, o)
      BY <1>1 DEF ReceiptInv
  <2>2. Chain(entries) /\ Chain(es) /\ Len(entries) \in Nat /\ Len(es) \in Nat
      BY <1>1, <2>1, GivenChains DEF SealedAs, Chain
  <2>3. PICK start \in Nat, end \in Nat, wanted \in SUBSET Nat :
          InRange(start, end, Len(es)) /\ o = Receipt(es, start, end, wanted)
      BY <2>1 DEF SealedAs
  <2> HIDE DEF es, o, r
  <2>4. /\ o.root = WindowRoot(es, start, end) /\ o.start = start /\ o.end = end
        /\ o.len = Len(es) /\ o.signature = Binding(o.root, start, end, Len(es))
        /\ o.inclusions = {[seq |-> i, self |-> es[i + 1].self, path |-> MerkleProof(es, i)] :
                            i \in {j \in wanted : j < Len(es)}}
      BY <2>3, ReceiptFields
  <2>5. /\ r.len = Len(entries) /\ InRange(r.start, r.end, Len(entries))
        /\ WindowRoot(entries, r.start, r.end) = r.root
        /\ r.signature = Binding(r.root, r.start, r.end, r.len)
        /\ \A inc \in r.inclusions : Included(inc, entries)
      BY DEF Verify, Signed, r
  <2>6. r.signature = o.signature
      BY <2>1 DEF ReceiptOf
  <2>7. r.root = o.root /\ r.start = start /\ r.end = end /\ r.len = Len(es)
      BY <2>4, <2>5, <2>6 DEF Binding
  <2>8. \A field \in {"root", "start", "end", "len"} : r[field] = o[field]
      BY <2>4, <2>7
  <2>9. SubSeq(entries, 1, r.end + 1) = SubSeq(es, 1, r.end + 1)
    <3>1. Len(entries) = Len(es) /\ InRange(start, end, Len(entries))
          /\ WindowRoot(entries, start, end) = WindowRoot(es, start, end)
        BY <2>4, <2>5, <2>7
    <3>2. SubSeq(entries, 1, end + 1) = SubSeq(es, 1, end + 1)
        BY ONLY <2>2, <3>1, WindowPrefix, start \in Nat, end \in Nat
    <3> QED
        BY <2>7, <3>2
  <2>10. ASSUME NEW inc \in r.inclusions \cap o.inclusions
         PROVE  SubSeq(entries, 1, inc.seq + 1) = SubSeq(es, 1, inc.seq + 1)
    <3>1. PICK k \in {j \in wanted : j < Len(es)} :
            inc = [seq |-> k, self |-> es[k + 1].self, path |-> MerkleProof(es, k)]
        BY <2>4
    <3>2. /\ inc.seq \in Nat /\ inc.self = es[inc.seq + 1].self
          /\ inc.seq < Len(entries) /\ entries[inc.seq + 1].self = inc.self
        BY <2>3, <2>5, <3>1 DEF Included
    <3> DEFINE i == inc.seq + 1
    <3>3. i \in 1 .. Len(entries) /\ Len(entries) = Len(es)
        BY <2>2, <2>5, <2>7, <3>2
    <3>4. entries[i].self = es[i].self
        BY <3>2
    <3> HIDE DEF i
    <3>7. SubSeq(entries, 1, i) = SubSeq(es, 1, i)
        BY <2>2, <3>3, <3>4, ChainPrefix
    <3> QED
        BY <3>7 DEF i
  <2> QED
      BY <2>5, <2>7, <2>8, <2>9, <2>10 DEF es, o, r
<1> QED
    BY <1>1, ReceiptInit, ReceiptKept, PTL DEF Spec

\* A receipt nobody edited verifies with every ledger equal to the sealed one,
\* the inclusions included.
THEOREM ReceiptVerifies == Spec => []UneditedVerifies
<1>1. ASSUME ReceiptInv PROVE UneditedVerifies
  <2> SUFFICES ASSUME sealed # None, receipt = sealed.receipt
               PROVE  Verify(receipt, sealed.entries)
      BY DEF UneditedVerifies
  <2> DEFINE es == sealed.entries
             n  == Len(es)
             r  == receipt
  <2>1. SealedAs(sealed)
      BY <1>1 DEF ReceiptInv
  <2>2. Chain(es) /\ es \in Seq(Sealing) /\ n \in Nat
      BY <2>1 DEF SealedAs, Chain
  <2>3. PICK start \in Nat, end \in Nat, wanted \in SUBSET Nat :
          InRange(start, end, n) /\ r = Receipt(es, start, end, wanted)
      BY <2>1 DEF SealedAs
  <2> HIDE DEF es, r
  <2>4. /\ r.root = WindowRoot(es, start, end) /\ r.start = start /\ r.end = end
        /\ r.len = n /\ r.signature = Binding(r.root, start, end, n)
        /\ r.inclusions = {[seq |-> i, self |-> es[i + 1].self, path |-> MerkleProof(es, i)] :
                            i \in {j \in wanted : j < n}}
      BY <2>3, ReceiptFields
  <2>5. ASSUME NEW inc \in r.inclusions PROVE Included(inc, es)
    <3>1. PICK i \in {j \in wanted : j < n} :
            inc = [seq |-> i, self |-> es[i + 1].self, path |-> MerkleProof(es, i)]
        BY <2>4
    <3>2. inc.seq = i /\ inc.self = es[i + 1].self /\ inc.path = MerkleProof(es, i)
        BY <3>1
    <3>3. i \in 0 .. n - 1 /\ es # <<>>
        BY <2>2
    <3>4. VerifyMerkleProof(es[i + 1].self, i, n, MerkleProof(es, i), MerkleRoot(es))
        BY <2>2, <3>3, ProofVerifies
    <3> QED
        BY <2>2, <3>2, <3>3, <3>4 DEF Included
  <2>6. /\ r.len = n /\ InRange(r.start, r.end, n) /\ WindowRoot(es, r.start, r.end) = r.root
        /\ Signed(r, WindowRoot(es, r.start, r.end))
      BY <2>3, <2>4 DEF Signed
  <2> QED
      BY <2>5, <2>6 DEF Verify, es, r
<1> QED
    BY <1>1, ReceiptInit, ReceiptKept, PTL DEF Spec

=============================================================================
