--------------------------- MODULE MemoryTxProofs ---------------------------
(***************************************************************************)
(* Proofs about MemoryTx: for any calls, keys, values and programs, its    *)
(* calls implement the one-instant calls of AtomicStore.                   *)
(*                                                                         *)
(* A commit looks at the rows again, long after the call read them, and by *)
(* version only.  So the invariant speaks of every table that may be there *)
(* by then: if what an open call observed holds in such a table, then its  *)
(* log is what it would have seen and done alone, starting from that       *)
(* table.                                                                  *)
(***************************************************************************)
EXTENDS MemoryTx, TLAPS, FiniteSetTheorems, WellFoundedInduction

-----------------------------------------------------------------------------
(* Natural numbers, finite sets of keys and maps on keys.                  *)

\* Every set of natural numbers has a least element: what induction is here.
LEMMA LeastNat ==
    ASSUME NEW S \in SUBSET Nat, S # {}
    PROVE  \E m \in S : \A n \in S : m <= n
<1> DEFINE T == {0..n : n \in S}
<1>1. T \subseteq FiniteSubsetsOf(Nat)
  <2>1. \A n \in S : IsFiniteSet(0..n)
    BY FS_Interval
  <2>2. \A n \in S : 0..n \in SUBSET Nat
    OBVIOUS
  <2> QED BY <2>1, <2>2 DEF FiniteSubsetsOf
<1>2. PICK x \in T : \A y \in T : ~(<<y, x>> \in StrictSubsetOrdering(Nat))
  <2> HIDE DEF T
  <2>1. T # {}
    BY DEF T
  <2> QED BY <1>1, <2>1, FS_StrictSubsetOrderingWellFounded, WFMin
<1>3. PICK m \in S : x = 0..m
  OBVIOUS
<1>4. ASSUME NEW n \in S, n < m PROVE FALSE
  <2>1. <<0..n, 0..m>> \in StrictSubsetOrdering(Nat)
    BY <1>4 DEF StrictSubsetOrdering
  <2> QED BY <1>2, <1>3, <2>1
<1> QED BY <1>4

Partial(S) == UNION {[D -> S] : D \in SUBSET Key}

LEMMA PartialIntro ==
    ASSUME NEW S, NEW D \in SUBSET Key, NEW f \in [D -> S]
    PROVE  f \in Partial(S)
  BY DEF Partial

LEMMA PartialElim ==
    ASSUME NEW S, NEW f \in Partial(S)
    PROVE  /\ DOMAIN f \in SUBSET Key /\ f \in [DOMAIN f -> S]
           /\ \A k \in DOMAIN f : f[k] \in S
  BY DEF Partial

LEMMA WithType ==
    ASSUME NEW S, NEW f \in Partial(S), NEW k \in Key, NEW v \in S
    PROVE  /\ With(f, k, v) \in Partial(S)
           /\ DOMAIN With(f, k, v) = DOMAIN f \cup {k}
           /\ With(f, k, v)[k] = v
           /\ \A j \in DOMAIN f \ {k} : With(f, k, v)[j] = f[j]
<1>1. DOMAIN f \in SUBSET Key /\ \A j \in DOMAIN f : f[j] \in S
  BY PartialElim
<1>2. With(f, k, v) \in [DOMAIN f \cup {k} -> S] /\ DOMAIN f \cup {k} \in SUBSET Key
  BY <1>1 DEF With
<1>3. With(f, k, v) \in Partial(S)
  BY <1>2, PartialIntro
<1> QED BY <1>1, <1>3 DEF With

\* Leaving out at most n members of a set leaves at least its size less n.
LEMMA Remainder ==
    ASSUME NEW A, NEW B, NEW D, IsFiniteSet(B), IsFiniteSet(D), A \subseteq B \cup D
    PROVE  Cardinality(A) <= Cardinality(B) + Cardinality(D)
<1>1. /\ IsFiniteSet(B \cup D)
      /\ Cardinality(B \cup D) = Cardinality(B) + Cardinality(D) - Cardinality(B \cap D)
  BY FS_Union
<1>2. IsFiniteSet(B \cap D)
  BY FS_Subset
<1>3. /\ Cardinality(B) \in Nat /\ Cardinality(D) \in Nat /\ Cardinality(B \cap D) \in Nat
      /\ Cardinality(B \cup D) \in Nat
  BY <1>1, <1>2, FS_CardinalityType
<1>4. IsFiniteSet(A) /\ Cardinality(A) <= Cardinality(B \cup D)
  BY <1>1, FS_Subset
<1>5. Cardinality(A) \in Nat
  BY <1>4, FS_CardinalityType
<1> QED BY <1>1, <1>3, <1>4, <1>5

\* AtomicStore counts as MemoryTx does.
LEMMA SameCardinality ==
    ASSUME NEW S PROVE Atomic!Cardinality(S) = Cardinality(S)
  BY DEF Cardinality, Atomic!Cardinality

LEMMA FirstOf ==
    ASSUME NEW S, NEW limit
    PROVE  Atomic!First(S, limit) = {k \in S : Cardinality({j \in S : j < k}) < limit}
<1>1. \A k \in S : Atomic!Cardinality({j \in S : j < k}) = Cardinality({j \in S : j < k})
  BY SameCardinality
<1> QED BY <1>1 DEF Atomic!First

\* The first members of a set are found among `seen' if everything that is not
\* there comes after that many members.
LEMMA FirstFound ==
    ASSUME NEW P \in SUBSET Nat, IsFiniteSet(P), NEW limit \in Nat, NEW found \in SUBSET P,
           \A k \in P \ found : Cardinality({j \in P : j < k}) >= limit
    PROVE  Atomic!First(found, limit) = Atomic!First(P, limit)
<1> DEFINE below(S, k) == {j \in S : j < k}
<1>1. \A k \in Nat : /\ IsFiniteSet(below(P, k)) /\ IsFiniteSet(below(found, k))
                     /\ Cardinality(below(P, k)) \in Nat /\ Cardinality(below(found, k)) \in Nat
                     /\ Cardinality(below(found, k)) <= Cardinality(below(P, k))
  <2> TAKE k \in Nat
  <2>1. below(P, k) \subseteq P /\ below(found, k) \subseteq below(P, k)
    OBVIOUS
  <2>2. IsFiniteSet(below(P, k))
    BY <2>1, FS_Subset
  <2>3. IsFiniteSet(below(found, k)) /\ Cardinality(below(found, k)) <= Cardinality(below(P, k))
    BY <2>1, <2>2, FS_Subset
  <2> QED BY <2>2, <2>3, FS_CardinalityType
<1>2. ASSUME NEW k \in P, Cardinality(below(P, k)) < limit
      PROVE  k \in found /\ Cardinality(below(found, k)) < limit
  BY <1>1, <1>2
<1>3. ASSUME NEW k \in found, Cardinality(below(found, k)) < limit
      PROVE  Cardinality(below(P, k)) < limit
  <2>1. CASE below(P, k) \subseteq found
    <3>1. below(P, k) = below(found, k)
      BY <2>1
    <3> QED BY <1>3, <3>1
  <2>2. CASE ~(below(P, k) \subseteq found)
    <3>1. below(P, k) \ found \in SUBSET Nat /\ below(P, k) \ found # {}
      BY <2>2
    <3>2. PICK m \in below(P, k) \ found : \A n \in below(P, k) \ found : m <= n
      BY <3>1, LeastNat
    <3>3. m \in Nat /\ k \in Nat /\ m < k /\ m \in P \ found
      BY <3>2
    <3>4. below(P, m) \subseteq below(found, k)
      <4> SUFFICES ASSUME NEW j \in P, j < m PROVE j \in found /\ j < k
        OBVIOUS
      <4>1. j \in Nat /\ j < k /\ ~(m <= j)
        BY <3>3
      <4> QED BY <3>2, <4>1
    <3>5. Cardinality(below(P, m)) <= Cardinality(below(found, k))
      <4>1. IsFiniteSet(below(found, k))
        BY <1>1, <3>3
      <4> HIDE DEF below
      <4> QED BY <3>4, <4>1, FS_Subset
    <3>6. Cardinality(below(P, m)) >= limit
      BY <3>3
    <3>7. Cardinality(below(P, m)) \in Nat /\ Cardinality(below(found, k)) \in Nat
      BY <1>1, <3>3
    <3> HIDE DEF below
    <3> QED BY <1>3, <3>5, <3>6, <3>7
  <2> QED BY <2>1, <2>2
<1>4. /\ Atomic!First(found, limit) = {k \in found : Cardinality(below(found, k)) < limit}
      /\ Atomic!First(P, limit) = {k \in P : Cardinality(below(P, k)) < limit}
  BY FirstOf
<1> HIDE DEF below
<1> QED BY <1>2, <1>3, <1>4

-----------------------------------------------------------------------------
(* What a log does to the rows.                                            *)

\* V[i] is what the first i operations of a log make of the rows.
Follows(V, ops, values) ==
    /\ V = [i \in 0..Len(ops) |-> V[i]]
    /\ V[0] = values
    /\ \A i \in 1..Len(ops) : V[i] = Atomic!Effect(V[i - 1], ops[i])

\* Alone and from these rows, a log would have seen what it did, and it would
\* have left them as `end'.
Explained(ops, values, end) ==
    \E V : /\ Follows(V, ops, values)
           /\ \A i \in 1..Len(ops) : Atomic!Sees(V[i - 1], ops[i])
           /\ V[Len(ops)] = end

LEMMA ViewsFollow ==
    ASSUME NEW T, NEW ops \in Seq(T), NEW values, NEW V, Follows(V, ops, values)
    PROVE  Atomic!Views(ops, values) = V
<1> DEFINE n == Len(ops)
           W == Atomic!Views(ops, values)
<1>0. n \in Nat
  OBVIOUS
<1>1. V = [i \in 0..n |-> IF i = 0 THEN values ELSE Atomic!Effect(V[i - 1], ops[i])]
  <2>1. \A i \in 0..n : V[i] = IF i = 0 THEN values ELSE Atomic!Effect(V[i - 1], ops[i])
    <3> TAKE i \in 0..n
    <3>1. i = 0 \/ i \in 1..Len(ops)
      BY <1>0
    <3> QED BY <3>1 DEF Follows
  <2> QED BY <2>1 DEF Follows
<1>2. W = [i \in 0..n |-> IF i = 0 THEN values ELSE Atomic!Effect(W[i - 1], ops[i])]
  BY <1>1 DEF Atomic!Views
<1> HIDE DEF W
<1> DEFINE S == {i \in 0..n : W[i] # V[i]}
<1>3. S = {}
  <2> SUFFICES ASSUME S # {} PROVE FALSE
    OBVIOUS
  <2>1. S \in SUBSET Nat
    BY <1>0
  <2>2. PICK m \in S : \A i \in S : m <= i
    <3> HIDE DEF S
    <3> QED BY <2>1, LeastNat
  <2>3. m \in 0..n /\ W[m] # V[m]
    OBVIOUS
  <2>4. m # 0
    BY <1>1, <1>2, <2>3
  <2>5. m - 1 \in 0..n /\ m - 1 \notin S
    BY <1>0, <2>2, <2>3, <2>4
  <2>6. W[m - 1] = V[m - 1]
    BY <2>5
  <2>7. /\ W[m] = Atomic!Effect(W[m - 1], ops[m])
        /\ V[m] = Atomic!Effect(V[m - 1], ops[m])
    BY <1>1, <1>2, <2>3, <2>4
  <2> QED BY <2>3, <2>6, <2>7
<1>4. \A i \in 0..n : W[i] = V[i]
  BY <1>3
<1>5. W = V
  BY <1>1, <1>2, <1>4
<1> QED BY <1>5 DEF W

LEMMA ExplainedEmpty == ASSUME NEW values PROVE Explained(<< >>, values, values)
<1> DEFINE V == [i \in 0..0 |-> values]
<1>1. Follows(V, << >>, values) /\ V[Len(<< >>)] = values
  BY DEF Follows
<1> QED BY <1>1 DEF Explained

\* A log is explained one operation at a time.
LEMMA ExplainedNext ==
    ASSUME NEW T, NEW ops \in Seq(T), NEW o \in T, NEW values, NEW end,
           Explained(ops, values, end), Atomic!Sees(end, o)
    PROVE  Explained(Append(ops, o), values, Atomic!Effect(end, o))
<1> DEFINE n == Len(ops)
           more == Append(ops, o)
<1>0. /\ n \in Nat /\ Len(more) = n + 1 /\ more[n + 1] = o
      /\ \A i \in 1..n : more[i] = ops[i]
  OBVIOUS
<1>1. PICK V : /\ Follows(V, ops, values)
               /\ \A i \in 1..n : Atomic!Sees(V[i - 1], ops[i])
               /\ V[n] = end
  BY DEF Explained
<1> DEFINE W == [i \in 0..(n + 1) |-> IF i = n + 1 THEN Atomic!Effect(end, o) ELSE V[i]]
<1>2. W[n + 1] = Atomic!Effect(end, o) /\ \A i \in 0..n : W[i] = V[i]
  BY <1>0
<1>3. W = [i \in 0..(n + 1) |-> W[i]]
  OBVIOUS
<1> HIDE DEF W, more, n
<1>4. W[0] = values
  <2>1. 0 \in 0..n /\ V[0] = values
    BY <1>0, <1>1 DEF Follows
  <2> QED BY <1>2, <2>1
<1>5. ASSUME NEW i \in 1..(n + 1)
      PROVE  W[i] = Atomic!Effect(W[i - 1], more[i]) /\ Atomic!Sees(W[i - 1], more[i])
  <2>1. CASE i = n + 1
    <3>1. W[i] = Atomic!Effect(end, o) /\ more[i] = o /\ W[i - 1] = end
      BY <1>0, <1>1, <1>2, <2>1
    <3> QED BY <3>1
  <2>2. CASE i # n + 1
    <3>1. i \in 1..n /\ i - 1 \in 0..n /\ i \in 0..n
      BY <1>0, <2>2
    <3>2. W[i] = V[i] /\ W[i - 1] = V[i - 1] /\ more[i] = ops[i]
      BY <1>0, <1>2, <3>1
    <3>3. V[i] = Atomic!Effect(V[i - 1], ops[i]) /\ Atomic!Sees(V[i - 1], ops[i])
      BY <1>1, <3>1 DEF Follows, n
    <3> QED BY <3>2, <3>3
  <2> QED BY <2>1, <2>2
<1>6. Follows(W, more, values)
  BY <1>0, <1>3, <1>4, <1>5 DEF Follows
<1>7. W[Len(more)] = Atomic!Effect(end, o)
  BY <1>0, <1>2
<1>8. \A i \in 1..Len(more) : Atomic!Sees(W[i - 1], more[i])
  BY <1>0, <1>5
<1> QED BY <1>6, <1>7, <1>8 DEF Explained, more

LEMMA ExplainedIsSo ==
    ASSUME NEW T, NEW ops \in Seq(T), NEW values, NEW end, Explained(ops, values, end)
    PROVE  Atomic!Explains(ops, values) /\ Atomic!Views(ops, values)[Len(ops)] = end
<1>1. PICK V : /\ Follows(V, ops, values)
               /\ \A i \in 1..Len(ops) : Atomic!Sees(V[i - 1], ops[i])
               /\ V[Len(ops)] = end
  BY DEF Explained
<1>2. Atomic!Views(ops, values) = V
  BY <1>1, ViewsFollow
<1>3. DOMAIN ops = 1..Len(ops)
  OBVIOUS
<1> QED BY <1>1, <1>2, <1>3 DEF Atomic!Explains

-----------------------------------------------------------------------------
(* Tables, and what a scan finds in one.                                   *)

Held == Value \cup {Missing}

Row == [version : Nat, value : Held]

Table == {t \in [Key -> Row] : \A k \in Key : t[k].version = 0 <=> t[k].value = Missing}

Values(t) == [k \in Key |-> t[k].value]

\* The rows as a transaction with these writes sees them.
Overlay(writes, values) ==
    [k \in Key |-> IF k \in DOMAIN writes THEN writes[k] ELSE values[k]]

RangeRead == [start : Nat, end : Nat, limit : Nat, versions : Partial(Nat)]

Tx == [reads : Partial(Row), scans : SUBSET RangeRead, writes : Partial(Held)]

Present(t, start, end) == {k \in Key : start <= k /\ k < end /\ t[k].version # 0}

LEMMA StoredOf ==
    ASSUME NEW t, NEW start, NEW end, NEW limit
    PROVE  /\ DOMAIN Stored(t, start, end, limit) = Atomic!First(Present(t, start, end), limit)
           /\ DOMAIN Stored(t, start, end, limit) \subseteq Present(t, start, end)
           /\ \A k \in DOMAIN Stored(t, start, end, limit) :
                 Stored(t, start, end, limit)[k] = t[k].version
<1>1. Stored(t, start, end, limit)
        = [k \in Atomic!First(Present(t, start, end), limit) |-> t[k].version]
  BY DEF Stored, Present
<1>2. Atomic!First(Present(t, start, end), limit) \subseteq Present(t, start, end)
  BY FirstOf
<1> QED BY <1>1, <1>2

\* A scan that reads as many rows more as the transaction has writes, and puts
\* the writes over them, finds what a scan of the transaction's view finds: in
\* the table it read, and in any other whose rows there are the same.
LEMMA ScanAgrees ==
    ASSUME NEW x \in Tx, NEW q \in Table, NEW t \in Table,
           NEW o, o.start \in Nat, o.end \in Nat, o.limit \in Nat,
           NEW seen, seen = DOMAIN Stored(q, o.start, o.end, ReadLimit(x, o.limit)),
           seen = DOMAIN Stored(t, o.start, o.end, ReadLimit(x, o.limit)),
           \A k \in seen : t[k] = q[k]
    PROVE  Merged(x, o, q, seen)
             = Atomic!ScanOf(Overlay(x.writes, Values(t)), o.start, o.end, o.limit)
<1> DEFINE w == x.writes
           D == DOMAIN w
           view == Overlay(w, Values(t))
           P == {k \in Key : o.start <= k /\ k < o.end /\ view[k] # Missing}
           own == {k \in D : o.start <= k /\ k < o.end}
           merged == [k \in (seen \cup own) |-> IF k \in own THEN w[k] ELSE q[k].value]
           found == {k \in seen \cup own : merged[k] # Missing}
           there == Present(t, o.start, o.end)
<1>0. Key \subseteq Nat /\ IsFiniteSet(Key)
  BY MemoryAssumption
<1>1. D \in SUBSET Key /\ IsFiniteSet(D) /\ Cardinality(D) \in Nat
  <2>1. D \in SUBSET Key
    BY PartialElim DEF Tx
  <2>2. IsFiniteSet(D)
    BY <1>0, <2>1, FS_Subset
  <2> QED BY <2>1, <2>2, FS_CardinalityType
<1>2. seen = Atomic!First(there, o.limit + Cardinality(D)) /\ seen \subseteq there
  BY StoredOf DEF ReadLimit
<1>3. /\ there \subseteq Key
      /\ \A k \in there : o.start <= k /\ k < o.end /\ t[k].value # Missing
      /\ \A k \in Key \ there : o.start <= k /\ k < o.end => t[k].value = Missing
  BY DEF Present, Table
<1>4. \A k \in Key : view[k] = IF k \in D THEN w[k] ELSE t[k].value
  BY DEF Overlay, Values
<1> HIDE DEF view, there, w, D
<1>5. own \subseteq Key /\ seen \subseteq Key
  BY <1>1, <1>2, <1>3
<1>6. \A k \in seen \cup own : merged[k] = view[k]
  <2> TAKE k \in seen \cup own
  <2>1. CASE k \in own
    BY <1>4, <1>5, <2>1
  <2>2. CASE k \notin own
    <3>1. k \in seen /\ k \in there /\ k \in Key
      BY <1>2, <1>5, <2>2
    <3>2. k \notin D
      BY <1>3, <2>2, <3>1
    <3> QED BY <1>4, <2>2, <3>1, <3>2
  <2> QED BY <2>1, <2>2
<1> HIDE DEF merged
<1>7. found \in SUBSET P
  BY <1>2, <1>3, <1>5, <1>6
<1>8. P \in SUBSET Nat /\ IsFiniteSet(P)
  <2>1. P \subseteq Key
    OBVIOUS
  <2> HIDE DEF P
  <2> QED BY <1>0, <2>1, FS_Subset
<1>9. ASSUME NEW k \in P \ found
      PROVE  Cardinality({j \in P : j < k}) >= o.limit
  <2>1. k \in Key /\ k \notin own /\ k \notin seen
    BY <1>6, <1>9
  <2>2. k \in there
    BY <1>1, <1>3, <1>4, <1>9, <2>1
  <2> DEFINE before == {j \in there : j < k}
             seenBefore == {j \in P : j < k}
  <2>3. before \subseteq seenBefore \cup D
    BY <1>3, <1>4
  <2>4. before \subseteq Key /\ seenBefore \subseteq Key
    BY <1>3
  <2>5. ~(Cardinality(before) < o.limit + Cardinality(D))
    BY <1>2, <2>1, <2>2, FirstOf
  <2> HIDE DEF before, seenBefore
  <2>6. IsFiniteSet(before) /\ IsFiniteSet(seenBefore)
    BY <1>0, <2>4, FS_Subset
  <2>7. Cardinality(before) <= Cardinality(seenBefore) + Cardinality(D)
    BY <1>1, <2>3, <2>6, Remainder
  <2>8. Cardinality(before) \in Nat /\ Cardinality(seenBefore) \in Nat
    BY <2>6, FS_CardinalityType
  <2>9. Cardinality(seenBefore) >= o.limit
    BY <1>1, <2>5, <2>7, <2>8
  <2> QED BY <2>9 DEF seenBefore
<1>10. Atomic!First(found, o.limit) = Atomic!First(P, o.limit)
  <2> HIDE DEF found, P
  <2> QED BY <1>7, <1>8, <1>9, FirstFound
<1>11. Merged(x, o, q, seen) = [k \in Atomic!First(found, o.limit) |-> merged[k]]
  BY DEF Merged, merged, D, w
<1>12. Atomic!ScanOf(view, o.start, o.end, o.limit)
         = [k \in Atomic!First(P, o.limit) |-> view[k]]
  BY DEF Atomic!ScanOf
<1>13. \A k \in Atomic!First(found, o.limit) : merged[k] = view[k]
  BY <1>6, FirstOf
<1> HIDE DEF found, P
<1>14. Merged(x, o, q, seen) = Atomic!ScanOf(view, o.start, o.end, o.limit)
  BY <1>10, <1>11, <1>12, <1>13
<1> QED BY <1>14 DEF view, w

-----------------------------------------------------------------------------
(* The invariant.                                                          *)

Entry ==
    [do : {"get"}, key : Key, saw : Held]
    \cup [do : {"scan"}, start : Nat, end : Nat, limit : Nat, saw : Partial(Held)]
    \cup [do : {"put"}, key : Key, value : Held]

Attempt == [program : Program, log : Seq(Entry), attempt : Nat]

TypeOK ==
    /\ rows \in Table
    /\ fresh \in Nat
    /\ call \in [Call -> Attempt]
    /\ tx \in [Call -> Tx]
    /\ outcome \in [Call -> {"pending", "ok", "lost", "failed"}]
    /\ past \subseteq Key \X Row

\* A key and a version say which row it was.
PastIsSound ==
    \A k \in Key : \A r \in Row : <<k, r>> \in past =>
        /\ r.version <= fresh
        /\ r.version = 0 => r.value = Missing
        /\ \A q \in Row : <<k, q>> \in past /\ q.version = r.version => q = r

RowsAreKnown == \A k \in Key : <<k, rows[k]>> \in past

ReadsAreKnown == \A c \in Call : \A k \in DOMAIN tx[c].reads : <<k, tx[c].reads[k]>> \in past

\* A table that may be there now or later: a version used so far is of the row
\* that had it.
Possible(t) == \A k \in Key : t[k].version <= fresh => t[k].version = 0 \/ <<k, t[k]>> \in past

LogsAreExplained ==
    \A c \in Call : Open(c) =>
        \A t \in Table : Possible(t) /\ Holds(tx[c], t) =>
            Explained(call[c].log, Values(t), Overlay(tx[c].writes, Values(t)))

Inv ==
    /\ TypeOK /\ PastIsSound /\ RowsAreKnown /\ ReadsAreKnown /\ LogsAreExplained

LEMMA NoTxType ==
    /\ NoTx \in Tx /\ DOMAIN NoTx.reads = {} /\ NoTx.scans = {} /\ DOMAIN NoTx.writes = {}
    /\ \A t \in Table : Overlay(NoTx.writes, Values(t)) = Values(t)
<1>1. Empty \in [{} -> Row] /\ Empty \in [{} -> Held] /\ DOMAIN Empty = {}
  BY DEF Empty
<1>2. Empty \in Partial(Row) /\ Empty \in Partial(Held)
  BY <1>1, PartialIntro
<1> QED BY <1>1, <1>2 DEF NoTx, Tx, Overlay, Values

LEMMA InvInit == Init => Inv
<1> SUFFICES ASSUME Init PROVE Inv
  OBVIOUS
<1>1. PICK present \in SUBSET Key :
        rows = [k \in Key |-> IF k \in present THEN [version |-> 1, value |-> "old"] ELSE Absent]
  BY DEF Init
<1>2. "old" \in Value /\ Missing \notin Value
  BY MemoryAssumption
<1>3. rows \in Table /\ \A k \in Key : rows[k].version \in {0, 1}
  <2>1. rows \in [Key -> Row]
    BY <1>1, <1>2 DEF Row, Held, Absent
  <2>2. \A k \in Key : /\ rows[k].version \in {0, 1}
                       /\ rows[k].version = 0 <=> rows[k].value = Missing
    BY <1>1, <1>2 DEF Absent
  <2> QED BY <2>1, <2>2 DEF Table
<1>4. fresh = 1 /\ past = {<<k, rows[k]>> : k \in Key}
  BY DEF Init
<1>5. NoTx \in Tx /\ DOMAIN NoTx.reads = {}
  BY NoTxType
<1>6. call \in [Call -> Attempt]
  <2>1. {<< >>} \subseteq Seq(Entry) /\ {0} \subseteq Nat
    OBVIOUS
  <2>2. [program : Program, log : {<< >>}, attempt : {0}] \subseteq Attempt
    BY <2>1 DEF Attempt
  <2> QED BY <2>2 DEF Init
<1>7. TypeOK
  BY <1>3, <1>4, <1>5, <1>6 DEF Init, TypeOK, Table
<1>8. PastIsSound
  <2> SUFFICES ASSUME NEW k \in Key, NEW r \in Row, <<k, r>> \in past
               PROVE  /\ r.version <= fresh
                      /\ r.version = 0 => r.value = Missing
                      /\ \A q \in Row : <<k, q>> \in past /\ q.version = r.version => q = r
    BY DEF PastIsSound
  <2>1. r = rows[k] /\ \A q \in Row : <<k, q>> \in past => q = rows[k]
    BY <1>4
  <2> QED BY <1>3, <1>4, <2>1 DEF Table
<1>9. RowsAreKnown /\ ReadsAreKnown
  BY <1>4, <1>5 DEF Init, RowsAreKnown, ReadsAreKnown
<1>10. LogsAreExplained
  <2> SUFFICES ASSUME NEW c \in Call, NEW t \in Table
               PROVE  Explained(call[c].log, Values(t), Overlay(tx[c].writes, Values(t)))
    BY DEF LogsAreExplained
  <2>1. call[c].log = << >> /\ tx[c] = NoTx
    BY DEF Init
  <2> QED BY <2>1, NoTxType, ExplainedEmpty
<1> QED BY <1>7, <1>8, <1>9, <1>10 DEF Inv

-----------------------------------------------------------------------------
(* What a transaction observed.                                            *)

LEMMA HoldsVersions ==
    ASSUME NEW x, NEW t
    PROVE  Holds(x, t) <=> /\ RangesHold(x, t)
                           /\ \A k \in DOMAIN x.reads : t[k].version = x.reads[k].version
<1>1. ASSUME Holds(x, t), NEW k \in DOMAIN x.reads
      PROVE  t[k].version = x.reads[k].version
  <2>1. CASE <<k, x.reads[k].version>> \in Ranged(x)
    <3>1. PICK s \in x.scans : k \in DOMAIN s.versions /\ x.reads[k].version = s.versions[k]
      BY <2>1 DEF Ranged
    <3>2. Stored(t, s.start, s.end, s.limit) = s.versions
      BY <1>1 DEF Holds, RangesHold
    <3> QED BY <3>1, <3>2, StoredOf
  <2> QED BY <1>1, <2>1 DEF Holds, PointsHold
<1> QED BY <1>1 DEF Holds, PointsHold

\* A row that was observed is the one in every possible table that has its version.
LEMMA RowAgrees ==
    ASSUME Inv, NEW t \in Table, Possible(t), NEW k \in Key, NEW r \in Row,
           <<k, r>> \in past, t[k].version = r.version
    PROVE  t[k] = r
<1>1. t[k] \in Row /\ (t[k].version = 0 <=> t[k].value = Missing)
  BY DEF Table
<1>2. r.version <= fresh /\ (r.version = 0 => r.value = Missing)
  BY DEF Inv, PastIsSound
<1>3. CASE r.version = 0
  <2>1. t[k].value = r.value
    BY <1>1, <1>2, <1>3
  <2> QED BY <1>1, <2>1 DEF Row
<1>4. CASE r.version # 0
  <2>1. <<k, t[k]>> \in past
    BY <1>2, <1>4 DEF Possible
  <2> QED BY <1>1, <2>1 DEF Inv, PastIsSound
<1> QED BY <1>3, <1>4

-----------------------------------------------------------------------------
(* One operation of an open call.                                          *)

\* It keeps the invariant if, wherever what the call now knows holds, what it
\* knew before does, and there the operation is what its view makes it.
LEMMA OpStep ==
    ASSUME Inv, NEW c \in Call, Open(c), NEW x \in Tx, NEW e \in Entry,
           tx' = [tx EXCEPT ![c] = x], call' = Logged(c, e),
           UNCHANGED <<rows, fresh, outcome, past>>,
           \A k \in DOMAIN x.reads : <<k, x.reads[k]>> \in past,
           \A t \in Table : Possible(t) /\ Holds(x, t) =>
              LET view == Overlay(tx[c].writes, Values(t))
              IN /\ Holds(tx[c], t) /\ Atomic!Sees(view, e)
                 /\ Overlay(x.writes, Values(t)) = Atomic!Effect(view, e)
    PROVE  Inv'
<1>1. tx'[c] = x /\ \A d \in Call \ {c} : tx'[d] = tx[d]
  BY DEF Inv, TypeOK
<1>2. /\ call' \in [Call -> Attempt]
      /\ call'[c].log = Append(call[c].log, e)
      /\ \A d \in Call \ {c} : call'[d] = call[d]
  <2>1. call[c] \in Attempt /\ call \in [Call -> Attempt]
    BY DEF Inv, TypeOK
  <2>2. PICK k : k = [call[c] EXCEPT !.log = Append(@, e)]
    OBVIOUS
  <2>3. k = [program |-> call[c].program, log |-> Append(call[c].log, e), attempt |-> call[c].attempt]
    BY <2>1, <2>2 DEF Attempt
  <2>4. Append(call[c].log, e) \in Seq(Entry)
    BY <2>1 DEF Attempt
  <2>5. k \in Attempt /\ k.log = Append(call[c].log, e)
    BY <2>1, <2>3, <2>4 DEF Attempt
  <2>6. call' = [call EXCEPT ![c] = k]
    BY <2>2 DEF Logged
  <2> QED BY <2>1, <2>5, <2>6
<1>3. TypeOK' /\ PastIsSound' /\ RowsAreKnown'
  BY <1>2 DEF Inv, TypeOK, PastIsSound, RowsAreKnown
<1>4. ReadsAreKnown'
  BY <1>1 DEF Inv, ReadsAreKnown
<1>5. LogsAreExplained'
  <2> SUFFICES ASSUME NEW d \in Call, Open(d)', NEW t \in Table, Possible(t)', Holds(tx'[d], t)
               PROVE  Explained(call'[d].log, Values(t), Overlay(tx'[d].writes, Values(t)))
    BY DEF LogsAreExplained
  <2>1. Open(d) /\ Possible(t)
    BY DEF Open, Possible
  <2>2. CASE d # c
    BY <1>1, <1>2, <2>1, <2>2 DEF Inv, LogsAreExplained
  <2>3. CASE d = c
    <3> DEFINE view == Overlay(tx[c].writes, Values(t))
    <3>1. /\ Holds(tx[c], t) /\ Atomic!Sees(view, e)
          /\ Overlay(x.writes, Values(t)) = Atomic!Effect(view, e)
      BY <1>1, <2>1, <2>3
    <3>2. Explained(call[c].log, Values(t), view)
      BY <2>1, <3>1 DEF Inv, LogsAreExplained
    <3>3. call[c].log \in Seq(Entry)
      BY DEF Inv, TypeOK, Attempt
    <3>4. Explained(Append(call[c].log, e), Values(t), Atomic!Effect(view, e))
      <4> HIDE DEF view
      <4> QED BY <3>1, <3>2, <3>3, ExplainedNext
    <3> QED BY <1>1, <1>2, <2>3, <3>1, <3>4
  <2> QED BY <2>2, <2>3
<1> QED BY <1>3, <1>4, <1>5 DEF Inv

\* An attempt that ends without a commit, or is begun again.
LEMMA EndStep ==
    ASSUME Inv, NEW c \in Call, tx' = [tx EXCEPT ![c] = NoTx], UNCHANGED <<rows, fresh, past>>,
           \/ outcome' = [outcome EXCEPT ![c] = "failed"] /\ UNCHANGED call
           \/ /\ call' = [call EXCEPT ![c] = Again(@)]
              /\ UNCHANGED outcome
    PROVE  Inv'
<1>1. tx'[c] = NoTx /\ \A d \in Call \ {c} : tx'[d] = tx[d]
  BY DEF Inv, TypeOK
<1>2. /\ call' \in [Call -> Attempt]
      /\ \A d \in Call \ {c} : call'[d] = call[d]
      /\ Open(c)' => call'[c].log = << >>
  <2>1. call[c] \in Attempt /\ call \in [Call -> Attempt]
    BY DEF Inv, TypeOK
  <2>2. Again(call[c]) \in Attempt /\ Again(call[c]).log = << >>
    BY <2>1 DEF Again, Attempt
  <2> QED BY <2>1, <2>2 DEF Open, Inv, TypeOK
<1>3. TypeOK' /\ PastIsSound' /\ RowsAreKnown'
  BY <1>2, NoTxType DEF Inv, TypeOK, PastIsSound, RowsAreKnown
<1>4. ReadsAreKnown'
  BY <1>1, NoTxType DEF Inv, ReadsAreKnown
<1>5. LogsAreExplained'
  <2> SUFFICES ASSUME NEW d \in Call, Open(d)', NEW t \in Table, Possible(t)', Holds(tx'[d], t)
               PROVE  Explained(call'[d].log, Values(t), Overlay(tx'[d].writes, Values(t)))
    BY DEF LogsAreExplained
  <2>1. CASE d # c
    <3>1. Open(d) /\ Possible(t)
      BY <2>1 DEF Open, Possible, Inv, TypeOK
    <3> QED BY <1>1, <1>2, <2>1, <3>1 DEF Inv, LogsAreExplained
  <2>2. CASE d = c
    BY <1>1, <1>2, <2>2, NoTxType, ExplainedEmpty
  <2> QED BY <2>1, <2>2
<1> QED BY <1>3, <1>4, <1>5 DEF Inv

\* What the call does next.
LEMMA CurrentType ==
    ASSUME Inv, NEW c \in Call, NEW do, Doing(c, do)
    PROVE  Current(c) \in Op /\ Current(c).do = do /\ Open(c)
<1>1. call[c] \in Attempt
  BY DEF Inv, TypeOK
<1>2. call[c].program.ops \in Seq(Op) /\ call[c].log \in Seq(Entry)
  BY <1>1, MemoryAssumption DEF Attempt
<1>3. Len(call[c].log) + 1 \in 1..Len(call[c].program.ops)
  BY <1>2 DEF Doing
<1> QED BY <1>2, <1>3 DEF Doing, Current

\* Reading a key point by point: what is kept, and what it says of a table in
\* which it holds.
LEMMA ObservedType ==
    ASSUME Inv, NEW c \in Call, NEW k \in Key, NEW reads, reads = Observed(tx[c], k)
    PROVE  /\ reads \in Partial(Row)
           /\ \A j \in DOMAIN reads : <<j, reads[j]>> \in past
           /\ DOMAIN tx[c].reads \subseteq DOMAIN reads
           /\ \A j \in DOMAIN tx[c].reads : reads[j] = tx[c].reads[j]
           /\ k \in DOMAIN tx[c].writes \cup DOMAIN reads
<1>1. tx[c].reads \in Partial(Row) /\ rows[k] \in Row
  BY DEF Inv, TypeOK, Tx, Table
<1>2. CASE k \in DOMAIN tx[c].writes \cup DOMAIN tx[c].reads
  <2>1. reads = tx[c].reads
    BY <1>2 DEF Observed
  <2> QED BY <1>1, <1>2, <2>1 DEF Inv, ReadsAreKnown
<1>3. CASE k \notin DOMAIN tx[c].writes \cup DOMAIN tx[c].reads
  <2>1. reads = With(tx[c].reads, k, rows[k])
    BY <1>3 DEF Observed
  <2>2. /\ reads \in Partial(Row) /\ DOMAIN reads = DOMAIN tx[c].reads \cup {k}
        /\ reads[k] = rows[k] /\ \A j \in DOMAIN tx[c].reads \ {k} : reads[j] = tx[c].reads[j]
    <3>1. PICK f \in Partial(Row), r \in Row : f = tx[c].reads /\ r = rows[k]
      BY <1>1
    <3>2. /\ With(f, k, r) \in Partial(Row)
          /\ DOMAIN With(f, k, r) = DOMAIN f \cup {k}
          /\ With(f, k, r)[k] = r
          /\ \A j \in DOMAIN f \ {k} : With(f, k, r)[j] = f[j]
      BY WithType
    <3> QED BY <2>1, <3>1, <3>2
  <2> QED BY <1>3, <2>2 DEF Inv, ReadsAreKnown, RowsAreKnown
<1> QED BY <1>2, <1>3

\* A call knows at least what it knew.
LEMMA KnowsMore ==
    ASSUME NEW x \in Tx, NEW y \in Tx, NEW t, Holds(y, t), x.scans \subseteq y.scans,
           DOMAIN x.reads \subseteq DOMAIN y.reads,
           \A j \in DOMAIN x.reads : y.reads[j] = x.reads[j]
    PROVE  Holds(x, t)
<1>1. RangesHold(y, t) /\ \A k \in DOMAIN y.reads : t[k].version = y.reads[k].version
  BY HoldsVersions
<1>2. RangesHold(x, t) /\ \A k \in DOMAIN x.reads : t[k].version = x.reads[k].version
  BY <1>1 DEF RangesHold
<1> QED BY <1>2, HoldsVersions

LEMMA GetStep == ASSUME Inv, NEW c \in Call, Get(c) PROVE Inv'
<1>1. PICK k \in Key : k = Current(c).key
  <2>1. Current(c) \in Op /\ Current(c).do = "get"
    BY CurrentType DEF Get
  <2> QED BY <2>1 DEF Op
<1>2. Open(c)
  BY CurrentType DEF Get
<1>3. PICK reads : reads = Observed(tx[c], k)
  OBVIOUS
<1>4. /\ reads \in Partial(Row) /\ \A j \in DOMAIN reads : <<j, reads[j]>> \in past
      /\ DOMAIN tx[c].reads \subseteq DOMAIN reads
      /\ \A j \in DOMAIN tx[c].reads : reads[j] = tx[c].reads[j]
      /\ k \in DOMAIN tx[c].writes \cup DOMAIN reads
  BY <1>3, ObservedType
<1>5. tx \in [Call -> Tx] /\ tx[c] \in Tx
  BY DEF Inv, TypeOK
<1>6. PICK x \in Tx : /\ x = [tx[c] EXCEPT !.reads = reads]
                      /\ x.reads = reads /\ x.scans = tx[c].scans /\ x.writes = tx[c].writes
  <2> DEFINE x == [tx[c] EXCEPT !.reads = reads]
  <2>1. x = [reads |-> reads, scans |-> tx[c].scans, writes |-> tx[c].writes]
    BY <1>5 DEF Tx
  <2>2. x \in Tx
    BY <1>4, <1>5, <2>1 DEF Tx
  <2> QED BY <2>1, <2>2
<1>7. PICK saw : saw = IF k \in DOMAIN tx[c].writes THEN tx[c].writes[k] ELSE reads[k].value
  OBVIOUS
<1>8. saw \in Held
  <2>1. tx[c].writes \in Partial(Held)
    BY <1>5 DEF Tx
  <2>2. CASE k \in DOMAIN tx[c].writes
    BY <1>7, <2>1, <2>2, PartialElim
  <2>3. CASE k \notin DOMAIN tx[c].writes
    <3>1. reads[k] \in Row
      BY <1>4, <2>3, PartialElim
    <3> QED BY <1>7, <2>3, <3>1 DEF Row
  <2> QED BY <2>2, <2>3
<1> DEFINE e == [do |-> "get", key |-> k, saw |-> saw]
<1>9. e \in Entry
  BY <1>8 DEF Entry
<1>10. /\ tx' = [tx EXCEPT ![c] = x] /\ call' = Logged(c, e)
       /\ UNCHANGED <<rows, fresh, outcome, past>>
  BY <1>1, <1>3, <1>5, <1>6, <1>7 DEF Get
<1>11. ASSUME NEW t \in Table, Possible(t), Holds(x, t)
       PROVE  LET view == Overlay(tx[c].writes, Values(t))
              IN /\ Holds(tx[c], t) /\ Atomic!Sees(view, e)
                 /\ Overlay(x.writes, Values(t)) = Atomic!Effect(view, e)
  <2> DEFINE view == Overlay(tx[c].writes, Values(t))
  <2>1. Holds(tx[c], t)
    BY <1>4, <1>5, <1>6, <1>11, KnowsMore
  <2>2. ASSUME k \notin DOMAIN tx[c].writes PROVE t[k] = reads[k]
    <3>1. k \in DOMAIN reads /\ t[k].version = reads[k].version
      BY <1>4, <1>6, <1>11, <2>2, HoldsVersions
    <3>2. reads[k] \in Row /\ <<k, reads[k]>> \in past
      BY <1>4, <3>1, PartialElim
    <3> QED BY <1>11, <3>1, <3>2, RowAgrees
  <2>3. view[k] = saw
    BY <1>7, <2>2 DEF Overlay, Values
  <2>4. Atomic!Sees(view, e) /\ Atomic!Effect(view, e) = view
    BY <2>3 DEF Atomic!Sees, Atomic!Effect
  <2> QED BY <1>6, <2>1, <2>4
<1> HIDE DEF e
<1> QED BY <1>2, <1>4, <1>6, <1>9, <1>10, <1>11, OpStep

LEMMA WrittenKey ==
    ASSUME NEW writes \in Partial(Held), NEW k \in Key, NEW v \in Held
    PROVE  \E w \in Partial(Held) :
              /\ w = With(writes, k, v)
              /\ DOMAIN w = DOMAIN writes \cup {k} /\ w[k] = v
              /\ \A j \in DOMAIN writes \ {k} : w[j] = writes[j]
<1>1. /\ With(writes, k, v) \in Partial(Held)
      /\ DOMAIN With(writes, k, v) = DOMAIN writes \cup {k}
      /\ With(writes, k, v)[k] = v
      /\ \A j \in DOMAIN writes \ {k} : With(writes, k, v)[j] = writes[j]
  BY WithType
<1> QED BY <1>1

LEMMA PutStep == ASSUME Inv, NEW c \in Call, Put(c) PROVE Inv'
<1>1. PICK o \in [do : {"put"}, key : Key, value : Held] : o = Current(c)
  <2>1. Current(c) \in Op /\ Current(c).do = "put"
    BY CurrentType DEF Put
  <2> QED BY <2>1 DEF Op, Held
<1>2. Open(c) /\ o.do = "put" /\ o.key \in Key /\ o.value \in Held /\ o \in Entry
  BY CurrentType DEF Put, Entry
<1>3. PICK reads : reads = Observed(tx[c], o.key)
  OBVIOUS
<1>4. /\ reads \in Partial(Row) /\ \A j \in DOMAIN reads : <<j, reads[j]>> \in past
      /\ DOMAIN tx[c].reads \subseteq DOMAIN reads
      /\ \A j \in DOMAIN tx[c].reads : reads[j] = tx[c].reads[j]
  BY <1>2, <1>3, ObservedType
<1>5. tx \in [Call -> Tx] /\ tx[c] \in Tx
  BY DEF Inv, TypeOK
<1>6. PICK w \in Partial(Held) :
        /\ w = With(tx[c].writes, o.key, o.value)
        /\ DOMAIN w = DOMAIN tx[c].writes \cup {o.key} /\ w[o.key] = o.value
        /\ \A j \in DOMAIN tx[c].writes \ {o.key} : w[j] = tx[c].writes[j]
  <2>1. tx[c].writes \in Partial(Held)
    BY <1>5 DEF Tx
  <2>2. \A k \in Key, v \in Held : \E w \in Partial(Held) :
          /\ w = With(tx[c].writes, k, v)
          /\ DOMAIN w = DOMAIN tx[c].writes \cup {k} /\ w[k] = v
          /\ \A j \in DOMAIN tx[c].writes \ {k} : w[j] = tx[c].writes[j]
    BY <2>1, WrittenKey
  <2> QED BY <1>2, <2>2
<1>7. PICK x \in Tx : /\ x = [reads |-> reads, scans |-> tx[c].scans, writes |-> w]
                      /\ x.reads = reads /\ x.scans = tx[c].scans /\ x.writes = w
  <2> DEFINE x == [reads |-> reads, scans |-> tx[c].scans, writes |-> w]
  <2>1. tx[c].scans \in SUBSET RangeRead
    BY <1>5 DEF Tx
  <2>2. x \in Tx
    BY <1>4, <2>1 DEF Tx
  <2> QED BY <2>2
<1>8. /\ tx' = [tx EXCEPT ![c] = x] /\ call' = Logged(c, o)
      /\ UNCHANGED <<rows, fresh, outcome, past>>
  BY <1>1, <1>3, <1>5, <1>6, <1>7 DEF Put
<1>9. ASSUME NEW t \in Table, Possible(t), Holds(x, t)
      PROVE  LET view == Overlay(tx[c].writes, Values(t))
             IN /\ Holds(tx[c], t) /\ Atomic!Sees(view, o)
                /\ Overlay(x.writes, Values(t)) = Atomic!Effect(view, o)
  <2> DEFINE view == Overlay(tx[c].writes, Values(t))
  <2>1. Holds(tx[c], t)
    BY <1>4, <1>5, <1>7, <1>9, KnowsMore
  <2>2. Atomic!Sees(view, o)
    BY <1>2 DEF Atomic!Sees
  <2>3. Atomic!Effect(view, o) = [view EXCEPT ![o.key] = o.value]
    BY <1>2 DEF Atomic!Effect
  <2>4. Overlay(w, Values(t)) = [view EXCEPT ![o.key] = o.value]
    BY <1>2, <1>6 DEF Overlay
  <2> QED BY <1>7, <2>1, <2>2, <2>3, <2>4
<1> QED BY <1>2, <1>4, <1>7, <1>8, <1>9, OpStep

LEMMA ScanStep == ASSUME Inv, NEW c \in Call, Scan(c) PROVE Inv'
<1>1. PICK o \in [do : {"scan"}, start : Nat, end : Nat, limit : Nat] : o = Current(c)
  <2>1. Current(c) \in Op /\ Current(c).do = "scan"
    BY CurrentType DEF Scan
  <2> QED BY <2>1 DEF Op
<1>2. Open(c) /\ o.start \in Nat /\ o.end \in Nat /\ o.limit \in Nat
  BY CurrentType DEF Scan
<1>3. tx \in [Call -> Tx] /\ tx[c] \in Tx /\ rows \in Table
  BY DEF Inv, TypeOK
<1>4. ASSUME NEW saw \in Partial(Held)
      PROVE  ScanSaw(o, saw) \in Entry
  BY <1>2 DEF ScanSaw, Entry
<1>5. ASSUME NEW view, NEW saw, saw = Atomic!ScanOf(view, o.start, o.end, o.limit)
      PROVE  Atomic!Sees(view, ScanSaw(o, saw)) /\ Atomic!Effect(view, ScanSaw(o, saw)) = view
  BY <1>5 DEF Atomic!Sees, Atomic!Effect, ScanSaw
<1>6. CASE o.limit = 0 \/ o.end <= o.start
  <2>1. /\ tx' = [tx EXCEPT ![c] = tx[c]] /\ call' = Logged(c, ScanSaw(o, Empty))
        /\ UNCHANGED <<rows, fresh, outcome, past>>
    BY <1>1, <1>3, <1>6 DEF Scan
  <2>2. \A view : Atomic!ScanOf(view, o.start, o.end, o.limit) = Empty
    <3> TAKE view
    <3> DEFINE P == {k \in Key : o.start <= k /\ k < o.end /\ view[k] # Missing}
    <3>1. Atomic!First(P, o.limit) = {}
      <4>1. CASE o.limit = 0
        <5>1. \A k \in P : ~(Cardinality({j \in P : j < k}) < 0)
          <6> TAKE k \in P
          <6>1. {j \in P : j < k} \subseteq Key
            OBVIOUS
          <6> HIDE DEF P
          <6>2. IsFiniteSet({j \in P : j < k})
            BY <6>1, MemoryAssumption, FS_Subset
          <6>3. Cardinality({j \in P : j < k}) \in Nat
            BY <6>2, FS_CardinalityType
          <6> QED BY <6>3
        <5> HIDE DEF P
        <5> QED BY <4>1, <5>1, FirstOf
      <4>2. CASE o.end <= o.start
        <5>1. P = {}
          <6> SUFFICES ASSUME NEW k \in P PROVE FALSE
            OBVIOUS
          <6>1. k \in Nat /\ o.start <= k /\ k < o.end
            BY MemoryAssumption
          <6> QED BY <1>2, <4>2, <6>1
        <5> QED BY <5>1, FirstOf
      <4> QED BY <1>6, <4>1, <4>2
    <3>2. Atomic!ScanOf(view, o.start, o.end, o.limit) = [k \in Atomic!First(P, o.limit) |-> view[k]]
      BY DEF Atomic!ScanOf
    <3> HIDE DEF P
    <3> QED BY <3>1, <3>2 DEF Empty
  <2>3. Empty \in Partial(Held)
    BY NoTxType DEF NoTx, Tx
  <2>4. \A k \in DOMAIN tx[c].reads : <<k, tx[c].reads[k]>> \in past
    BY DEF Inv, ReadsAreKnown
  <2>5. ASSUME NEW t \in Table, Possible(t), Holds(tx[c], t)
        PROVE  LET view == Overlay(tx[c].writes, Values(t))
               IN /\ Holds(tx[c], t) /\ Atomic!Sees(view, ScanSaw(o, Empty))
                  /\ view = Atomic!Effect(view, ScanSaw(o, Empty))
    BY <1>5, <2>2, <2>5
  <2> QED BY <1>2, <1>3, <1>4, <2>1, <2>3, <2>4, <2>5, OpStep
<1>7. CASE ~(o.limit = 0 \/ o.end <= o.start)
  <2>1. PICK limit \in Nat : limit = ReadLimit(tx[c], o.limit)
    <3>1. DOMAIN tx[c].writes \subseteq Key
      BY <1>3, PartialElim DEF Tx
    <3>2. Cardinality(DOMAIN tx[c].writes) \in Nat
      BY <3>1, MemoryAssumption, FS_Subset, FS_CardinalityType
    <3> QED BY <1>2, <3>2 DEF ReadLimit
  <2>2. PICK versions : versions = Stored(rows, o.start, o.end, limit)
    OBVIOUS
  <2>3. /\ DOMAIN versions \in SUBSET Key
        /\ versions = [k \in DOMAIN versions |-> versions[k]]
        /\ \A k \in DOMAIN versions : versions[k] = rows[k].version
    <3>1. versions = [k \in DOMAIN versions |-> versions[k]]
      BY <2>2 DEF Stored
    <3>2. DOMAIN versions \subseteq Present(rows, o.start, o.end)
      BY <2>2, StoredOf
    <3>3. \A k \in DOMAIN versions : versions[k] = rows[k].version
      BY <2>2, StoredOf
    <3> QED BY <3>1, <3>2, <3>3 DEF Present
  <2>4. versions \in Partial(Nat)
    <3>1. \A k \in DOMAIN versions : versions[k] \in Nat
      BY <1>3, <2>3 DEF Table, Row
    <3>2. versions \in [DOMAIN versions -> Nat]
      BY <2>3, <3>1
    <3> QED BY <2>3, <3>2, PartialIntro
  <2>5. PICK s \in RangeRead :
          /\ s = [start |-> o.start, end |-> o.end, limit |-> limit, versions |-> versions]
          /\ s.start = o.start /\ s.end = o.end /\ s.limit = limit /\ s.versions = versions
    <3> DEFINE s == [start |-> o.start, end |-> o.end, limit |-> limit, versions |-> versions]
    <3>1. s \in RangeRead
      BY <1>2, <2>4 DEF RangeRead
    <3> QED BY <3>1
  <2>6. PICK x \in Tx : /\ x = [tx[c] EXCEPT !.scans = tx[c].scans \cup {s}]
                        /\ x.reads = tx[c].reads /\ x.scans = tx[c].scans \cup {s}
                        /\ x.writes = tx[c].writes
    <3>1. PICK scans \in SUBSET RangeRead : scans = tx[c].scans \cup {s}
      BY <1>3 DEF Tx
    <3> DEFINE x == [tx[c] EXCEPT !.scans = scans]
    <3>2. x = [reads |-> tx[c].reads, scans |-> scans, writes |-> tx[c].writes]
      BY <1>3 DEF Tx
    <3>3. x \in Tx
      BY <1>3, <3>2 DEF Tx
    <3> QED BY <3>1, <3>2, <3>3
  <2>7. PICK seen \in SUBSET Key : seen = DOMAIN versions
    BY <2>3
  <2>8. PICK saw : saw = Merged(tx[c], o, rows, seen)
    OBVIOUS
  <2>9. /\ tx' = [tx EXCEPT ![c] = x] /\ call' = Logged(c, ScanSaw(o, saw))
        /\ UNCHANGED <<rows, fresh, outcome, past>>
    BY <1>1, <1>3, <1>7, <2>1, <2>2, <2>5, <2>6, <2>7, <2>8 DEF Scan
  <2>10. saw \in Partial(Held)
    <3> DEFINE own == {k \in DOMAIN tx[c].writes : o.start <= k /\ k < o.end}
               merged == [k \in (seen \cup own) |-> IF k \in own THEN tx[c].writes[k] ELSE rows[k].value]
               found == {k \in seen \cup own : merged[k] # Missing}
               D == Atomic!First(found, o.limit)
    <3>1. tx[c].writes \in Partial(Held)
      BY <1>3 DEF Tx
    <3>2. DOMAIN tx[c].writes \subseteq Key /\ \A k \in DOMAIN tx[c].writes : tx[c].writes[k] \in Held
      BY <3>1, PartialElim
    <3>3. \A k \in Key : rows[k].value \in Held
      BY <1>3 DEF Table, Row
    <3>4. D \subseteq seen \cup own /\ seen \cup own \subseteq Key
      BY <3>2, FirstOf
    <3>5. \A k \in seen \cup own : merged[k] \in Held
      BY <3>2, <3>3
    <3>6. saw = [k \in D |-> merged[k]]
      BY <2>8 DEF Merged
    <3> HIDE DEF D, merged, own
    <3>7. saw \in [D -> Held] /\ D \in SUBSET Key
      BY <3>4, <3>5, <3>6
    <3> QED BY <3>7, PartialIntro
  <2>11. \A k \in DOMAIN x.reads : <<k, x.reads[k]>> \in past
    BY <2>6 DEF Inv, ReadsAreKnown
  <2>12. ASSUME NEW t \in Table, Possible(t), Holds(x, t)
         PROVE  LET view == Overlay(tx[c].writes, Values(t))
                IN /\ Holds(tx[c], t) /\ Atomic!Sees(view, ScanSaw(o, saw))
                   /\ Overlay(x.writes, Values(t)) = Atomic!Effect(view, ScanSaw(o, saw))
    <3>1. Holds(tx[c], t)
      BY <1>3, <2>6, <2>12, KnowsMore
    <3>2. Stored(t, o.start, o.end, limit) = versions
      BY <2>5, <2>6, <2>12 DEF Holds, RangesHold
    <3>3. \A k \in seen : t[k] = rows[k]
      <4> TAKE k \in seen
      <4>1. t[k].version = rows[k].version
        BY <2>3, <2>7, <3>2, StoredOf
      <4>2. rows[k] \in Row /\ <<k, rows[k]>> \in past
        BY <1>3 DEF Inv, RowsAreKnown, Table
      <4> QED BY <2>12, <4>1, <4>2, RowAgrees
    <3>4. saw = Atomic!ScanOf(Overlay(tx[c].writes, Values(t)), o.start, o.end, o.limit)
      BY <1>2, <1>3, <2>1, <2>2, <2>7, <2>8, <3>2, <3>3, ScanAgrees
    <3> QED BY <1>5, <2>6, <3>1, <3>4
  <2> QED BY <1>2, <1>4, <2>6, <2>9, <2>10, <2>11, <2>12, OpStep
<1> QED BY <1>6, <1>7

-----------------------------------------------------------------------------
(* The commit.                                                             *)

\* The rows a commit leaves.
LEMMA WrittenRows ==
    ASSUME Inv, NEW c \in Call, Commit(c)
    PROVE  /\ rows' \in Table /\ fresh' \in Nat /\ fresh <= fresh' /\ fresh' <= fresh + 1
           /\ \A k \in Key : /\ rows'[k].version <= fresh'
                             /\ \/ <<k, rows'[k]>> \in past
                                \/ rows'[k].version = 0
                                \/ rows'[k].version = fresh + 1
           /\ Values(rows') = Overlay(tx[c].writes, Values(rows))
<1> DEFINE w == tx[c].writes
<1>1. w \in Partial(Held) /\ rows \in Table /\ fresh \in Nat
  BY DEF Inv, TypeOK, Tx
<1>2. DOMAIN w \subseteq Key /\ \A k \in DOMAIN w : w[k] \in Held
  BY <1>1, PartialElim
<1>3. rows' = Written(c) /\ fresh' = IF DOMAIN w = {} THEN fresh ELSE fresh + 1
  BY DEF Commit
<1>4. /\ rows' = [k \in Key |-> rows'[k]]
      /\ \A k \in Key : rows'[k] = IF k \notin DOMAIN w THEN rows[k]
                                   ELSE IF w[k] = Missing THEN Absent
                                   ELSE [version |-> fresh + 1, value |-> w[k]]
  BY <1>3 DEF Written
<1>5. ASSUME NEW k \in Key
      PROVE  /\ rows'[k] \in Row
             /\ rows'[k].version = 0 <=> rows'[k].value = Missing
             /\ rows'[k].version <= fresh'
             /\ \/ <<k, rows'[k]>> \in past
                \/ rows'[k].version = 0
                \/ rows'[k].version = fresh + 1
             /\ rows'[k].value = IF k \in DOMAIN w THEN w[k] ELSE rows[k].value
  <2>1. CASE k \notin DOMAIN w
    <3>1. rows'[k] = rows[k] /\ rows[k] \in Row /\ <<k, rows[k]>> \in past
      BY <1>1, <1>4, <2>1 DEF Inv, RowsAreKnown, Table
    <3>2. rows[k].version <= fresh /\ rows[k].version \in Nat
      BY <3>1 DEF Inv, PastIsSound, Row
    <3>3. rows[k].version = 0 <=> rows[k].value = Missing
      BY <1>1 DEF Table
    <3> QED BY <1>1, <1>3, <2>1, <3>1, <3>2, <3>3
  <2>2. CASE k \in DOMAIN w /\ w[k] = Missing
    <3>1. rows'[k] = Absent
      BY <1>4, <2>2
    <3> QED BY <1>1, <1>3, <2>2, <3>1 DEF Absent, Row, Held
  <2>3. CASE k \in DOMAIN w /\ w[k] # Missing
    <3>1. rows'[k] = [version |-> fresh + 1, value |-> w[k]] /\ fresh' = fresh + 1
      BY <1>3, <1>4, <2>3
    <3>2. w[k] \in Held /\ fresh + 1 \in Nat /\ fresh + 1 # 0
      BY <1>1, <1>2, <2>3
    <3> QED BY <2>3, <3>1, <3>2 DEF Row
  <2> QED BY <2>1, <2>2, <2>3
<1>6. rows' \in Table
  <2>1. rows' \in [Key -> Row]
    BY <1>4, <1>5
  <2> QED BY <1>5, <2>1 DEF Table
<1>7. Values(rows') = Overlay(w, Values(rows))
  BY <1>5 DEF Values, Overlay
<1> QED BY <1>1, <1>3, <1>5, <1>6, <1>7

LEMMA CommitStep == ASSUME Inv, NEW c \in Call, Commit(c) PROVE Inv'
<1>1. /\ rows' \in Table /\ fresh' \in Nat /\ fresh <= fresh' /\ fresh' <= fresh + 1
      /\ \A k \in Key : /\ rows'[k].version <= fresh'
                        /\ \/ <<k, rows'[k]>> \in past
                           \/ rows'[k].version = 0
                           \/ rows'[k].version = fresh + 1
  BY WrittenRows
<1>2. /\ UNCHANGED call /\ tx' = [tx EXCEPT ![c] = NoTx]
      /\ past' = past \cup {<<k, rows'[k]>> : k \in Key}
      /\ \E x \in {"ok", "lost"} : outcome' = [outcome EXCEPT ![c] = x]
  BY DEF Commit
<1>3. fresh \in Nat /\ past \subseteq Key \X Row /\ \A k \in Key : rows'[k] \in Row
  BY <1>1 DEF Inv, TypeOK, Table
<1>4. TypeOK'
  <2>1. past' \subseteq Key \X Row
    BY <1>2, <1>3
  <2> QED BY <1>1, <1>2, <2>1, NoTxType DEF Inv, TypeOK
<1>5. PastIsSound'
  <2> SUFFICES ASSUME NEW k \in Key, NEW r \in Row, <<k, r>> \in past'
               PROVE  /\ r.version <= fresh'
                      /\ r.version = 0 => r.value = Missing
                      /\ \A q \in Row : <<k, q>> \in past' /\ q.version = r.version => q = r
    BY DEF PastIsSound
  <2>1. \A q \in Row : <<k, q>> \in past' => <<k, q>> \in past \/ q = rows'[k]
    BY <1>2
  <2>2. \A q \in Row : <<k, q>> \in past =>
           /\ q.version <= fresh /\ q.version \in Nat
           /\ q.version = 0 => q.value = Missing
           /\ \A p \in Row : <<k, p>> \in past /\ p.version = q.version => p = q
    BY DEF Inv, PastIsSound, Row
  <2>3. rows'[k].version = 0 <=> rows'[k].value = Missing
    BY <1>1 DEF Table
  <2>4. r.version <= fresh' /\ (r.version = 0 => r.value = Missing)
    BY <1>1, <1>3, <2>1, <2>2, <2>3 DEF Row
  <2>5. ASSUME NEW q \in Row, <<k, q>> \in past, q.version = rows'[k].version
        PROVE  q = rows'[k]
    <3>1. CASE <<k, rows'[k]>> \in past
      BY <1>3, <2>2, <2>5, <3>1
    <3>2. CASE rows'[k].version = 0
      BY <1>3, <2>2, <2>3, <2>5, <3>2 DEF Row
    <3>3. CASE rows'[k].version = fresh + 1
      BY <1>3, <2>2, <2>5, <3>3
    <3> QED BY <1>1, <3>1, <3>2, <3>3
  <2>6. ASSUME NEW q \in Row, <<k, q>> \in past', q.version = r.version PROVE q = r
    BY <2>1, <2>2, <2>5, <2>6
  <2> QED BY <2>4, <2>6
<1>6. RowsAreKnown' /\ ReadsAreKnown'
  <2>1. tx'[c] = NoTx /\ \A d \in Call \ {c} : tx'[d] = tx[d]
    BY <1>2 DEF Inv, TypeOK
  <2> QED BY <1>2, <2>1, NoTxType DEF Inv, RowsAreKnown, ReadsAreKnown
<1>7. LogsAreExplained'
  <2> SUFFICES ASSUME NEW d \in Call, Open(d)', NEW t \in Table, Possible(t)', Holds(tx'[d], t)
               PROVE  Explained(call'[d].log, Values(t), Overlay(tx'[d].writes, Values(t)))
    BY DEF LogsAreExplained
  <2>1. d # c /\ Open(d) /\ tx'[d] = tx[d]
    BY <1>2 DEF Open, Inv, TypeOK
  <2>2. Possible(t)
    <3> SUFFICES ASSUME NEW k \in Key, t[k].version <= fresh, t[k].version # 0
                 PROVE  <<k, t[k]>> \in past
      BY DEF Possible
    <3>1. t[k] \in Row /\ t[k].version \in Nat
      BY DEF Table, Row
    <3>2. <<k, t[k]>> \in past'
      BY <1>1, <1>3, <3>1 DEF Possible
    <3>3. <<k, t[k]>> \in past \/ t[k] = rows'[k]
      BY <1>2, <3>2
    <3> QED BY <1>1, <1>3, <3>1, <3>3
  <2> QED BY <1>2, <2>1, <2>2 DEF Inv, LogsAreExplained
<1> QED BY <1>4, <1>5, <1>6, <1>7 DEF Inv

LEMMA InvStep == Inv /\ [Next]_vars => Inv'
<1> SUFFICES ASSUME Inv, [Next]_vars PROVE Inv'
  OBVIOUS
<1>1. CASE UNCHANGED vars
  BY <1>1 DEF vars, Inv, TypeOK, PastIsSound, RowsAreKnown, ReadsAreKnown, LogsAreExplained,
              Open, Possible
<1>2. ASSUME NEW c \in Call,
             \/ Get(c) \/ Scan(c) \/ Put(c) \/ PutRefused(c)
             \/ Commit(c) \/ Conflict(c) \/ Drop(c)
      PROVE  Inv'
  <2>1. CASE PutRefused(c) \/ Drop(c)
    BY <2>1, EndStep DEF PutRefused, Drop
  <2>2. CASE Conflict(c)
    BY <2>2, EndStep DEF Conflict
  <2> QED BY <1>2, <2>1, <2>2, GetStep, ScanStep, PutStep, CommitStep
<1> QED BY <1>1, <1>2 DEF Next

-----------------------------------------------------------------------------
(* The refinement.                                                         *)

\* The log that AtomicStore sees: that of the calls that took place.
TakenPlace == [c \in Call |-> IF outcome[c] \in {"ok", "lost"} THEN call[c].log ELSE << >>]

LEMMA AtomicVars ==
    ASSUME Values(rows') = Values(rows), TakenPlace' = TakenPlace, UNCHANGED outcome
    PROVE  UNCHANGED Atomic!vars
  BY DEF Atomic!vars, Values, TakenPlace

\* Until it ends, a call changes nothing that AtomicStore sees.
LEMMA QuietStep ==
    ASSUME Inv, NEW c \in Call, Open(c), UNCHANGED <<rows, outcome>>,
           \A d \in Call \ {c} : call'[d] = call[d]
    PROVE  UNCHANGED Atomic!vars
<1>1. Values(rows') = Values(rows)
  OBVIOUS
<1>2. TakenPlace' = TakenPlace
  BY DEF TakenPlace, Open
<1> QED BY <1>1, <1>2, AtomicVars

LEMMA FailStep ==
    ASSUME Inv, NEW c \in Call, Open(c), outcome' = [outcome EXCEPT ![c] = "failed"],
           UNCHANGED <<rows, call>>
    PROVE  Atomic!Fail(c)
<1>1. TakenPlace' = TakenPlace
  BY DEF TakenPlace, Open, Inv, TypeOK
<1> QED BY <1>1 DEF Atomic!Fail, TakenPlace, Open

LEMMA TakePlaceStep ==
    ASSUME Inv, NEW c \in Call, Commit(c)
    PROVE  Atomic!TakePlace(c)
<1> DEFINE log == call[c].log
<1>1. Open(c) /\ Holds(tx[c], rows) /\ UNCHANGED call
  BY DEF Commit, Ready
<1>2. rows \in Table /\ Possible(rows)
  BY DEF Inv, TypeOK, RowsAreKnown, Possible
<1>3. Explained(log, Values(rows), Overlay(tx[c].writes, Values(rows)))
  BY <1>1, <1>2 DEF Inv, LogsAreExplained
<1>4. log \in Seq(Entry)
  BY DEF Inv, TypeOK, Attempt
<1>5. /\ Atomic!Explains(log, Values(rows))
      /\ Atomic!Views(log, Values(rows))[Len(log)] = Overlay(tx[c].writes, Values(rows))
  <2> HIDE DEF log
  <2> QED BY <1>3, <1>4, ExplainedIsSo
<1>6. Values(rows') = Overlay(tx[c].writes, Values(rows))
  BY WrittenRows
<1>7. PICK x \in {"ok", "lost"} : outcome' = [outcome EXCEPT ![c] = x]
  BY DEF Commit
<1>8. TakenPlace'[c] = log /\ TakenPlace' = [TakenPlace EXCEPT ![c] = log]
  BY <1>1, <1>7 DEF TakenPlace, Inv, TypeOK
<1>9. outcome[c] = "pending"
  BY <1>1 DEF Open
<1>10. /\ outcome' \in {[outcome EXCEPT ![c] = y] : y \in {"ok", "lost"}}
       /\ TakenPlace' = [TakenPlace EXCEPT ![c] = TakenPlace'[c]]
       /\ Atomic!Explains(TakenPlace'[c], Values(rows))
       /\ Values(rows') = Atomic!Views(TakenPlace'[c], Values(rows))[Len(TakenPlace'[c])]
  BY <1>5, <1>6, <1>7, <1>8
<1> QED BY <1>9, <1>10 DEF Atomic!TakePlace, TakenPlace, Values

LEMMA AtomicStep == Inv /\ [Next]_vars => [Atomic!Next]_(Atomic!vars)
<1> SUFFICES ASSUME Inv, [Next]_vars PROVE Atomic!Next \/ UNCHANGED Atomic!vars
  OBVIOUS
<1>1. CASE UNCHANGED vars
  BY <1>1 DEF vars, Atomic!vars
<1>2. ASSUME NEW c \in Call, Get(c) \/ Scan(c) \/ Put(c)
      PROVE  UNCHANGED Atomic!vars
  <2>1. Open(c) /\ UNCHANGED <<rows, outcome>> /\ \A d \in Call \ {c} : call'[d] = call[d]
    BY <1>2 DEF Get, Scan, Put, Doing, Logged, Inv, TypeOK
  <2> QED BY <2>1, QuietStep
<1>3. ASSUME NEW c \in Call, PutRefused(c) \/ Drop(c) PROVE Atomic!Fail(c)
  BY <1>3, FailStep DEF PutRefused, Drop, Doing
<1>4. ASSUME NEW c \in Call, Conflict(c) PROVE Atomic!Fail(c) \/ UNCHANGED Atomic!vars
  <2>1. CASE CanRetry(c)
    <3>1. Open(c) /\ UNCHANGED <<rows, outcome>> /\ \A d \in Call \ {c} : call'[d] = call[d]
      BY <1>4, <2>1 DEF Conflict, Ready, Inv, TypeOK
    <3> QED BY <3>1, QuietStep
  <2>2. CASE ~CanRetry(c)
    BY <1>4, <2>2, FailStep DEF Conflict, Ready
  <2> QED BY <2>1, <2>2
<1>5. ASSUME NEW c \in Call, Commit(c) PROVE Atomic!TakePlace(c)
  BY <1>5, TakePlaceStep
<1> QED BY <1>1, <1>2, <1>3, <1>4, <1>5 DEF Next, Atomic!Next

\* For any calls, programs, keys and values, and however their operations
\* interleave, the calls of the memory store behave as calls that take place at
\* one instant each: a committed call saw, points, absences and ranges alike,
\* what was there when it committed, and a call that failed left nothing
\* (MemoryTransaction::commit, TransactionalStore::transact).
THEOREM Serializability == Spec => Serializable
<1>1. Init => Atomic!Init
  BY DEF Init, Atomic!Init
<1> QED BY <1>1, InvInit, InvStep, AtomicStep, PTL DEF Spec, Serializable, Atomic!Spec

=============================================================================
