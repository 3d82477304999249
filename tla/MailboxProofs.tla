--------------------------- MODULE MailboxProofs ---------------------------
(***************************************************************************)
(* Proofs about Mailbox, for any runs, events, listens, routes and         *)
(* deadlines.                                                              *)
(*                                                                         *)
(* A run's row changes by few operators (Push, Consume, Close): what they  *)
(* do to the counters and to what is open is proved once each, and the     *)
(* actions are put together from them. Inv carries the counters and the    *)
(* wake-ups, OnceInv what is accepted and consumed once, OpenInv what a    *)
(* suspended run keeps open.                                               *)
(***************************************************************************)
EXTENDS Mailbox, TLAPS, FiniteSetTheorems, WellFoundedInduction

-----------------------------------------------------------------------------
(* Least elements and finite sets.                                         *)

\* Every set of natural numbers has a least element, which is its Min.
LEMMA LeastNat ==
    ASSUME NEW S \in SUBSET Nat, S # {}
    PROVE  \E m \in S : \A n \in S : m <= n
<1> DEFINE T == {0..n : n \in S}
<1>1. T \subseteq FiniteSubsetsOf(Nat)
  <2>1. \A n \in S : IsFiniteSet(0..n)
    BY FS_Interval
  <2>2. \A n \in S : 0..n \in SUBSET Nat
    OBVIOUS
  <2> QED BY <2>1, <2>2 DEF FiniteSubsetsOf
<1>2. PICK x \in T : \A y \in T : ~(<<y, x>> \in StrictSubsetOrdering(Nat))
  <2> HIDE DEF T
  <2>1. T # {}
    BY DEF T
  <2> QED BY <1>1, <2>1, FS_StrictSubsetOrderingWellFounded, WFMin
<1>3. PICK m \in S : x = 0..m
  OBVIOUS
<1>4. ASSUME NEW n \in S, n < m PROVE FALSE
  <2>1. <<0..n, 0..m>> \in StrictSubsetOrdering(Nat)
    BY <1>4 DEF StrictSubsetOrdering
  <2> QED BY <1>2, <1>3, <2>1
<1> QED BY <1>4

LEMMA MinOf ==
    ASSUME NEW S \in SUBSET Nat, S # {}
    PROVE  Min(S) \in S /\ \A n \in S : Min(S) <= n
<1>1. \E m \in S : \A n \in S : m =< n
  BY LeastNat
<1> QED BY <1>1 DEF Min

\* A number that is in a set and below all of it is its Min.
LEMMA MinIs ==
    ASSUME NEW S \in SUBSET Nat, NEW m \in S, \A n \in S : m <= n
    PROVE  Min(S) = m
<1>1. Min(S) \in S /\ Min(S) <= m
  BY MinOf
<1>2. m <= Min(S) /\ m \in Nat /\ Min(S) \in Nat
  BY <1>1
<1> QED BY <1>1, <1>2

\* The earliest of a set and one more instant follows from the earliest of the set.
LEMMA EarliestAdds ==
    ASSUME NEW S \in SUBSET Nat, NEW x \in Nat
    PROVE  Earliest({x} \cup ({Earliest(S)} \ {None})) = Earliest({x} \cup S)
<1>1. None \notin Nat
  BY ProgramAssumption
<1>2. CASE S = {}
  BY <1>1, <1>2 DEF Earliest
<1>3. CASE S # {}
  <2>1. Min(S) \in S /\ \A n \in S : Min(S) <= n
    BY <1>3, MinOf
  <2>2. Earliest(S) = Min(S) /\ Min(S) \in Nat
    BY <1>3, <2>1 DEF Earliest
  <2>3. {Earliest(S)} \ {None} = {Min(S)}
    BY <2>2, <1>1
  <2> DEFINE A == {x, Min(S)}
             B == {x} \cup S
  <2>4. Min(A) \in A /\ \A n \in A : Min(A) <= n
    BY <2>2, MinOf
  <2>5. Min(A) \in B /\ \A n \in B : Min(A) <= n
    <3> Min(A) \in Nat
      BY <2>4, <2>2
    <3>1. ASSUME NEW n \in S PROVE Min(A) <= n
      BY <2>4, <2>1, <2>2
    <3> QED BY <2>4, <2>1, <3>1
  <2>6. Min(B) = Min(A)
    <3> HIDE DEF A
    <3> QED BY <2>5, MinIs
  <2>7. Earliest({x} \cup ({Earliest(S)} \ {None})) = Min(A)
    <3>1. {x} \cup ({Earliest(S)} \ {None}) = A
      BY <2>3
    <3> QED BY <3>1 DEF Earliest
  <2>8. Earliest(B) = Min(B)
    BY DEF Earliest
  <2> QED BY <2>6, <2>7, <2>8
<1> QED BY <1>2, <1>3

LEMMA EarliestType ==
    ASSUME NEW S \in SUBSET Nat
    PROVE  /\ Earliest(S) \in Nat \cup {None}
           /\ \A n \in S : Earliest(S) \in Nat /\ Earliest(S) <= n
<1>1. CASE S = {}
  BY <1>1 DEF Earliest
<1>2. CASE S # {}
  BY <1>2, MinOf DEF Earliest
<1> QED BY <1>1, <1>2

LEMMA CardLess ==
    ASSUME NEW S, IsFiniteSet(S), NEW T \in SUBSET S
    PROVE  /\ IsFiniteSet(T)
           /\ Cardinality(T) \in Nat /\ Cardinality(S) \in Nat
           /\ Cardinality(S \ T) = Cardinality(S) - Cardinality(T)
           /\ T # S => Cardinality(T) < Cardinality(S)
           /\ S # {} => Cardinality(S) > 0
<1>1. IsFiniteSet(T) /\ Cardinality(T) <= Cardinality(S) /\ (T # S => Cardinality(T) < Cardinality(S))
  BY FS_Subset, FS_CardinalityType
<1>2. Cardinality(T) \in Nat /\ Cardinality(S) \in Nat
  BY <1>1, FS_CardinalityType
<1>3. S \cap T = T
  OBVIOUS
<1>4. Cardinality(S \ T) = Cardinality(S) - Cardinality(T)
  BY <1>3, FS_Difference
<1>5. S # {} => Cardinality(S) # 0
  BY FS_EmptySet
<1> QED BY <1>1, <1>2, <1>4, <1>5

-----------------------------------------------------------------------------
(* The inductive invariant.  What it says of one row:                      *)

Place == [at : Listen \cup {"join", "child", "expired"}, n : Nat]

CopyType == [event : Event \cup {None}, type : Type, cloud : BOOLEAN, delivered : BOOLEAN,
             expires : Nat, key : Place \cup {None}]

RowType ==
    [ state : {"Running", "Waiting", "Ended"}, wake : Nat, held : BOOLEAN,
      child : {"none", "running", "waiting", "ended"}, answered : SUBSET Event,
      awaits : [Type -> Nat \cup {None}], addressed : SUBSET Type, listeners : SUBSET Place,
      subscriptions : SUBSET Listen, waits : SUBSET Place, copies : Seq(CopyType),
      records : SUBSET [key : Place, n : Nat], over : SUBSET (Listen \cup {"join"}),
      pending : [Type -> [copies : Int, cloud : Int]], published : Int,
      mailbox : Nat \cup {None} ]

\* Copies with an identity are CloudEvents and of its type; the others are notices.
CopiesAreSound(s) ==
    \A n \in DOMAIN s.copies :
        LET c == s.copies[n]
        IN  IF c.cloud THEN c.event \in Event /\ c.type = TypeOf[c.event]
            ELSE c.event = None /\ c.type \in {Done, Waits}

\* A record names a copy that is consumed.
RecordsAreSound(s) ==
    /\ IsFiniteSet(s.records)
    /\ \A x \in s.records : x.n \in DOMAIN s.copies /\ s.copies[x.n].key # None

\* A listener of a listen is at its next position, the listen is subscribed and
\* not through, and a notice it could take is of a type that is awaited.
ListenersAreOpen(s) ==
    \A k \in s.listeners \ {ChildKey} :
        /\ k.at \in Listen \cup {"join"}
        /\ k.at \in Listen => /\ k.at \in s.subscriptions
                             /\ k = Position(s, k.at)
                             /\ Taken(s, k.at) # Takes[k.at]
        /\ \A n \in Pending(s) :
              ~s.copies[n].cloud /\ s.copies[n].type \in KeyTypes(k)
                => s.awaits[s.copies[n].type] # None

RowCore(s) ==
    /\ s \in RowType
    /\ CopiesAreSound(s)
    /\ RecordsAreSound(s)
    /\ Counted(s)

RowInv(s) == RowCore(s) /\ ListenersAreOpen(s)

\* A suspended row is due if a listener of it could take a copy.
Woken(s) ==
    /\ s.state = "Waiting"
    /\ \E k \in s.listeners \ {ChildKey} :
          \E n \in Takeable(s, KeyTypes(k)) : ~Expired(s.copies[n])
    => s.wake <= now

\* A branch in a listen is subscribed and not through; one that leaves it has no
\* listener any more, nor has a run that ended.
BranchesAgree(s, at) ==
    /\ s.state = "Ended" => s.listeners = {}
    /\ \A l \in Listen :
          /\ at[l] \in {"subscribe", "describe", "take", "parked"} => Taken(s, l) # Takes[l]
          /\ at[l] \in {"describe", "take", "parked"} => l \in s.subscriptions
          /\ at[l] = "leave" => \A k \in s.listeners : k.at # l

\* The places a branch can be at.
Pc == {"start", "register", "subscribe", "describe", "take", "parked", "leave", "save", "over"}

Inv ==
    /\ now \in Nat
    /\ row = [r \in Run |-> row[r]]
    /\ exec = [r \in Run |-> exec[r]]
    /\ \A r \in Run :
          /\ RowInv(row[r])
          /\ Woken(row[r])
          /\ exec[r] \in [Branch(r) -> Pc]
          /\ BranchesAgree(row[r], exec[r])

-----------------------------------------------------------------------------
(* What the operators on a row leave and change.                           *)

LEMMA PushFields ==
    ASSUME NEW s \in RowType, NEW c \in CopyType
    PROVE  /\ Push(s, c) \in RowType
           /\ Push(s, c).state = s.state /\ Push(s, c).wake = s.wake
           /\ Push(s, c).awaits = s.awaits /\ Push(s, c).addressed = s.addressed
           /\ Push(s, c).listeners = s.listeners
           /\ Push(s, c).subscriptions = s.subscriptions
           /\ Push(s, c).records = s.records
           /\ Push(s, c).copies = Append(s.copies, c)
           /\ Push(s, c).pending =
                [s.pending EXCEPT ![c.type] = [copies |-> @.copies + 1,
                                               cloud |-> @.cloud + (IF c.cloud THEN 1 ELSE 0)]]
           /\ Push(s, c).published = s.published + (IF Published(c) THEN 1 ELSE 0)
           /\ Push(s, c).mailbox = IF c.expires = Never THEN s.mailbox
                                   ELSE Earliest({c.expires} \cup ({s.mailbox} \ {None}))
<1> DEFINE p == [s.pending EXCEPT ![c.type] = [copies |-> @.copies + 1,
                                               cloud |-> @.cloud + (IF c.cloud THEN 1 ELSE 0)]]
           m == IF c.expires = Never THEN s.mailbox
                ELSE Earliest({c.expires} \cup ({s.mailbox} \ {None}))
           q == s.published + (IF Published(c) THEN 1 ELSE 0)
<1>1. p \in [Type -> [copies : Int, cloud : Int]]
  <2>1. s.pending \in [Type -> [copies : Int, cloud : Int]] /\ c.type \in Type /\ c.cloud \in BOOLEAN
    BY DEF RowType, CopyType
  <2>2. s.pending[c.type].copies \in Int /\ s.pending[c.type].cloud \in Int
    BY <2>1
  <2> QED BY <2>1, <2>2
<1>2. m \in Nat \cup {None}
  <2>1. c.expires \in Nat /\ s.mailbox \in Nat \cup {None}
    BY DEF RowType, CopyType
  <2>2. {c.expires} \cup ({s.mailbox} \ {None}) \in SUBSET Nat
    BY <2>1
  <2> QED BY <2>1, <2>2, EarliestType
<1>3. q \in Int
  BY DEF RowType
<1>4. Append(s.copies, c) \in Seq(CopyType)
  BY DEF RowType
<1>5. Push(s, c) = [s EXCEPT !.copies = Append(s.copies, c), !.pending = p, !.published = q, !.mailbox = m]
  BY DEF Push, RowType
<1> HIDE DEF p, q, m
<1>6. Push(s, c) \in RowType
  BY <1>1, <1>2, <1>3, <1>4, <1>5 DEF RowType
<1> QED BY <1>5, <1>6 DEF p, q, m, RowType

LEMMA PendingFinite ==
    ASSUME NEW s \in RowType
    PROVE  /\ DOMAIN s.copies = 1..Len(s.copies) /\ Len(s.copies) \in Nat
           /\ IsFiniteSet(Pending(s))
           /\ \A S \in SUBSET Pending(s) : IsFiniteSet(S) /\ Cardinality(S) \in Nat
<1>1. s.copies \in Seq(CopyType)
  BY DEF RowType
<1>2. DOMAIN s.copies = 1..Len(s.copies) /\ Len(s.copies) \in Nat
  BY <1>1
<1>3. IsFiniteSet(DOMAIN s.copies)
  BY <1>2, FS_Interval
<1>4. Pending(s) \subseteq DOMAIN s.copies
  BY DEF Pending
<1>5. \A S \in SUBSET DOMAIN s.copies : IsFiniteSet(S) /\ Cardinality(S) \in Nat
  BY <1>3, FS_Subset, FS_CardinalityType
<1> QED BY <1>2, <1>4, <1>5

LEMMA CopyIsTyped ==
    ASSUME NEW s \in RowType, NEW n \in DOMAIN s.copies
    PROVE  s.copies[n] \in CopyType
BY DEF RowType

\* A new copy is counted.
LEMMA PushCore ==
    ASSUME NEW s, RowCore(s), NEW c \in CopyType, c.key = None,
           IF c.cloud THEN c.event \in Event /\ c.type = TypeOf[c.event]
           ELSE c.event = None /\ c.type \in {Done, Waits} /\ s.pending[c.type].copies = 0
    PROVE  /\ RowCore(Push(s, c))
           /\ DOMAIN Push(s, c).copies = DOMAIN s.copies \cup {Len(s.copies) + 1}
           /\ \A n \in DOMAIN s.copies : Push(s, c).copies[n] = s.copies[n]
           /\ Push(s, c).copies[Len(s.copies) + 1] = c
           /\ Len(s.copies) + 1 \notin DOMAIN s.copies
           /\ Pending(Push(s, c)) = Pending(s) \cup {Len(s.copies) + 1}
<1> DEFINE t == Push(s, c)
           N == Len(s.copies) + 1
<1>1. s \in RowType
  BY DEF RowCore
<1>2. t \in RowType /\ t.copies = Append(s.copies, c) /\ t.records = s.records
  BY <1>1, PushFields
<1>3. DOMAIN s.copies = 1..Len(s.copies) /\ Len(s.copies) \in Nat /\ s.copies \in Seq(CopyType)
  BY <1>1, PendingFinite DEF RowType
<1>4. /\ DOMAIN t.copies = DOMAIN s.copies \cup {N}
      /\ \A n \in DOMAIN s.copies : t.copies[n] = s.copies[n]
      /\ t.copies[N] = c
      /\ N \notin DOMAIN s.copies
  BY <1>2, <1>3
<1> HIDE DEF N
<1>5. Pending(t) = Pending(s) \cup {N}
  BY <1>4 DEF Pending
<1>6. CopiesAreSound(t)
  BY <1>4 DEF CopiesAreSound, RowCore
<1>7. RecordsAreSound(t)
  BY <1>4, <1>2 DEF RecordsAreSound, RowCore
<1>8. N \notin Pending(s)
  BY <1>4 DEF Pending
<1>9. \A S \in SUBSET Pending(s) : IsFiniteSet(S) /\ Cardinality(S) \in Nat
                                  /\ Cardinality(S \cup {N}) = Cardinality(S) + 1
  <2> TAKE S \in SUBSET Pending(s)
  <2>1. IsFiniteSet(S) /\ Cardinality(S) \in Nat
    BY <1>1, PendingFinite
  <2>2. N \notin S
    BY <1>8
  <2> QED BY <2>1, <2>2, FS_AddElement
<1>10. ASSUME NEW y \in Type
       PROVE  /\ t.pending[y] = [copies |-> Cardinality(PendingOf(t, y)), cloud |-> Cardinality(CloudOf(t, y))]
              /\ Cardinality(PendingOf(t, y) \ CloudOf(t, y)) <= 1
  <2>1. /\ s.pending[y] = [copies |-> Cardinality(PendingOf(s, y)), cloud |-> Cardinality(CloudOf(s, y))]
        /\ Cardinality(PendingOf(s, y) \ CloudOf(s, y)) <= 1
    BY DEF RowCore, Counted
  <2>2. /\ PendingOf(s, y) \in SUBSET Pending(s) /\ CloudOf(s, y) \in SUBSET Pending(s)
    BY DEF PendingOf, CloudOf
  <2>3. t.pending = [s.pending EXCEPT ![c.type] = [copies |-> @.copies + 1,
                                               cloud |-> @.cloud + (IF c.cloud THEN 1 ELSE 0)]]
    BY <1>1, PushFields
  <2>4. s.pending \in [Type -> [copies : Int, cloud : Int]] /\ c.type \in Type /\ c.cloud \in BOOLEAN
    BY <1>1 DEF RowType, CopyType
  <2>5. CASE y # c.type
    <3>1. PendingOf(t, y) = PendingOf(s, y) /\ CloudOf(t, y) = CloudOf(s, y)
      BY <2>5, <1>4, <1>5 DEF PendingOf, CloudOf, Pending
    <3>2. t.pending[y] = s.pending[y]
      BY <2>3, <2>4, <2>5
    <3> QED BY <3>1, <3>2, <2>1
  <2>6. CASE y = c.type /\ c.cloud
    <3>1. PendingOf(t, y) = PendingOf(s, y) \cup {N} /\ CloudOf(t, y) = CloudOf(s, y) \cup {N}
      BY <2>6, <1>4, <1>5 DEF PendingOf, CloudOf, Pending
    <3>2. t.pending[y] = [copies |-> s.pending[y].copies + 1, cloud |-> s.pending[y].cloud + 1]
      BY <2>3, <2>4, <2>6
    <3>3. PendingOf(t, y) \ CloudOf(t, y) = PendingOf(s, y) \ CloudOf(s, y)
      BY <3>1, <1>8, <2>2
    <3>4. /\ Cardinality(PendingOf(t, y)) = Cardinality(PendingOf(s, y)) + 1
          /\ Cardinality(CloudOf(t, y)) = Cardinality(CloudOf(s, y)) + 1
      BY <3>1, <1>9, <2>2
    <3> QED BY <3>2, <3>3, <3>4, <2>1
  <2>7. CASE y = c.type /\ ~c.cloud
    <3>1. PendingOf(t, y) = PendingOf(s, y) \cup {N} /\ CloudOf(t, y) = CloudOf(s, y)
      BY <2>7, <1>4, <1>5 DEF PendingOf, CloudOf, Pending
    <3>2. t.pending[y] = [copies |-> s.pending[y].copies + 1, cloud |-> s.pending[y].cloud]
      BY <2>3, <2>4, <2>7
    <3>3. Cardinality(PendingOf(s, y)) = 0
      BY <2>1, <2>7
    <3>4. PendingOf(s, y) = {}
      <4>1. IsFiniteSet(PendingOf(s, y))
        BY <1>9, <2>2
      <4> QED BY <4>1, <3>3, FS_EmptySet
    <3>5. CloudOf(s, y) = {}
      BY <3>4 DEF CloudOf
    <3>6. PendingOf(t, y) \ CloudOf(t, y) = {} \cup {N} /\ PendingOf(t, y) = {} \cup {N}
      BY <3>1, <3>4, <3>5
    <3>7. Cardinality({} \cup {N}) = Cardinality({}) + 1 /\ Cardinality({}) = 0
      BY <1>9, FS_EmptySet
    <3> QED BY <3>1, <3>2, <3>3, <3>6, <3>7, <2>1, <3>4, <3>5
  <2> QED BY <2>5, <2>6, <2>7, <2>4
<1>11. t.published = Cardinality(PublishedOf(t))
  <2>1. t.published = s.published + (IF Published(c) THEN 1 ELSE 0)
    BY <1>1, PushFields
  <2>2. s.published = Cardinality(PublishedOf(s))
    BY DEF RowCore, Counted
  <2>3. PublishedOf(s) \in SUBSET Pending(s)
    BY DEF PublishedOf
  <2>4. CASE Published(c)
    <3>1. PublishedOf(t) = PublishedOf(s) \cup {N}
      BY <2>4, <1>4, <1>5 DEF PublishedOf, Pending
    <3> QED BY <3>1, <2>1, <2>2, <2>3, <2>4, <1>9
  <2>5. CASE ~Published(c)
    <3>1. PublishedOf(t) = PublishedOf(s)
      BY <2>5, <1>4, <1>5 DEF PublishedOf, Pending
    <3>2. s.published \in Int
      BY <1>1 DEF RowType
    <3>3. t.published = s.published
      BY <3>2, <2>1, <2>5
    <3> QED BY <3>1, <3>3, <2>2
  <2> QED BY <2>4, <2>5
<1>12. t.mailbox = Earliest({t.copies[n].expires : n \in Pending(t)} \ {Never})
  <2> DEFINE X == {s.copies[n].expires : n \in Pending(s)} \ {Never}
             Y == {t.copies[n].expires : n \in Pending(t)} \ {Never}
  <2>1. s.mailbox = Earliest(X)
    BY DEF RowCore, Counted
  <2>2. X \in SUBSET Nat
    BY <1>1, CopyIsTyped DEF Pending, CopyType
  <2>3. \A n \in Pending(s) : t.copies[n] = s.copies[n]
    BY <1>4 DEF Pending
  <2>4. c.expires \in Nat
    BY DEF CopyType
  <2>5. t.mailbox = IF c.expires = Never THEN s.mailbox
                    ELSE Earliest({c.expires} \cup ({s.mailbox} \ {None}))
    BY <1>1, PushFields
  <2>6. CASE c.expires = Never
    <3>1. Y = X
      BY <2>6, <2>3, <1>4, <1>5
    <3> QED BY <3>1, <2>5, <2>6, <2>1
  <2>7. CASE c.expires # Never
    <3>1. Y = {c.expires} \cup X
      BY <2>7, <2>3, <1>4, <1>5
    <3> HIDE DEF X, Y
    <3>2. Earliest({c.expires} \cup ({Earliest(X)} \ {None})) = Earliest({c.expires} \cup X)
      BY <2>2, <2>4, EarliestAdds
    <3>3. t.mailbox = Earliest(Y)
      BY <3>1, <3>2, <2>5, <2>7, <2>1
    <3> QED BY <3>3 DEF Y
  <2> QED BY <2>6, <2>7
<1>13. Counted(t)
  BY <1>10, <1>11, <1>12 DEF Counted
<1> QED BY <1>2, <1>4, <1>5, <1>6, <1>7, <1>13 DEF RowCore, N

\* The copies that keys names are consumed, the others stay as they are.
KeysFor(s, keys) == DOMAIN keys \in SUBSET Pending(s) /\ \A n \in DOMAIN keys : keys[n] \in Place

Consumed(s, keys, t) ==
    /\ t \in RowType
    /\ t.state = s.state /\ t.wake = s.wake /\ t.awaits = s.awaits
    /\ t.addressed = s.addressed
    /\ t.listeners = s.listeners /\ t.subscriptions = s.subscriptions
    /\ t.records = s.records \cup {[key |-> keys[n], n |-> n] : n \in DOMAIN keys}
    /\ DOMAIN t.copies = DOMAIN s.copies
    /\ \A n \in DOMAIN s.copies :
          t.copies[n] = IF n \in DOMAIN keys THEN [s.copies[n] EXCEPT !.key = keys[n]]
                        ELSE s.copies[n]
    /\ t.pending = [y \in Type |->
         [copies |-> s.pending[y].copies
                       - Cardinality({n \in DOMAIN keys : s.copies[n].type = y}),
          cloud |-> s.pending[y].cloud
                       - Cardinality({n \in {m \in DOMAIN keys : s.copies[m].type = y} :
                                         s.copies[n].cloud})]]
    /\ t.published = s.published
                       - Cardinality({n \in DOMAIN keys : Published(s.copies[n])})
    /\ t.mailbox = Earliest({s.copies[n].expires : n \in Pending(s) \ DOMAIN keys} \ {Never})

LEMMA ConsumeFields ==
    ASSUME NEW s \in RowType, NEW keys, KeysFor(s, keys)
    PROVE  Consumed(s, keys, Consume(s, keys))
<1> USE DEF KeysFor
<1> DEFINE N == DOMAIN keys
           t == Consume(s, keys)
           p == [y \in Type |->
                    [copies |-> s.pending[y].copies
                                  - Cardinality({n \in N : s.copies[n].type = y}),
                     cloud |-> s.pending[y].cloud
                                  - Cardinality({n \in {m \in N : s.copies[m].type = y} :
                                                    s.copies[n].cloud})]]
           q == s.published - Cardinality({n \in N : Published(s.copies[n])})
           E == {s.copies[n].expires : n \in Pending(s) \ N} \ {Never}
           m == Earliest(E)
           C == [n \in DOMAIN s.copies |-> IF n \in N THEN [s.copies[n] EXCEPT !.key = keys[n]]
                                           ELSE s.copies[n]]
           R == s.records \cup {[key |-> keys[n], n |-> n] : n \in N}
<1>1. s.copies \in Seq(CopyType) /\ DOMAIN s.copies = 1..Len(s.copies) /\ Len(s.copies) \in Nat
  BY PendingFinite DEF RowType
<1>2. Pending(s) \subseteq DOMAIN s.copies
  BY DEF Pending
<1>3. C \in Seq(CopyType)
  <2>1. ASSUME NEW n \in 1..Len(s.copies) PROVE C[n] \in CopyType
    <3>1. s.copies[n] \in CopyType
      BY <1>1
    <3>2. n \in N => [s.copies[n] EXCEPT !.key = keys[n]] \in CopyType
      BY <3>1 DEF CopyType
    <3> QED BY <3>1, <3>2, <1>1
  <2>2. C \in [1..Len(s.copies) -> CopyType]
    BY <2>1, <1>1
  <2> HIDE DEF C
  <2> QED BY <2>2, <1>1
<1>4. R \in SUBSET [key : Place, n : Nat]
  <2>1. s.records \in SUBSET [key : Place, n : Nat]
    BY DEF RowType
  <2>2. \A n \in N : n \in Nat
    BY <1>1, <1>2
  <2> QED BY <2>1, <2>2
<1>5. \A S \in SUBSET N : Cardinality(S) \in Nat
  BY PendingFinite
<1>6. p \in [Type -> [copies : Int, cloud : Int]]
  <2>1. ASSUME NEW y \in Type PROVE p[y] \in [copies : Int, cloud : Int]
    <3>1. Cardinality({n \in N : s.copies[n].type = y}) \in Nat
      BY <1>5
    <3>2. Cardinality({n \in {k \in N : s.copies[k].type = y} : s.copies[n].cloud}) \in Nat
      BY <1>5
    <3>3. s.pending[y].copies \in Int /\ s.pending[y].cloud \in Int
      BY DEF RowType
    <3> QED BY <3>1, <3>2, <3>3
  <2> QED BY <2>1
<1>7. q \in Int
  <2>1. Cardinality({n \in N : Published(s.copies[n])}) \in Nat
    BY <1>5
  <2>2. s.published \in Int
    BY DEF RowType
  <2> QED BY <2>1, <2>2
<1>8. m \in Nat \cup {None}
  <2>1. E \in SUBSET Nat
    BY <1>2, CopyIsTyped DEF CopyType
  <2> HIDE DEF E
  <2> QED BY <2>1, EarliestType
<1>9. t = [s EXCEPT !.copies = C, !.records = R, !.pending = p, !.published = q, !.mailbox = m]
  <2>1. Marked(s, keys) = [s EXCEPT !.copies = C, !.records = R]
    BY DEF Marked, RowType
  <2>2. t = [Marked(s, keys) EXCEPT !.pending = p, !.published = q, !.mailbox = m]
    <3>1. Marked(s, keys).pending = s.pending /\ Marked(s, keys).published = s.published
      BY <2>1 DEF RowType
    <3>2. t = [Marked(s, keys) EXCEPT
            !.pending = [y \in Type |->
                [copies |-> Marked(s, keys).pending[y].copies - Cardinality({n \in N : s.copies[n].type = y}),
                 cloud |-> Marked(s, keys).pending[y].cloud
                             - Cardinality({n \in {k \in N : s.copies[k].type = y} : s.copies[n].cloud})]],
            !.published = Marked(s, keys).published - Cardinality({n \in N : Published(s.copies[n])}),
            !.mailbox = m]
      BY DEF Consume
    <3> QED BY <3>1, <3>2
  <2> HIDE DEF C, R, p, q, m
  <2> QED BY <2>1, <2>2 DEF RowType
<1>10. t \in RowType
  <2> HIDE DEF C, R, p, q, m
  <2> QED BY <1>3, <1>4, <1>6, <1>7, <1>8, <1>9 DEF RowType
<1>11. /\ t.copies = C /\ t.records = R /\ t.pending = p /\ t.published = q /\ t.mailbox = m
       /\ t.state = s.state /\ t.wake = s.wake /\ t.awaits = s.awaits /\ t.addressed = s.addressed
       /\ t.listeners = s.listeners /\ t.subscriptions = s.subscriptions
  <2> HIDE DEF C, R, p, q, m
  <2> QED BY <1>9 DEF RowType
<1>12. /\ DOMAIN t.copies = DOMAIN s.copies
       /\ \A n \in DOMAIN s.copies :
             t.copies[n] = IF n \in N THEN [s.copies[n] EXCEPT !.key = keys[n]] ELSE s.copies[n]
  BY <1>11
<1>13. Consumed(s, keys, t)
  BY <1>10, <1>11, <1>12 DEF Consumed
<1> QED BY <1>13

\* Consumed copies leave the counters.
LEMMA ConsumeCore ==
    ASSUME NEW s, RowCore(s), NEW keys, KeysFor(s, keys)
    PROVE  LET t == Consume(s, keys)
           IN  /\ RowCore(t)
               /\ DOMAIN t.copies = DOMAIN s.copies
               /\ Pending(t) = Pending(s) \ DOMAIN keys
               /\ \A n \in Pending(t) : t.copies[n] = s.copies[n]
<1> DEFINE t == Consume(s, keys)
           N == DOMAIN keys
<1>1. s \in RowType
  BY DEF RowCore
<1>0. Consumed(s, keys, t)
  BY <1>1, ConsumeFields
<1> HIDE DEF t
<1> USE DEF KeysFor
<1>2. /\ t \in RowType
      /\ t.records = s.records \cup {[key |-> keys[n], n |-> n] : n \in N}
      /\ DOMAIN t.copies = DOMAIN s.copies
      /\ \A n \in DOMAIN s.copies :
            t.copies[n] = IF n \in N THEN [s.copies[n] EXCEPT !.key = keys[n]] ELSE s.copies[n]
      /\ t.published = s.published - Cardinality({n \in N : Published(s.copies[n])})
      /\ t.mailbox = Earliest({s.copies[n].expires : n \in Pending(s) \ N} \ {Never})
  BY <1>0 DEF Consumed
<1>3. t.pending = [y \in Type |->
                    [copies |-> s.pending[y].copies
                                  - Cardinality({n \in N : s.copies[n].type = y}),
                     cloud |-> s.pending[y].cloud
                                  - Cardinality({n \in {m \in N : s.copies[m].type = y} :
                                                    s.copies[n].cloud})]]
  BY <1>0 DEF Consumed
<1>4. None \notin Place
  BY ProgramAssumption DEF Place
<1>5. \A n \in DOMAIN s.copies :
         /\ t.copies[n].event = s.copies[n].event /\ t.copies[n].type = s.copies[n].type
         /\ t.copies[n].cloud = s.copies[n].cloud /\ t.copies[n].delivered = s.copies[n].delivered
         /\ t.copies[n].expires = s.copies[n].expires
         /\ t.copies[n].key = IF n \in N THEN keys[n] ELSE s.copies[n].key
  <2> TAKE n \in DOMAIN s.copies
  <2>1. s.copies[n] \in CopyType
    BY <1>1, CopyIsTyped
  <2> QED BY <2>1, <1>2 DEF CopyType
<1>6. N \subseteq Pending(s) /\ Pending(s) \subseteq DOMAIN s.copies
  BY DEF Pending
<1>7. Pending(t) = Pending(s) \ N
  BY <1>2, <1>4, <1>5, <1>6 DEF Pending
<1>8. \A n \in Pending(t) : t.copies[n] = s.copies[n]
  BY <1>2, <1>6, <1>7
<1>9. CopiesAreSound(t)
  BY <1>2, <1>5 DEF CopiesAreSound, RowCore
<1>10. RecordsAreSound(t)
  <2>1. IsFiniteSet(N)
    BY <1>1, PendingFinite
  <2>2. IsFiniteSet(s.records) /\ \A x \in s.records : x.n \in DOMAIN s.copies /\ s.copies[x.n].key # None
    BY DEF RowCore, RecordsAreSound
  <2>3. IsFiniteSet({[key |-> keys[n], n |-> n] : n \in N})
    <3> DEFINE T == {[key |-> keys[n], n |-> n] : n \in N}
               g == [n \in N |-> [key |-> keys[n], n |-> n]]
    <3>1. g \in Surjection(N, T)
      BY DEF Surjection
    <3> HIDE DEF g, T
    <3>2. IsFiniteSet(T)
      BY <2>1, <3>1, FS_Surjection
    <3> QED BY <3>2 DEF T
  <2>4. IsFiniteSet(t.records)
    <3> DEFINE T == {[key |-> keys[n], n |-> n] : n \in N}
    <3>1. IsFiniteSet(T) /\ t.records = s.records \cup T
      BY <1>2, <2>3
    <3> HIDE DEF T
    <3> QED BY <3>1, <2>2, FS_Union
  <2>5. ASSUME NEW x \in t.records PROVE x.n \in DOMAIN t.copies /\ t.copies[x.n].key # None
    <3>1. CASE x \in s.records
      BY <3>1, <2>2, <1>2, <1>4, <1>5
    <3>2. CASE x \in {[key |-> keys[n], n |-> n] : n \in N}
      BY <3>2, <1>2, <1>4, <1>5, <1>6
    <3> QED BY <3>1, <3>2, <1>2
  <2> QED BY <2>4, <2>5 DEF RecordsAreSound
<1>11. \A S, T \in SUBSET Pending(s) : T \subseteq S =>
           /\ Cardinality(S) \in Nat /\ Cardinality(T) \in Nat
           /\ Cardinality(S \ T) = Cardinality(S) - Cardinality(T)
  BY <1>1, PendingFinite, CardLess
<1>12. ASSUME NEW y \in Type
       PROVE  /\ t.pending[y] = [copies |-> Cardinality(PendingOf(t, y)), cloud |-> Cardinality(CloudOf(t, y))]
              /\ Cardinality(PendingOf(t, y) \ CloudOf(t, y)) <= 1
  <2> DEFINE A == {n \in N : s.copies[n].type = y}
             B == {n \in A : s.copies[n].cloud}
  <2>1. /\ s.pending[y] = [copies |-> Cardinality(PendingOf(s, y)), cloud |-> Cardinality(CloudOf(s, y))]
        /\ Cardinality(PendingOf(s, y) \ CloudOf(s, y)) <= 1
    BY DEF RowCore, Counted
  <2>2. PendingOf(s, y) \in SUBSET Pending(s) /\ CloudOf(s, y) \in SUBSET Pending(s)
    BY DEF PendingOf, CloudOf
  <2>3. PendingOf(t, y) = PendingOf(s, y) \ A
    BY <1>6, <1>7, <1>8 DEF PendingOf
  <2>4. CloudOf(t, y) = CloudOf(s, y) \ B
    BY <2>3, <1>6, <1>7, <1>8 DEF CloudOf, PendingOf
  <2>5. A \subseteq PendingOf(s, y) /\ B \subseteq CloudOf(s, y)
    BY <1>6 DEF PendingOf, CloudOf
  <2>6. t.pending[y] = [copies |-> s.pending[y].copies - Cardinality(A), cloud |-> s.pending[y].cloud - Cardinality(B)]
    BY <1>3
  <2>7. PendingOf(t, y) \ CloudOf(t, y) \subseteq PendingOf(s, y) \ CloudOf(s, y)
    BY <2>3, <2>4
  <2>8. Cardinality(PendingOf(t, y) \ CloudOf(t, y)) <= 1
    <3>1. IsFiniteSet(PendingOf(s, y) \ CloudOf(s, y))
      BY <1>1, <2>2, PendingFinite
    <3>2. Cardinality(PendingOf(t, y) \ CloudOf(t, y)) <= Cardinality(PendingOf(s, y) \ CloudOf(s, y))
      BY <3>1, <2>7, FS_Subset
    <3>3. Cardinality(PendingOf(t, y) \ CloudOf(t, y)) \in Nat /\ Cardinality(PendingOf(s, y) \ CloudOf(s, y)) \in Nat
      BY <3>1, <2>7, FS_Subset, FS_CardinalityType
    <3> QED BY <3>2, <3>3, <2>1
  <2> HIDE DEF A, B
  <2>9. /\ Cardinality(PendingOf(t, y)) = s.pending[y].copies - Cardinality(A)
        /\ Cardinality(CloudOf(t, y)) = s.pending[y].cloud - Cardinality(B)
    <3>1. /\ s.pending[y].copies = Cardinality(PendingOf(s, y))
          /\ s.pending[y].cloud = Cardinality(CloudOf(s, y))
      BY <2>1
    <3>2. A \in SUBSET Pending(s) /\ B \in SUBSET Pending(s)
      BY <2>2, <2>5
    <3>3. Cardinality(PendingOf(s, y) \ A) = Cardinality(PendingOf(s, y)) - Cardinality(A)
      BY <2>2, <2>5, <3>2, <1>11
    <3>4. Cardinality(CloudOf(s, y) \ B) = Cardinality(CloudOf(s, y)) - Cardinality(B)
      BY <2>2, <2>5, <3>2, <1>11
    <3> QED BY <3>1, <3>3, <3>4, <2>3, <2>4
  <2> QED BY <2>6, <2>8, <2>9
<1>13. t.published = Cardinality(PublishedOf(t))
  <2> DEFINE A == {n \in N : Published(s.copies[n])}
  <2>1. PublishedOf(t) = PublishedOf(s) \ A
    BY <1>6, <1>7, <1>8 DEF PublishedOf
  <2>2. A \subseteq PublishedOf(s) /\ PublishedOf(s) \in SUBSET Pending(s)
    BY <1>6 DEF PublishedOf
  <2>3. s.published = Cardinality(PublishedOf(s))
    BY DEF RowCore, Counted
  <2>4. t.published = s.published - Cardinality(A)
    BY <1>2
  <2> HIDE DEF A
  <2> QED BY <2>1, <2>2, <2>3, <2>4, <1>11
<1>14. t.mailbox = Earliest({t.copies[n].expires : n \in Pending(t)} \ {Never})
  <2>1. {t.copies[n].expires : n \in Pending(t)} = {s.copies[n].expires : n \in Pending(s) \ N}
    BY <1>7, <1>8
  <2> QED BY <2>1, <1>2
<1>15. Counted(t)
  BY <1>12, <1>13, <1>14 DEF Counted
<1>16. RowCore(t)
  BY <1>2, <1>9, <1>10, <1>15 DEF RowCore
<1> QED BY <1>16, <1>2, <1>7, <1>8 DEF t

\* Rows that differ in neither copies, records nor counters.
SameMail(s, t) ==
    /\ t.copies = s.copies /\ t.records = s.records
    /\ t.pending = s.pending /\ t.published = s.published /\ t.mailbox = s.mailbox

LEMMA SameCore ==
    ASSUME NEW s, RowCore(s), NEW t \in RowType, SameMail(s, t)
    PROVE  /\ RowCore(t)
           /\ Pending(t) = Pending(s)
           /\ \A b : Taken(t, b) = Taken(s, b)
<1>1. Pending(t) = Pending(s)
  BY DEF Pending, SameMail
<1>2. \A y : PendingOf(t, y) = PendingOf(s, y) /\ CloudOf(t, y) = CloudOf(s, y)
  BY <1>1 DEF PendingOf, CloudOf, SameMail
<1>3. PublishedOf(t) = PublishedOf(s)
  BY <1>1 DEF PublishedOf, SameMail
<1>4. Counted(t)
  BY <1>1, <1>2, <1>3 DEF Counted, RowCore, SameMail
<1>5. CopiesAreSound(t) /\ RecordsAreSound(t)
  BY DEF CopiesAreSound, RecordsAreSound, RowCore, SameMail
<1>6. \A b : Taken(t, b) = Taken(s, b)
  BY DEF Taken, SameMail
<1> QED BY <1>1, <1>4, <1>5, <1>6 DEF RowCore

\* What is open stays open if a row keeps its listeners, subscriptions and
\* positions, gets no new notice and awaits what its listeners name.
LEMMA StaysOpen ==
    ASSUME NEW s, RowInv(s), NEW t, RowCore(t),
           t.listeners \subseteq s.listeners \cup {ChildKey},
           \A l \in Listen : (\E k \in t.listeners : k.at = l)
              => Taken(t, l) = Taken(s, l) /\ (l \in s.subscriptions => l \in t.subscriptions),
           Pending(t) \subseteq Pending(s),
           \A n \in Pending(t) : t.copies[n] = s.copies[n],
           \A k \in t.listeners, y \in Type :
              y \in KeyTypes(k) /\ s.awaits[y] # None => t.awaits[y] # None
    PROVE  ListenersAreOpen(t)
<1> SUFFICES ASSUME NEW k \in t.listeners \ {ChildKey}
             PROVE  /\ k.at \in Listen \cup {"join"}
                    /\ k.at \in Listen => /\ k.at \in t.subscriptions
                                         /\ k = Position(t, k.at)
                                         /\ Taken(t, k.at) # Takes[k.at]
                    /\ \A n \in Pending(t) :
                          ~t.copies[n].cloud /\ t.copies[n].type \in KeyTypes(k)
                            => t.awaits[t.copies[n].type] # None
  BY DEF ListenersAreOpen
<1>1. /\ k.at \in Listen \cup {"join"}
      /\ k.at \in Listen => /\ k.at \in s.subscriptions
                           /\ k = Position(s, k.at)
                           /\ Taken(s, k.at) # Takes[k.at]
      /\ \A n \in Pending(s) :
            ~s.copies[n].cloud /\ s.copies[n].type \in KeyTypes(k)
              => s.awaits[s.copies[n].type] # None
  BY DEF RowInv, ListenersAreOpen
<1>2. k.at \in Listen => /\ Taken(t, k.at) = Taken(s, k.at)
                         /\ k.at \in s.subscriptions => k.at \in t.subscriptions
  OBVIOUS
<1>3. ASSUME NEW n \in Pending(t), ~t.copies[n].cloud, t.copies[n].type \in KeyTypes(k)
      PROVE  t.awaits[t.copies[n].type] # None
  <2>1. n \in Pending(s) /\ t.copies[n] = s.copies[n]
    OBVIOUS
  <2>2. s.awaits[s.copies[n].type] # None
    BY <1>1, <1>3, <2>1
  <2>3. t.copies[n].type \in Type
    BY CopyIsTyped DEF RowCore, Pending, CopyType
  <2> QED BY <1>3, <2>1, <2>2, <2>3
<1> QED BY <1>1, <1>2, <1>3 DEF Position

Frame(s, t) ==
    /\ t.state = s.state /\ t.wake = s.wake
    /\ t.listeners = s.listeners /\ t.subscriptions = s.subscriptions
    /\ t.awaits = s.awaits /\ t.addressed = s.addressed

LEMMA ConsumeTaken ==
    ASSUME NEW s, NEW keys, NEW t, Consumed(s, keys, t), NEW b, \A n \in DOMAIN keys : keys[n].at # b
    PROVE  Taken(t, b) = Taken(s, b)
<1>1. {x \in t.records : x.key.at = b} = {x \in s.records : x.key.at = b}
  BY DEF Consumed
<1> QED BY <1>1 DEF Taken

\* Expiring leaves everything but copies whose time is over.
LEMMA ExpireInv ==
    ASSUME NEW s, RowInv(s), now \in Nat
    PROVE  /\ RowInv(Expire(s))
           /\ Frame(s, Expire(s))
           /\ \A b \in Listen \cup {"join"} : Taken(Expire(s), b) = Taken(s, b)
           /\ Pending(Expire(s)) \subseteq Pending(s)
           /\ \A n \in Pending(Expire(s)) : Expire(s).copies[n] = s.copies[n]
           /\ DOMAIN Expire(s).copies = DOMAIN s.copies
<1> DEFINE keys == [n \in {m \in Pending(s) : Expired(s.copies[m])} |-> [at |-> "expired", n |-> n]]
           t == Consume(s, keys)
<1>1. CASE s.mailbox = None \/ s.mailbox > now
  <2>1. Expire(s) = s
    BY <1>1 DEF Expire
  <2> QED BY <2>1 DEF Frame
<1>2. CASE ~(s.mailbox = None \/ s.mailbox > now)
  <2>0. s \in RowType
    BY DEF RowInv, RowCore
  <2>1. Expire(s) = t
    BY <1>2 DEF Expire
  <2>2. KeysFor(s, keys)
    <3>1. DOMAIN keys = {m \in Pending(s) : Expired(s.copies[m])}
      OBVIOUS
    <3>3. \A n \in DOMAIN keys : keys[n] = [at |-> "expired", n |-> n]
      OBVIOUS
    <3> HIDE DEF keys
    <3>4. Pending(s) \subseteq 1..Len(s.copies) /\ Len(s.copies) \in Nat
      BY <2>0, PendingFinite DEF Pending
    <3>2. \A n \in DOMAIN keys : n \in Nat
      BY <3>1, <3>4
    <3> QED BY <3>1, <3>2, <3>3 DEF KeysFor, Place
  <2>3. \A n \in DOMAIN keys : keys[n].at = "expired"
    OBVIOUS
  <2> HIDE DEF keys
  <2>4. Consumed(s, keys, t)
    BY <2>0, <2>2, ConsumeFields
  <2>5. /\ RowCore(t) /\ DOMAIN t.copies = DOMAIN s.copies
        /\ Pending(t) = Pending(s) \ DOMAIN keys
        /\ \A n \in Pending(t) : t.copies[n] = s.copies[n]
    BY <2>2, ConsumeCore DEF RowInv
  <2> HIDE DEF t
  <2>6. \A b \in Listen \cup {"join"} : Taken(t, b) = Taken(s, b)
    <3> TAKE b \in Listen \cup {"join"}
    <3>1. b # "expired"
      BY ProgramAssumption
    <3> QED BY <3>1, <2>3, <2>4, ConsumeTaken
  <2>7. Frame(s, t)
    BY <2>4 DEF Consumed, Frame
  <2>8. ListenersAreOpen(t)
    <3>1. \A k \in t.listeners, y \in Type :
              y \in KeyTypes(k) /\ s.awaits[y] # None => t.awaits[y] # None
      BY <2>7 DEF Frame
    <3> QED BY <2>5, <2>6, <2>7, <3>1, StaysOpen DEF Frame
  <2> QED BY <2>1, <2>5, <2>6, <2>7, <2>8 DEF RowInv
<1> QED BY <1>1, <1>2

LEMMA CloseFields ==
    ASSUME NEW s \in RowType, NEW types
    PROVE  LET t == Close(s, types)
           IN  /\ t \in RowType /\ SameMail(s, t)
               /\ t.state = s.state /\ t.wake = s.wake /\ t.listeners = s.listeners
               /\ t.subscriptions = s.subscriptions
               /\ \A y \in Type : (\E k \in s.listeners : y \in KeyTypes(k)) => t.awaits[y] = s.awaits[y]
<1> DEFINE closed == {y \in types \ {Star} : \A k \in s.listeners : y \notin KeyTypes(k)}
           a == [y \in Type |-> IF y \in closed THEN None ELSE s.awaits[y]]
           d == s.addressed \ closed
<1>1. Close(s, types) = [s EXCEPT !.awaits = a, !.addressed = d]
  BY DEF Close, RowType
<1>2. a \in [Type -> Nat \cup {None}] /\ d \in SUBSET Type
  BY DEF RowType
<1>3. \A y \in Type : (\E k \in s.listeners : y \in KeyTypes(k)) => a[y] = s.awaits[y]
  OBVIOUS
<1> HIDE DEF a, d
<1> QED BY <1>1, <1>2, <1>3 DEF RowType, SameMail

LEMMA CloseInv ==
    ASSUME NEW s, RowInv(s), NEW types
    PROVE  RowInv(Close(s, types))
<1> DEFINE t == Close(s, types)
<1>1. s \in RowType
  BY DEF RowInv, RowCore
<1>2. /\ t \in RowType /\ SameMail(s, t)
      /\ t.listeners = s.listeners /\ t.subscriptions = s.subscriptions
      /\ \A y \in Type : (\E k \in s.listeners : y \in KeyTypes(k)) => t.awaits[y] = s.awaits[y]
  BY <1>1, CloseFields
<1> HIDE DEF t
<1>3. RowCore(t) /\ Pending(t) = Pending(s) /\ \A b : Taken(t, b) = Taken(s, b)
  BY <1>2, SameCore DEF RowInv
<1>4. ListenersAreOpen(t)
  BY <1>2, <1>3, StaysOpen DEF SameMail
<1> QED BY <1>3, <1>4 DEF RowInv, t

-----------------------------------------------------------------------------
(* Accepting.                                                              *)

\* A row whose branches find it as they left it.
Unmoved(s, t) ==
    /\ t.state = s.state
    /\ t.listeners = s.listeners /\ t.subscriptions = s.subscriptions
    /\ \A b \in Listen : Taken(t, b) = Taken(s, b)

RowOK(s) == RowInv(s) /\ Woken(s)

LEMMA WakeRow ==
    ASSUME NEW s, RowInv(s), NEW w \in Nat
    PROVE  LET t == [s EXCEPT !.wake = w]
           IN  RowInv(t) /\ Unmoved(s, t) /\ SameMail(s, t) /\ t.wake = w
               /\ t.awaits = s.awaits /\ t.addressed = s.addressed
<1> DEFINE t == [s EXCEPT !.wake = w]
<1>1. s \in RowType
  BY DEF RowInv, RowCore
<1>2. /\ t \in RowType /\ SameMail(s, t) /\ t.wake = w /\ t.state = s.state
      /\ t.listeners = s.listeners /\ t.subscriptions = s.subscriptions
      /\ t.awaits = s.awaits /\ t.addressed = s.addressed
  BY <1>1 DEF RowType, SameMail
<1> HIDE DEF t
<1>3. RowCore(t) /\ Pending(t) = Pending(s) /\ \A b : Taken(t, b) = Taken(s, b)
  BY <1>2, SameCore DEF RowInv
<1>4. ListenersAreOpen(t)
  BY <1>2, <1>3, StaysOpen DEF SameMail
<1>5. RowInv(t) /\ Unmoved(s, t)
  BY <1>2, <1>3, <1>4 DEF RowInv, Unmoved
<1> QED BY <1>2, <1>5 DEF t

\* What may be pushed: a CloudEvent, or a notice that is awaited and the only one
\* of its type.
Pushable(s, c) ==
    /\ c \in CopyType /\ c.key = None
    /\ IF c.cloud THEN c.event \in Event /\ c.type = TypeOf[c.event]
       ELSE /\ c.event = None /\ c.type \in {Done, Waits}
            /\ s.pending[c.type].copies = 0 /\ s.awaits[c.type] # None

\* A listener other than the internal one could take it now.
CouldTake(s, c) ==
    \E k \in s.listeners \ {ChildKey} :
        /\ c.type \in KeyTypes(k) \/ (Star \in KeyTypes(k) /\ Published(c))
        /\ ~Expired(c)

LEMMA PushOK ==
    ASSUME NEW s, RowInv(s), NEW c, Pushable(s, c)
    PROVE  /\ RowInv(Push(s, c))
           /\ Unmoved(s, Push(s, c))
           /\ Woken(s) /\ (s.state = "Waiting" /\ CouldTake(s, c) => s.wake <= now)
                 => Woken(Push(s, c))
<1> DEFINE t == Push(s, c)
           N == Len(s.copies) + 1
<1>1. s \in RowType /\ RowCore(s) /\ c \in CopyType /\ c.key = None
  BY DEF RowInv, RowCore, Pushable
<1>2. /\ RowCore(t)
      /\ DOMAIN t.copies = DOMAIN s.copies \cup {N}
      /\ \A n \in DOMAIN s.copies : t.copies[n] = s.copies[n]
      /\ t.copies[N] = c
      /\ N \notin DOMAIN s.copies
      /\ Pending(t) = Pending(s) \cup {N}
  BY <1>1, PushCore DEF Pushable
<1>3. /\ t.state = s.state /\ t.wake = s.wake /\ t.awaits = s.awaits
      /\ t.listeners = s.listeners /\ t.subscriptions = s.subscriptions /\ t.records = s.records
  BY <1>1, PushFields
<1> HIDE DEF t, N
<1>4. \A b : Taken(t, b) = Taken(s, b) /\ Position(t, b) = Position(s, b)
  BY <1>3 DEF Taken, Position
<1>5. \A n \in Pending(s) : n \in DOMAIN s.copies
  BY DEF Pending
<1>6. ListenersAreOpen(t)
  <2>1. ASSUME NEW k \in t.listeners \ {ChildKey}, NEW n \in Pending(t),
               ~t.copies[n].cloud, t.copies[n].type \in KeyTypes(k)
        PROVE  t.awaits[t.copies[n].type] # None
    <3>1. CASE n = N
      BY <3>1, <2>1, <1>2, <1>3 DEF Pushable
    <3>2. CASE n \in Pending(s)
      BY <3>2, <2>1, <1>2, <1>3, <1>5 DEF RowInv, ListenersAreOpen
    <3> QED BY <3>1, <3>2, <1>2
  <2>2. ASSUME NEW k \in t.listeners \ {ChildKey}
        PROVE  /\ k.at \in Listen \cup {"join"}
               /\ k.at \in Listen => /\ k.at \in t.subscriptions
                                    /\ k = Position(t, k.at)
                                    /\ Taken(t, k.at) # Takes[k.at]
    BY <1>3, <1>4 DEF RowInv, ListenersAreOpen
  <2> QED BY <2>1, <2>2 DEF ListenersAreOpen
<1>7. ASSUME Woken(s), s.state = "Waiting" /\ CouldTake(s, c) => s.wake <= now
      PROVE  Woken(t)
  <2> SUFFICES ASSUME t.state = "Waiting", NEW k \in t.listeners \ {ChildKey},
                      NEW n \in Takeable(t, KeyTypes(k)), ~Expired(t.copies[n])
               PROVE  t.wake <= now
    BY DEF Woken
  <2>1. CASE n = N
    <3>1. CouldTake(s, c)
      BY <2>1, <1>2, <1>3 DEF CouldTake, Takeable
    <3> QED BY <3>1, <1>3, <1>7
  <2>2. CASE n # N
    <3>1. n \in Takeable(s, KeyTypes(k)) /\ ~Expired(s.copies[n])
      BY <2>2, <1>2, <1>5 DEF Takeable
    <3> QED BY <3>1, <1>3, <1>7 DEF Woken
  <2> QED BY <2>1, <2>2
<1>8. Unmoved(s, t)
  BY <1>3, <1>4 DEF Unmoved
<1> QED BY <1>2, <1>6, <1>7, <1>8 DEF RowInv, t

LEMMA MinNow ==
    ASSUME NEW w \in Nat, now \in Nat
    PROVE  Min({w, now}) \in Nat /\ Min({w, now}) <= now
<1>1. {w, now} \in SUBSET Nat /\ {w, now} # {}
  OBVIOUS
<1> QED BY <1>1, MinOf

\* accept: nothing a listener could take goes unnoticed.
LEMMA AcceptOK ==
    ASSUME NEW s, RowOK(s), now \in Nat, NEW c \in CopyType, c.key = None, c.cloud,
           c.event \in Event, c.type = TypeOf[c.event]
    PROVE  RowOK(Accept(s, c)) /\ Unmoved(s, Accept(s, c))
<1>1. CASE Held(s, c.event) # {}
  BY <1>1 DEF Accept, Unmoved
<1>2. CASE Held(s, c.event) = {} /\ Wanted(s, c)
  <2> DEFINE w == Min({s.wake, now})
             u == [s EXCEPT !.wake = w]
  <2>1. w \in Nat /\ w <= now
    BY MinNow DEF RowOK, RowInv, RowCore, RowType
  <2>2. RowInv(u) /\ Unmoved(s, u) /\ u.wake = w
    BY <2>1, WakeRow DEF RowOK
  <2>3. Accept(s, c) = Push(u, c)
    BY <1>2 DEF Accept
  <2> HIDE DEF w, u
  <2>4. Pushable(u, c)
    BY DEF Pushable
  <2>5. Woken(u)
    BY <2>1, <2>2 DEF Woken
  <2>6. RowInv(Push(u, c)) /\ Unmoved(u, Push(u, c)) /\ Woken(Push(u, c))
    BY <2>1, <2>2, <2>4, <2>5, PushOK
  <2> QED BY <2>2, <2>3, <2>6 DEF RowOK, Unmoved
<1>3. CASE Held(s, c.event) = {} /\ ~Wanted(s, c)
  <2>1. Accept(s, c) = Push(s, c)
    BY <1>3 DEF Accept
  <2>2. ~CouldTake(s, c)
    <3> SUFFICES ASSUME NEW k \in s.listeners \ {ChildKey},
                        c.type \in KeyTypes(k) \/ (Star \in KeyTypes(k) /\ Published(c)),
                        ~Expired(c)
                 PROVE  FALSE
      BY DEF CouldTake
    <3>1. k.at \in Listen \cup {"join"} /\ (k.at \in Listen => k.at \in s.subscriptions)
      BY DEF RowOK, RowInv, ListenersAreOpen
    <3>2. CASE k.at \in Listen
      <4>1. Subscribed(s, c)
        BY <3>1, <3>2 DEF KeyTypes, Subscribed
      <4> QED BY <4>1, <1>3 DEF Wanted
    <3>3. CASE k.at \notin Listen
      BY <3>3, ProgramAssumption DEF KeyTypes
    <3> QED BY <3>2, <3>3
  <2>3. Pushable(s, c)
    BY DEF Pushable
  <2> QED BY <2>1, <2>2, <2>3, PushOK DEF RowOK
<1> QED BY <1>1, <1>2, <1>3

LEMMA NoticeTypes == {Done, Waits} \subseteq Type /\ Never \in Nat
BY ProgramAssumption DEF Type, Never

\* notify: nor does a notice.
LEMMA NotifyOK ==
    ASSUME NEW s, RowOK(s), now \in Nat, NEW y \in {Done, Waits}
    PROVE  RowOK(Notify(s, y)) /\ Unmoved(s, Notify(s, y))
<1> DEFINE c == [event |-> None, type |-> y, cloud |-> FALSE, delivered |-> FALSE,
                 expires |-> Never, key |-> None]
<1>1. CASE ~Live(s) \/ s.awaits[y] = None \/ s.pending[y].copies > 0
  BY <1>1 DEF Notify, Unmoved
<1>2. CASE ~(~Live(s) \/ s.awaits[y] = None \/ s.pending[y].copies > 0)
  <2>1. c \in CopyType /\ c.key = None /\ ~c.cloud /\ c.event = None /\ c.type = y
    BY NoticeTypes DEF CopyType
  <2>2. s.pending[y].copies = 0
    <3>0. y \in Type
      BY NoticeTypes
    <3>4. s.pending[y] = [copies |-> Cardinality(PendingOf(s, y)), cloud |-> Cardinality(CloudOf(s, y))]
      BY <3>0 DEF RowOK, RowInv, RowCore, Counted
    <3>1. s.pending[y].copies = Cardinality(PendingOf(s, y))
      BY <3>4
    <3>2. PendingOf(s, y) \in SUBSET Pending(s)
      BY DEF PendingOf
    <3>3. Cardinality(PendingOf(s, y)) \in Nat
      BY <3>2, PendingFinite DEF RowOK, RowInv, RowCore
    <3> QED BY <3>1, <3>3, <1>2
  <2>3. Pushable(s, c)
    BY <2>1, <2>2, <1>2 DEF Pushable
  <2>4. CASE Wakes(s, y, FALSE)
    <3> DEFINE u == [s EXCEPT !.wake = now]
    <3>1. RowInv(u) /\ Unmoved(s, u) /\ SameMail(s, u) /\ u.wake = now /\ u.awaits = s.awaits
      BY WakeRow DEF RowOK
    <3>2. Notify(s, y) = Push(u, c)
      BY <1>2, <2>4 DEF Notify
    <3> HIDE DEF u, c
    <3>3. Pushable(u, c)
      BY <2>3, <3>1 DEF Pushable, SameMail
    <3>4. Woken(u)
      BY <3>1 DEF Woken
    <3>5. RowInv(Push(u, c)) /\ Unmoved(u, Push(u, c)) /\ Woken(Push(u, c))
      BY <3>1, <3>3, <3>4, PushOK
    <3> QED BY <3>1, <3>2, <3>5 DEF RowOK, Unmoved
  <2>5. CASE ~Wakes(s, y, FALSE)
    <3>1. Notify(s, y) = Push(s, c)
      BY <1>2, <2>5 DEF Notify
    <3>2. ~CouldTake(s, c)
      BY <2>1, <2>5 DEF CouldTake, Wakes, Published
    <3> HIDE DEF c
    <3> QED BY <3>1, <3>2, <2>3, PushOK DEF RowOK
  <2> QED BY <2>4, <2>5
<1> QED BY <1>1, <1>2

LEMMA CloseOK ==
    ASSUME NEW s, RowOK(s), NEW types
    PROVE  RowOK(Close(s, types)) /\ Unmoved(s, Close(s, types))
<1> DEFINE t == Close(s, types)
<1>1. s \in RowType
  BY DEF RowOK, RowInv, RowCore
<1>2. RowInv(t)
  BY CloseInv DEF RowOK
<1>3. /\ SameMail(s, t) /\ t.state = s.state /\ t.wake = s.wake /\ t.listeners = s.listeners
      /\ t.subscriptions = s.subscriptions
  BY <1>1, CloseFields
<1> HIDE DEF t
<1>4. \A k : Takeable(t, KeyTypes(k)) = Takeable(s, KeyTypes(k))
  BY <1>3 DEF Takeable, SameMail, Pending
<1>5. Woken(t)
  BY <1>3, <1>4 DEF Woken, RowOK, SameMail
<1>6. Unmoved(s, t)
  BY <1>3 DEF Unmoved, SameMail, Taken
<1> QED BY <1>2, <1>5, <1>6 DEF RowOK, t

LEMMA LifecycleOK ==
    ASSUME NEW s, RowOK(s), now \in Nat, NEW y \in {Done, Waits}
    PROVE  RowOK(Lifecycle(s, y)) /\ Unmoved(s, Lifecycle(s, y))
<1>1. CASE y = Waits
  BY <1>1, NotifyOK DEF Lifecycle
<1>2. CASE y # Waits /\ \E n \in DOMAIN s.copies : s.copies[n].type = Done
  BY <1>2 DEF Lifecycle, Unmoved
<1>3. CASE y # Waits /\ ~(\E n \in DOMAIN s.copies : s.copies[n].type = Done)
  <2>1. PICK u : u = Close(s, {Waits})
    OBVIOUS
  <2>2. RowOK(u) /\ Unmoved(s, u)
    BY <2>1, CloseOK
  <2>3. RowOK(Notify(u, Done)) /\ Unmoved(u, Notify(u, Done))
    BY <2>2, NotifyOK
  <2>4. Lifecycle(s, y) = Notify(u, Done)
    BY <1>3, <2>1 DEF Lifecycle
  <2> QED BY <2>2, <2>3, <2>4 DEF Unmoved
<1> QED BY <1>1, <1>2, <1>3

-----------------------------------------------------------------------------
(* Steps of the whole store.                                               *)

\* The invariant of a step in which every row is in order afterwards.
LEMMA RowsStep ==
    ASSUME Inv, now' = now,
           row' = [x \in Run |-> row'[x]], exec' = [x \in Run |-> exec'[x]],
           \A x \in Run : /\ RowOK(row'[x])
                          /\ exec'[x] \in [Branch(x) -> Pc]
                          /\ BranchesAgree(row'[x], exec'[x])
    PROVE  Inv'
<1>1. \A x \in Run : RowInv(row'[x]) /\ Woken(row'[x])
  BY DEF RowOK
<1>2. \A x \in Run : Woken(row[x])'
  BY <1>1 DEF Woken, Takeable, Pending, Expired, KeyTypes, Published, ChildKey
<1> QED BY <1>1, <1>2 DEF Inv

\* A step of one run.
LEMMA OneRow ==
    ASSUME Inv, now' = now, NEW r \in Run, NEW t, NEW a,
           row' = [row EXCEPT ![r] = t], exec' = [exec EXCEPT ![r] = a],
           RowOK(t), a \in [Branch(r) -> Pc], BranchesAgree(t, a)
    PROVE  Inv'
<1>1. row = [x \in Run |-> row[x]] /\ exec = [x \in Run |-> exec[x]]
  BY DEF Inv
<1>2. row' = [x \in Run |-> IF x = r THEN t ELSE row[x]] /\ exec' = [x \in Run |-> IF x = r THEN a ELSE exec[x]]
  BY <1>1
<1>3. \A x \in Run : x # r => /\ RowOK(row[x]) /\ exec[x] \in [Branch(x) -> Pc]
                              /\ BranchesAgree(row[x], exec[x])
  BY DEF Inv, RowOK
<1> QED BY <1>2, <1>3, RowsStep

\* Branches find an unmoved row as they left it.
LEMMA BranchesStay ==
    ASSUME NEW s, NEW t, Unmoved(s, t), NEW a, BranchesAgree(s, a)
    PROVE  BranchesAgree(t, a)
BY DEF Unmoved, BranchesAgree

\* One branch moves.
OthersStay(s, t, b) ==
    \A l \in Listen : l # b =>
        /\ Taken(t, l) = Taken(s, l)
        /\ l \in s.subscriptions => l \in t.subscriptions
        /\ \A k \in t.listeners : k.at = l => k \in s.listeners

OwnAgrees(t, b, pc) ==
    /\ pc \in {"subscribe", "describe", "take", "parked"} => Taken(t, b) # Takes[b]
    /\ pc \in {"describe", "take", "parked"} => b \in t.subscriptions
    /\ pc = "leave" => \A k \in t.listeners : k.at # b

LEMMA BranchMoves ==
    ASSUME NEW s, NEW t, NEW r \in Run, NEW a \in [Branch(r) -> Pc], BranchesAgree(s, a),
           NEW b \in Branch(r), NEW pc \in Pc,
           t.state # "Ended", OthersStay(s, t, b), b \in Listen => OwnAgrees(t, b, pc)
    PROVE  /\ [a EXCEPT ![b] = pc] \in [Branch(r) -> Pc]
           /\ BranchesAgree(t, [a EXCEPT ![b] = pc])
<1>1. Listen \subseteq Branch(r)
  BY DEF Branch
<1>2. [a EXCEPT ![b] = pc] \in [Branch(r) -> Pc]
  OBVIOUS
<1>3. \A l \in Listen : [a EXCEPT ![b] = pc][l] = IF l = b THEN pc ELSE a[l]
  BY <1>1
<1>4. ASSUME NEW l \in Listen
      PROVE  /\ [a EXCEPT ![b] = pc][l] \in {"subscribe", "describe", "take", "parked"} => Taken(t, l) # Takes[l]
             /\ [a EXCEPT ![b] = pc][l] \in {"describe", "take", "parked"} => l \in t.subscriptions
             /\ [a EXCEPT ![b] = pc][l] = "leave" => \A k \in t.listeners : k.at # l
  <2>1. CASE l = b
    BY <2>1, <1>3 DEF OwnAgrees
  <2>2. CASE l # b
    <3>1. [a EXCEPT ![b] = pc][l] = a[l]
      BY <2>2, <1>3
    <3>2. /\ a[l] \in {"subscribe", "describe", "take", "parked"} => Taken(s, l) # Takes[l]
          /\ a[l] \in {"describe", "take", "parked"} => l \in s.subscriptions
          /\ a[l] = "leave" => \A k \in s.listeners : k.at # l
      BY DEF BranchesAgree
    <3> QED BY <2>2, <3>1, <3>2 DEF OthersStay
  <2> QED BY <2>1, <2>2
<1> QED BY <1>2, <1>4 DEF BranchesAgree

\* A step that changes neither the mail nor which copies a listener could take.
LEMMA PlainOK ==
    ASSUME NEW s, RowOK(s), NEW t \in RowType, SameMail(s, t),
           t.listeners \subseteq s.listeners \cup {ChildKey},
           \A l \in s.subscriptions : (\E k \in t.listeners : k.at = l) => l \in t.subscriptions,
           \A k \in t.listeners, y \in Type :
              y \in KeyTypes(k) /\ s.awaits[y] # None => t.awaits[y] # None,
           t.state # "Waiting" \/ (t.state = s.state /\ t.wake = s.wake)
    PROVE  RowOK(t) /\ \A b : Taken(t, b) = Taken(s, b)
<1>1. RowCore(t) /\ Pending(t) = Pending(s) /\ \A b : Taken(t, b) = Taken(s, b)
  BY SameCore DEF RowOK, RowInv
<1>2. ListenersAreOpen(t)
  BY <1>1, StaysOpen DEF SameMail, RowOK
<1>3. Woken(t)
  <2>1. \A k : Takeable(t, KeyTypes(k)) = Takeable(s, KeyTypes(k))
    BY DEF Takeable, SameMail, Pending
  <2> QED BY <2>1 DEF Woken, RowOK, SameMail
<1> QED BY <1>1, <1>2, <1>3 DEF RowOK, RowInv

-----------------------------------------------------------------------------
(* The owner's steps.                                                      *)

LEMMA OfInv ==
    ASSUME Inv, NEW r \in Run
    PROVE  /\ now \in Nat
           /\ RowOK(row[r]) /\ RowInv(row[r]) /\ RowCore(row[r]) /\ row[r] \in RowType
           /\ exec[r] \in [Branch(r) -> Pc]
           /\ BranchesAgree(row[r], exec[r])
           /\ row = [x \in Run |-> row[x]] /\ exec = [x \in Run |-> exec[x]]
BY DEF Inv, RowOK, RowInv, RowCore

LEMMA StepOK ==
    ASSUME Inv, NEW r \in Run, NEW b \in Branch(r), NEW t, NEW pc \in Pc,
           row' = [row EXCEPT ![r] = t], exec' = [exec EXCEPT ![r][b] = pc], now' = now,
           RowOK(t), t.state # "Ended", OthersStay(row[r], t, b), b \in Listen => OwnAgrees(t, b, pc)
    PROVE  Inv'
<1>1. exec[r] \in [Branch(r) -> Pc] /\ BranchesAgree(row[r], exec[r]) /\ exec = [x \in Run |-> exec[x]]
  BY OfInv
<1> DEFINE a == [exec[r] EXCEPT ![b] = pc]
<1>2. a \in [Branch(r) -> Pc] /\ BranchesAgree(t, a)
  BY <1>1, BranchMoves
<1>3. exec' = [exec EXCEPT ![r] = a]
  BY <1>1
<1> HIDE DEF a
<1> QED BY <1>2, <1>3, OneRow

\* A step of branch b that leaves the mail alone.
PlainChange(s, t, b) ==
    /\ t \in RowType /\ SameMail(s, t)
    /\ t.state = s.state
    /\ t.listeners \subseteq s.listeners \cup {ChildKey}
    /\ \A l \in s.subscriptions :
          l # b \/ (\E k \in t.listeners : k.at = l) => l \in t.subscriptions
    /\ \A k \in t.listeners, y \in Type :
          y \in KeyTypes(k) /\ s.awaits[y] # None => t.awaits[y] # None

LEMMA PlainStep ==
    ASSUME Inv, NEW r \in Run, NEW b \in Branch(r), NEW pcs, NEW t, NEW pc \in Pc,
           Step(r, b, pcs, t, pc), PlainChange(row[r], t, b), b \in Listen => OwnAgrees(t, b, pc)
    PROVE  Inv'
<1> USE DEF PlainChange
<1>1. RowOK(row[r])
  BY OfInv
<1>2. t.state = "Running"
  BY DEF Step
<1>3. RowOK(t) /\ \A x : Taken(t, x) = Taken(row[r], x)
  BY <1>1, <1>2, PlainOK
<1>4. OthersStay(row[r], t, b)
  <2>1. ChildKey.at \notin Listen
    BY ProgramAssumption DEF ChildKey
  <2> QED BY <1>3, <2>1 DEF OthersStay
<1>5. row' = [row EXCEPT ![r] = t] /\ exec' = [exec EXCEPT ![r][b] = pc] /\ now' = now
  BY DEF Step
<1> QED BY <1>2, <1>3, <1>4, <1>5, StepOK

LEMMA ListenBranch ==
    ASSUME NEW r \in Run, NEW l \in Listen
    PROVE  l \in Branch(r)
BY DEF Branch

LEMMA TakenNat ==
    ASSUME NEW s, RowCore(s), NEW b
    PROVE  Taken(s, b) \in Nat
<1>1. IsFiniteSet(s.records)
  BY DEF RowCore, RecordsAreSound
<1>2. {x \in s.records : x.key.at = b} \subseteq s.records
  OBVIOUS
<1> QED BY <1>1, <1>2, FS_Subset, FS_CardinalityType DEF Taken

LEMMA TypedTypes == \A l \in Listen : Typed(l) \subseteq Type
<1> SUFFICES ASSUME NEW l \in Listen, NEW y \in Typed(l) PROVE y \in Type
  OBVIOUS
<1>1. y \in (UNION {Routes[m] : m \in Listen}) \ {Star}
  BY DEF Typed
<1> QED BY <1>1 DEF Type

LEMMA RegisteringFields ==
    ASSUME NEW s \in RowType, NEW types \in SUBSET Type, now \in Nat
    PROVE  LET t == Registering(s, types)
           IN  /\ t \in RowType /\ SameMail(s, t)
               /\ t.state = s.state /\ t.wake = s.wake /\ t.listeners = s.listeners
               /\ t.subscriptions = s.subscriptions
               /\ \A y \in Type : s.awaits[y] # None => t.awaits[y] # None
<1> DEFINE a == [y \in Type |-> IF y \in types /\ s.awaits[y] = None THEN now ELSE s.awaits[y]]
           d == s.addressed \cup types
<1>1. Registering(s, types) = [s EXCEPT !.addressed = d, !.awaits = a]
  BY DEF Registering, RowType
<1>2. a \in [Type -> Nat \cup {None}] /\ d \in SUBSET Type
  BY DEF RowType
<1>3. \A y \in Type : s.awaits[y] # None => a[y] # None
  OBVIOUS
<1> HIDE DEF a, d
<1> QED BY <1>1, <1>2, <1>3 DEF RowType, SameMail

LEMMA RegisterInv ==
    ASSUME Inv, NEW r \in Run, NEW l \in Listen, Register(r, l)
    PROVE  Inv'
<1> DEFINE s == row[r]
           t == Registering(s, Typed(l))
<1>1. s \in RowType /\ now \in Nat /\ RowCore(s)
  BY OfInv
<1>2. /\ t \in RowType /\ SameMail(s, t) /\ t.state = s.state /\ t.listeners = s.listeners
      /\ t.subscriptions = s.subscriptions
      /\ \A y \in Type : s.awaits[y] # None => t.awaits[y] # None
  BY <1>1, TypedTypes, RegisteringFields
<1>3. /\ row[r].state = "Running" /\ exec[r][l] \in {"start"}
      /\ row' = [row EXCEPT ![r] = t] /\ exec' = [exec EXCEPT ![r][l] = "subscribe"] /\ now' = now
      /\ Taken(s, l) < Takes[l]
  BY DEF Register, Step
<1> HIDE DEF t
<1>4. Taken(t, l) = Taken(s, l)
  BY <1>2 DEF SameMail, Taken
<1>5. OwnAgrees(t, l, "subscribe")
  BY <1>1, <1>3, <1>4, TakenNat, ProgramAssumption DEF OwnAgrees
<1>20. PlainChange(s, t, l)
  BY <1>2 DEF PlainChange
<1>21. l \in Branch(r)
  BY ListenBranch
<1>22. Step(r, l, {"start"}, t, "subscribe")
  BY DEF Register, t
<1> QED BY <1>20, <1>21, <1>22, <1>5, PlainStep DEF Pc

LEMMA SubscribeInv ==
    ASSUME Inv, NEW r \in Run, NEW l \in Listen, Subscribe(r, l)
    PROVE  Inv'
<1> DEFINE s == row[r]
           t == [s EXCEPT !.subscriptions = @ \cup {l}]
<1>1. s \in RowType /\ BranchesAgree(s, exec[r])
  BY OfInv
<1>2. /\ t \in RowType /\ SameMail(s, t) /\ t.state = s.state /\ t.listeners = s.listeners
      /\ t.subscriptions = s.subscriptions \cup {l} /\ t.awaits = s.awaits
  BY <1>1 DEF RowType, SameMail
<1>3. /\ row[r].state = "Running" /\ exec[r][l] \in {"subscribe"}
      /\ row' = [row EXCEPT ![r] = t] /\ exec' = [exec EXCEPT ![r][l] = "describe"] /\ now' = now
  BY DEF Subscribe, Step
<1> HIDE DEF t
<1>4. Taken(t, l) = Taken(s, l) /\ Taken(s, l) # Takes[l]
  BY <1>1, <1>2, <1>3 DEF SameMail, Taken, BranchesAgree
<1>5. OwnAgrees(t, l, "describe")
  BY <1>2, <1>4 DEF OwnAgrees
<1>20. PlainChange(s, t, l)
  BY <1>2 DEF PlainChange
<1>21. l \in Branch(r)
  BY ListenBranch
<1>22. Step(r, l, {"subscribe"}, t, "describe")
  BY DEF Subscribe, t
<1> QED BY <1>20, <1>21, <1>2, <1>3, <1>5, <1>22, PlainStep DEF Pc

LEMMA DescribeInv ==
    ASSUME Inv, NEW r \in Run, NEW l \in Listen, Describe(r, l)
    PROVE  Inv'
<1> DEFINE s == row[r]
           w == {x \in s.waits : x.at # l} \cup {Position(s, l)}
           t == [s EXCEPT !.waits = w]
<1>1. s \in RowType /\ BranchesAgree(s, exec[r]) /\ RowCore(s)
  BY OfInv
<1>2. w \in SUBSET Place
  <2>1. Taken(s, l) \in Nat
    BY <1>1, TakenNat
  <2>2. Position(s, l) \in Place
    BY <2>1 DEF Position, Place
  <2> QED BY <1>1, <2>2 DEF RowType
<1>3. /\ row[r].state = "Running" /\ exec[r][l] \in {"describe"}
      /\ row' = [row EXCEPT ![r] = t] /\ exec' = [exec EXCEPT ![r][l] = "take"] /\ now' = now
  BY DEF Describe, Step
<1> HIDE DEF w
<1>4. /\ t \in RowType /\ SameMail(s, t) /\ t.state = s.state /\ t.listeners = s.listeners
      /\ t.subscriptions = s.subscriptions /\ t.awaits = s.awaits
  BY <1>1, <1>2 DEF RowType, SameMail
<1> HIDE DEF t
<1>5. Taken(t, l) = Taken(s, l) /\ Taken(s, l) # Takes[l] /\ l \in s.subscriptions
  BY <1>1, <1>4, <1>3 DEF SameMail, Taken, BranchesAgree
<1>6. OwnAgrees(t, l, "take")
  BY <1>4, <1>5 DEF OwnAgrees
<1>20. PlainChange(s, t, l)
  BY <1>4 DEF PlainChange
<1>21. l \in Branch(r)
  BY ListenBranch
<1>22. Step(r, l, {"describe"}, t, "take")
  BY DEF Describe, t, w
<1> QED BY <1>20, <1>21, <1>4, <1>3, <1>6, <1>22, PlainStep DEF Pc

LEMMA UnregisterInv ==
    ASSUME Inv, NEW r \in Run, NEW l \in Listen, Unregister(r, l)
    PROVE  Inv'
<1> DEFINE s == row[r]
           u == [s EXCEPT !.listeners = @ \ {Position(s, l)}]
           t == Close(u, Typed(l))
<1>1. s \in RowType /\ RowInv(s)
  BY OfInv
<1>2. /\ u \in RowType /\ SameMail(s, u) /\ u.state = s.state /\ u.awaits = s.awaits
      /\ u.listeners = s.listeners \ {Position(s, l)} /\ u.subscriptions = s.subscriptions
  BY <1>1 DEF RowType, SameMail
<1>3. /\ t \in RowType /\ SameMail(u, t) /\ t.state = u.state /\ t.listeners = u.listeners
      /\ t.subscriptions = u.subscriptions
      /\ \A y \in Type : (\E k \in u.listeners : y \in KeyTypes(k)) => t.awaits[y] = u.awaits[y]
  BY <1>2, CloseFields
<1>4. /\ row[r].state = "Running" /\ exec[r][l] \in {"take"}
      /\ row' = [row EXCEPT ![r] = t] /\ exec' = [exec EXCEPT ![r][l] = "leave"] /\ now' = now
  BY DEF Unregister, Step
<1> HIDE DEF u, t
<1>5. \A k \in t.listeners : k.at # l
  <2> SUFFICES ASSUME NEW k \in t.listeners, k.at = l PROVE FALSE
    OBVIOUS
  <2>1. k # ChildKey
    BY ProgramAssumption DEF ChildKey
  <2>2. k = Position(s, l)
    BY <1>1, <1>2, <1>3, <2>1 DEF RowInv, ListenersAreOpen
  <2> QED BY <2>2, <1>2, <1>3
<1>6. OwnAgrees(t, l, "leave")
  BY <1>5 DEF OwnAgrees
<1>7. SameMail(s, t)
  BY <1>2, <1>3 DEF SameMail
<1>20. PlainChange(s, t, l)
  BY <1>2, <1>3, <1>7 DEF PlainChange
<1>21. l \in Branch(r)
  BY ListenBranch
<1>22. Step(r, l, {"take"}, t, "leave")
  BY DEF Unregister, t, u
<1> QED BY <1>20, <1>21, <1>2, <1>3, <1>4, <1>6, <1>7, <1>22, PlainStep DEF Pc

LEMMA UnsubscribeInv ==
    ASSUME Inv, NEW r \in Run, NEW l \in Listen, Unsubscribe(r, l)
    PROVE  Inv'
<1> DEFINE s == row[r]
           t == [s EXCEPT !.subscriptions = @ \ {l}, !.waits = {w \in @ : w.at # l}]
<1>1. s \in RowType /\ RowInv(s) /\ BranchesAgree(s, exec[r])
  BY OfInv
<1>2. /\ t \in RowType /\ SameMail(s, t) /\ t.state = s.state /\ t.listeners = s.listeners
      /\ t.subscriptions = s.subscriptions \ {l} /\ t.awaits = s.awaits
  BY <1>1 DEF RowType, SameMail
<1>3. /\ row[r].state = "Running" /\ exec[r][l] \in {"start", "leave"}
      /\ row' = [row EXCEPT ![r] = t] /\ exec' = [exec EXCEPT ![r][l] = "save"] /\ now' = now
      /\ (exec[r][l] = "start" => Taken(s, l) = Takes[l])
  BY DEF Unsubscribe, Step
<1> HIDE DEF t
<1>4. \A k \in s.listeners : k.at # l
  <2>1. CASE exec[r][l] = "leave"
    BY <2>1, <1>1 DEF BranchesAgree
  <2>2. CASE exec[r][l] = "start"
    <3> SUFFICES ASSUME NEW k \in s.listeners, k.at = l PROVE FALSE
      OBVIOUS
    <3>1. k # ChildKey
      BY ProgramAssumption DEF ChildKey
    <3> QED BY <3>1, <2>2, <1>1, <1>3 DEF RowInv, ListenersAreOpen
  <2> QED BY <2>1, <2>2, <1>3
<1>5. OwnAgrees(t, l, "save")
  BY DEF OwnAgrees
<1>20. PlainChange(s, t, l)
  BY <1>2, <1>4 DEF PlainChange
<1>21. l \in Branch(r)
  BY ListenBranch
<1>22. Step(r, l, {"start", "leave"}, t, "save")
  BY DEF Unsubscribe, t
<1> QED BY <1>20, <1>21, <1>2, <1>3, <1>4, <1>5, <1>22, PlainStep DEF Pc

LEMMA SaveInv ==
    ASSUME Inv, NEW r \in Run, NEW b \in Branch(r), Save(r, b)
    PROVE  Inv'
<1> DEFINE s == row[r]
           t == [s EXCEPT !.over = @ \cup {b}]
<1>1. s \in RowType
  BY OfInv
<1>2. b \in Listen \cup {"join"}
  BY DEF Branch
<1>3. /\ t \in RowType /\ SameMail(s, t) /\ t.state = s.state /\ t.listeners = s.listeners
      /\ t.subscriptions = s.subscriptions /\ t.awaits = s.awaits
  BY <1>1, <1>2 DEF RowType, SameMail
<1>4. /\ row[r].state = "Running" /\ exec[r][b] \in {"start", "save"}
      /\ row' = [row EXCEPT ![r] = t] /\ exec' = [exec EXCEPT ![r][b] = "over"] /\ now' = now
  BY DEF Save, Step
<1> HIDE DEF t
<1>5. OwnAgrees(t, b, "over")
  BY DEF OwnAgrees
<1>20. PlainChange(s, t, b)
  BY <1>3 DEF PlainChange
<1>22. Step(r, b, {"start", "save"}, t, "over")
  BY DEF Save, t
<1> QED BY <1>20, <1>4, <1>5, <1>22, PlainStep DEF Pc

LEMMA StepIs ==
    ASSUME NEW r, NEW b, NEW pcs, NEW t, NEW pc, Step(r, b, pcs, t, pc)
    PROVE  /\ row[r].state = "Running" /\ exec[r][b] \in pcs
           /\ row' = [row EXCEPT ![r] = t] /\ exec' = [exec EXCEPT ![r][b] = pc] /\ now' = now
BY DEF Step

\* The position at which a branch takes its next event.
KeyOf(s, b) == IF b \in Listen THEN Position(s, b) ELSE JoinKey

LEMMA KeyOfBranch ==
    ASSUME NEW s, RowCore(s), NEW r, NEW b \in Branch(r)
    PROVE  KeyOf(s, b) \in Place /\ KeyOf(s, b).at = b /\ b \in Listen \cup {"join"}
<1>1. b \in Listen \cup {"join"}
  BY DEF Branch
<1>2. Taken(s, b) \in Nat
  BY TakenNat
<1> QED BY <1>1, <1>2 DEF KeyOf, Position, JoinKey, Place

\* take_event with nothing to take parks the branch with its listener.
LEMMA ParkInv ==
    ASSUME Inv, NEW r \in Run, NEW b \in Branch(r), NEW u, NEW k, NEW pcs,
           u = Expire(row[r]), k = KeyOf(row[r], b),
           Takeable(u, KeyTypes(k)) = {}, pcs \subseteq {"take", "parked"},
           Step(r, b, pcs, [u EXCEPT !.listeners = @ \cup {k}], "parked")
    PROVE  Inv'
<1> DEFINE s == row[r]
           t == [u EXCEPT !.listeners = @ \cup {k}]
<1>1. RowInv(s) /\ RowCore(s) /\ now \in Nat /\ BranchesAgree(s, exec[r])
  BY OfInv
<1>2. /\ RowInv(u) /\ Frame(s, u) /\ u \in RowType /\ RowCore(u)
      /\ \A x \in Listen \cup {"join"} : Taken(u, x) = Taken(s, x)
  BY <1>1, ExpireInv DEF RowInv, RowCore
<1>3. k \in Place /\ k.at = b /\ b \in Listen \cup {"join"}
  BY <1>1, KeyOfBranch
<1>4. /\ t \in RowType /\ SameMail(u, t) /\ t.state = u.state /\ t.listeners = u.listeners \cup {k}
      /\ t.subscriptions = u.subscriptions /\ t.awaits = u.awaits
  BY <1>2, <1>3 DEF RowType, SameMail
<1>5. s.state = "Running" /\ exec[r][b] \in pcs
      /\ row' = [row EXCEPT ![r] = t] /\ exec' = [exec EXCEPT ![r][b] = "parked"] /\ now' = now
  BY StepIs
<1> HIDE DEF t
<1>6. RowCore(t) /\ Pending(t) = Pending(u) /\ \A x : Taken(t, x) = Taken(u, x)
  BY <1>2, <1>4, SameCore
<1>7. b \in Listen => Taken(s, b) # Takes[b] /\ b \in s.subscriptions
  BY <1>1, <1>5 DEF BranchesAgree
<1>8. ListenersAreOpen(t)
  <2> SUFFICES ASSUME NEW j \in t.listeners \ {ChildKey}
               PROVE  /\ j.at \in Listen \cup {"join"}
                      /\ j.at \in Listen => /\ j.at \in t.subscriptions
                                           /\ j = Position(t, j.at)
                                           /\ Taken(t, j.at) # Takes[j.at]
                      /\ \A n \in Pending(t) :
                            ~t.copies[n].cloud /\ t.copies[n].type \in KeyTypes(j)
                              => t.awaits[t.copies[n].type] # None
    BY DEF ListenersAreOpen
  <2>1. CASE j = k
    <3>1. \A n \in Pending(t) : t.copies[n].type \notin KeyTypes(k)
      BY <1>4, <1>6 DEF SameMail, Takeable
    <3>2. b \in Listen => k = Position(t, b)
      BY <1>2, <1>3, <1>6 DEF KeyOf, Position
    <3> QED BY <2>1, <3>1, <3>2, <1>2, <1>3, <1>4, <1>6, <1>7 DEF Frame
  <2>2. CASE j \in u.listeners
    <3>1. /\ j.at \in Listen \cup {"join"}
          /\ j.at \in Listen => /\ j.at \in u.subscriptions
                               /\ j = Position(u, j.at)
                               /\ Taken(u, j.at) # Takes[j.at]
          /\ \A n \in Pending(u) :
                ~u.copies[n].cloud /\ u.copies[n].type \in KeyTypes(j)
                  => u.awaits[u.copies[n].type] # None
      BY <2>2, <1>2 DEF RowInv, ListenersAreOpen
    <3> QED BY <3>1, <1>4, <1>6 DEF Position, SameMail
  <2> QED BY <2>1, <2>2, <1>4
<1>9. RowOK(t)
  BY <1>2, <1>4, <1>5, <1>6, <1>8 DEF RowOK, RowInv, Woken, Frame
<1>10. OthersStay(s, t, b)
  BY <1>2, <1>3, <1>4, <1>6 DEF OthersStay, Frame
<1>11. b \in Listen => OwnAgrees(t, b, "parked")
  BY <1>2, <1>4, <1>6, <1>7 DEF OwnAgrees, Frame
<1>12. t.state # "Ended"
  BY <1>2, <1>4, <1>5 DEF Frame
<1> QED BY <1>5, <1>9, <1>10, <1>11, <1>12, StepOK DEF Pc

\* One more record at b: its position moves on.
LEMMA TakenMore ==
    ASSUME NEW s, RowCore(s), NEW n \in Pending(s), NEW k \in Place, NEW t,
           NEW keys, keys = [m \in {n} |-> k], Consumed(s, keys, t)
    PROVE  /\ Taken(t, k.at) = Taken(s, k.at) + 1
           /\ \A b : b # k.at => Taken(t, b) = Taken(s, b)
<1> DEFINE x == [key |-> k, n |-> n]
           A == {y \in s.records : y.key.at = k.at}
<1>1. t.records = s.records \cup {x}
  BY DEF Consumed
<1>2. x \notin s.records
  BY DEF RowCore, RecordsAreSound, Pending
<1>3. x.key.at = k.at /\ x \notin A
  BY <1>2
<1> HIDE DEF x
<1>4. {y \in t.records : y.key.at = k.at} = A \cup {x}
  BY <1>1, <1>3
<1>5. IsFiniteSet(A)
  <2>1. IsFiniteSet(s.records) /\ A \subseteq s.records
    BY DEF RowCore, RecordsAreSound
  <2> HIDE DEF A
  <2> QED BY <2>1, FS_Subset
<1>6. Taken(t, k.at) = Taken(s, k.at) + 1
  <2> HIDE DEF A
  <2>1. Cardinality(A \cup {x}) = Cardinality(A) + 1
    BY <1>3, <1>5, FS_AddElement
  <2> QED BY <2>1, <1>4 DEF Taken, A
<1>7. ASSUME NEW b, b # k.at PROVE Taken(t, b) = Taken(s, b)
  <2>1. {y \in t.records : y.key.at = b} = {y \in s.records : y.key.at = b}
    BY <1>1, <1>3, <1>7
  <2> QED BY <2>1 DEF Taken
<1> QED BY <1>6, <1>7

\* take_event with something to take consumes it and closes the wait.
LEMMA TakeFirstInv ==
    ASSUME Inv, NEW r \in Run, NEW b \in Branch(r), NEW u, NEW k, NEW pcs, NEW pc \in Pc,
           u = Expire(row[r]), k = KeyOf(row[r], b),
           Takeable(u, KeyTypes(k)) # {}, pcs \subseteq {"take", "parked"},
           b \in Listen => pc = IF Taken(row[r], b) + 1 = Takes[b] THEN "leave" ELSE "describe",
           Step(r, b, pcs, TakeFirst(u, k, KeyTypes(k)), pc)
    PROVE  Inv'
<1> DEFINE s == row[r]
<1>1. RowInv(s) /\ RowCore(s) /\ now \in Nat /\ BranchesAgree(s, exec[r])
  BY OfInv
<1>2. /\ RowInv(u) /\ Frame(s, u) /\ u \in RowType /\ RowCore(u)
      /\ \A x \in Listen \cup {"join"} : Taken(u, x) = Taken(s, x)
  BY <1>1, ExpireInv DEF RowInv, RowCore
<1>3. k \in Place /\ k.at = b /\ b \in Listen \cup {"join"}
  BY <1>1, KeyOfBranch
<1>4. PICK n : n = Min(Takeable(u, KeyTypes(k)))
  OBVIOUS
<1>5. n \in Pending(u)
  <2>1. Takeable(u, KeyTypes(k)) \subseteq Pending(u) /\ Pending(u) \subseteq DOMAIN u.copies
    BY DEF Takeable, Pending
  <2>2. DOMAIN u.copies \subseteq Nat
    BY <1>2, PendingFinite
  <2>3. n \in Takeable(u, KeyTypes(k))
    BY <1>4, <2>1, <2>2, MinOf
  <2> QED BY <2>1, <2>3
<1>26. PICK keys : keys = [m \in {n} |-> k]
  OBVIOUS
<1>6. KeysFor(u, keys)
  BY <1>3, <1>5, <1>26 DEF KeysFor
<1>7. PICK c : c = Consume(u, keys)
  OBVIOUS
<1>8. /\ Consumed(u, keys, c) /\ RowCore(c) /\ Pending(c) = Pending(u) \ DOMAIN keys
      /\ \A m \in Pending(c) : c.copies[m] = u.copies[m]
  BY <1>2, <1>6, <1>7, ConsumeFields, ConsumeCore
<1>9. /\ Taken(c, b) = Taken(u, b) + 1
      /\ \A x : x # b => Taken(c, x) = Taken(u, x)
  <2>1. /\ Taken(c, k.at) = Taken(u, k.at) + 1
        /\ \A x : x # k.at => Taken(c, x) = Taken(u, x)
    BY <1>2, <1>3, <1>5, <1>8, <1>26, TakenMore
  <2> QED BY <2>1, <1>3
<1>10. PICK gone : gone = {k} \cup (IF u.copies[n].type = Done THEN {ChildKey} ELSE {})
  OBVIOUS
<1>11. PICK v : v = [c EXCEPT !.listeners = @ \ gone, !.waits = @ \ {k}]
  OBVIOUS
<1>12. /\ v \in RowType /\ SameMail(c, v) /\ v.state = c.state /\ v.listeners = c.listeners \ gone
       /\ v.subscriptions = c.subscriptions /\ v.awaits = c.awaits
  BY <1>8, <1>11 DEF RowType, SameMail, RowCore
<1>13. PICK t : t = Close(v, KeyTypes(k))
  OBVIOUS
<1>14. /\ t \in RowType /\ SameMail(v, t) /\ t.state = v.state /\ t.listeners = v.listeners
       /\ t.subscriptions = v.subscriptions
       /\ \A y \in Type : (\E j \in v.listeners : y \in KeyTypes(j)) => t.awaits[y] = v.awaits[y]
  BY <1>12, <1>13, CloseFields
<1>15. TakeFirst(u, k, KeyTypes(k)) = t
  BY <1>4, <1>7, <1>10, <1>11, <1>13, <1>26 DEF TakeFirst
<1>16. s.state = "Running" /\ exec[r][b] \in pcs
       /\ row' = [row EXCEPT ![r] = t] /\ exec' = [exec EXCEPT ![r][b] = pc] /\ now' = now
  BY <1>15, StepIs
<1>17. SameMail(c, t)
  BY <1>12, <1>14 DEF SameMail
<1>18. RowCore(t) /\ Pending(t) = Pending(c) /\ \A x : Taken(t, x) = Taken(c, x)
  BY <1>8, <1>14, <1>17, SameCore
<1>19. c.listeners = u.listeners /\ c.subscriptions = u.subscriptions /\ c.awaits = u.awaits /\ c.state = u.state
  BY <1>8 DEF Consumed
<1>20. \A j \in t.listeners : b \in Listen => j.at # b
  <2> SUFFICES ASSUME NEW j \in t.listeners, b \in Listen, j.at = b PROVE FALSE
    OBVIOUS
  <2>1. j # ChildKey
    BY ProgramAssumption DEF ChildKey
  <2>2. j = Position(u, b)
    BY <1>2, <1>12, <1>14, <1>19, <2>1 DEF RowInv, ListenersAreOpen
  <2>3. j = k
    BY <2>2, <1>2, <1>3 DEF KeyOf, Position
  <2> QED BY <2>3, <1>10, <1>12, <1>14
<1>21. ListenersAreOpen(t)
  <2>1. t.listeners \subseteq u.listeners
    BY <1>12, <1>14, <1>19
  <2>2. \A l \in Listen : (\E j \in t.listeners : j.at = l)
              => Taken(t, l) = Taken(u, l) /\ (l \in u.subscriptions => l \in t.subscriptions)
    BY <1>9, <1>12, <1>14, <1>18, <1>19, <1>20
  <2>3. Pending(t) \subseteq Pending(u) /\ \A m \in Pending(t) : t.copies[m] = u.copies[m]
    BY <1>8, <1>17, <1>18 DEF SameMail
  <2>4. \A j \in t.listeners, y \in Type :
              y \in KeyTypes(j) /\ u.awaits[y] # None => t.awaits[y] # None
    BY <1>12, <1>14, <1>19
  <2> QED BY <2>1, <2>2, <2>3, <2>4, <1>2, <1>18, StaysOpen
<1>22. t.state = "Running"
  BY <1>2, <1>12, <1>14, <1>16, <1>19 DEF Frame
<1>23. RowOK(t)
  BY <1>18, <1>21, <1>22 DEF RowOK, RowInv, Woken
<1>24. OthersStay(s, t, b)
  BY <1>2, <1>9, <1>12, <1>14, <1>18, <1>19 DEF OthersStay, Frame
<1>25. b \in Listen => OwnAgrees(t, b, pc)
  <2> SUFFICES ASSUME b \in Listen PROVE OwnAgrees(t, b, pc)
    OBVIOUS
  <2>1. b \in s.subscriptions
    BY <1>1, <1>16 DEF BranchesAgree
  <2>2. b \in t.subscriptions /\ Taken(t, b) = Taken(s, b) + 1
    BY <2>1, <1>2, <1>9, <1>12, <1>14, <1>18, <1>19 DEF Frame
  <2> QED BY <2>2, <1>20 DEF OwnAgrees
<1> QED BY <1>16, <1>22, <1>23, <1>24, <1>25, StepOK

LEMMA TakeInv ==
    ASSUME Inv, NEW r \in Run, NEW b \in Branch(r), Take(r, b)
    PROVE  Inv'
<1>1. PICK u : u = Expire(row[r])
  OBVIOUS
<1>2. PICK k : k = KeyOf(row[r], b)
  OBVIOUS
<1>3. PICK pcs : pcs = IF b \in Listen THEN {"take", "parked"} ELSE {"take"}
  OBVIOUS
<1>4. pcs \subseteq {"take", "parked"}
  BY <1>3
<1>5. PICK pc : pc = CASE b \notin Listen -> "save" [] Taken(row[r], b) + 1 = Needed(b) -> "leave"
                       [] OTHER -> "describe"
  OBVIOUS
<1>6. IF Takeable(u, KeyTypes(k)) = {}
      THEN Step(r, b, pcs, [u EXCEPT !.listeners = @ \cup {k}], "parked")
      ELSE Step(r, b, pcs, TakeFirst(u, k, KeyTypes(k)), pc)
  BY <1>1, <1>2, <1>3, <1>5 DEF Take, KeyOf
<1>7. pc \in Pc /\ (b \in Listen => pc = IF Taken(row[r], b) + 1 = Takes[b] THEN "leave" ELSE "describe")
  BY <1>5 DEF Pc, Needed
<1>8. CASE Takeable(u, KeyTypes(k)) = {}
  BY <1>1, <1>2, <1>4, <1>6, <1>8, ParkInv
<1>9. CASE Takeable(u, KeyTypes(k)) # {}
  BY <1>1, <1>2, <1>4, <1>6, <1>7, <1>9, TakeFirstInv
<1> QED BY <1>8, <1>9

LEMMA JoinBranch ==
    ASSUME NEW r \in Parent
    PROVE  r \in Run /\ "join" \in Branch(r) /\ "join" \notin Listen
BY ProgramAssumption DEF Branch

LEMMA RegisterJoinInv ==
    ASSUME Inv, NEW r \in Run, RegisterJoin(r)
    PROVE  Inv'
<1> DEFINE s == row[r]
           t == Registering(s, {Done})
<1>1. s \in RowType /\ now \in Nat
  BY OfInv
<1>2. /\ t \in RowType /\ SameMail(s, t) /\ t.state = s.state /\ t.listeners = s.listeners
      /\ t.subscriptions = s.subscriptions
      /\ \A y \in Type : s.awaits[y] # None => t.awaits[y] # None
  BY <1>1, NoticeTypes, RegisteringFields
<1>3. Step(r, "join", {"register"}, t, "take") /\ r \in Parent
  BY DEF RegisterJoin
<1> HIDE DEF t
<1>4. PlainChange(s, t, "join")
  BY <1>2 DEF PlainChange
<1>5. "join" \in Branch(r) /\ "join" \notin Listen
  BY <1>3, JoinBranch
<1> QED BY <1>3, <1>4, <1>5, PlainStep DEF Pc

\* start_child opens the waits for the child's notices; a child started before
\* reports again.
LEMMA StartChildInv ==
    ASSUME Inv, NEW r \in Run, StartChild(r)
    PROVE  Inv'
<1> DEFINE s == row[r]
           a == [y \in Type |-> IF y \in {Done, Waits} /\ s.awaits[y] = None THEN now ELSE s.awaits[y]]
           d == s.listeners \cup {ChildKey}
<1>1. s \in RowType /\ RowOK(s) /\ now \in Nat
  BY OfInv
<1>2. /\ a \in [Type -> Nat \cup {None}] /\ d \in SUBSET Place
      /\ \A y \in Type : s.awaits[y] # None => a[y] # None
  <2>1. s.awaits \in [Type -> Nat \cup {None}] /\ s.listeners \in SUBSET Place
    BY <1>1 DEF RowType
  <2>2. ChildKey \in Place
    BY DEF ChildKey, Place
  <2> QED BY <1>1, <2>1, <2>2
<1>3. PICK w : w = [s EXCEPT !.awaits = a, !.listeners = d]
  OBVIOUS
<1>4. PICK t : t = CASE s.child = "none" -> [w EXCEPT !.child = "running"]
                     [] s.child = "waiting" -> Lifecycle(w, Waits)
                     [] s.child = "ended" -> Lifecycle(w, Done)
                     [] OTHER -> w
  OBVIOUS
<1>5. r \in Parent /\ Step(r, "join", {"start"}, t, "register")
  BY <1>3, <1>4 DEF StartChild
<1>6. s.state = "Running"
  BY <1>5, StepIs
<1> HIDE DEF a, d
<1>7. /\ w \in RowType /\ SameMail(s, w) /\ w.state = s.state /\ w.listeners = d
      /\ w.subscriptions = s.subscriptions /\ w.awaits = a
  BY <1>1, <1>2, <1>3 DEF RowType, SameMail
<1>8. RowOK(w) /\ (\A b : Taken(w, b) = Taken(s, b))
  BY <1>1, <1>2, <1>6, <1>7, PlainOK DEF d
<1>9. PICK v : v = [w EXCEPT !.child = "running"]
  OBVIOUS
<1>10. /\ v \in RowType /\ SameMail(w, v) /\ v.state = w.state /\ v.wake = w.wake
       /\ v.listeners = w.listeners /\ v.subscriptions = w.subscriptions /\ v.awaits = w.awaits
  BY <1>7, <1>9 DEF RowType, SameMail
<1>11. RowOK(v) /\ Unmoved(w, v)
  <2>1. RowOK(v) /\ \A b : Taken(v, b) = Taken(w, b)
    BY <1>8, <1>10, PlainOK
  <2> QED BY <2>1, <1>10 DEF Unmoved
<1>12. RowOK(t) /\ Unmoved(w, t)
  <2>1. s.child \in {"none", "running", "waiting", "ended"}
    BY <1>1 DEF RowType
  <2>2. CASE s.child = "none"
    BY <2>2, <1>4, <1>9, <1>11
  <2>3. CASE s.child = "waiting"
    BY <2>3, <1>1, <1>4, <1>8, LifecycleOK
  <2>4. CASE s.child = "ended"
    BY <2>4, <1>1, <1>4, <1>8, LifecycleOK
  <2>5. CASE s.child = "running"
    BY <2>5, <1>4, <1>8 DEF Unmoved
  <2> QED BY <2>1, <2>2, <2>3, <2>4, <2>5
<1>13. ChildKey.at \notin Listen
  BY ProgramAssumption DEF ChildKey
<1>14. OthersStay(s, t, "join")
  BY <1>7, <1>8, <1>12, <1>13 DEF OthersStay, Unmoved, d
<1>15. t.state # "Ended"
  BY <1>6, <1>7, <1>12 DEF Unmoved
<1>16. "join" \in Branch(r) /\ "join" \notin Listen
  BY <1>5, JoinBranch
<1>17. /\ row' = [row EXCEPT ![r] = t] /\ exec' = [exec EXCEPT ![r]["join"] = "register"] /\ now' = now
  BY <1>5, StepIs
<1> QED BY <1>12, <1>14, <1>15, <1>16, <1>17, StepOK DEF Pc

\* The counters and the registrations show every copy that a listener could take:
\* pending_wanted finds what the next take_event would.
LEMMA WantedIsSeen ==
    ASSUME NEW s, RowInv(s), NEW k \in s.listeners \ {ChildKey},
           NEW n \in Takeable(s, KeyTypes(k)), ~Expired(s.copies[n])
    PROVE  PendingWanted(s)
<1> DEFINE c == s.copies[n]
           live == {s.copies[m] : m \in {i \in Pending(s) : ~Expired(s.copies[i])}}
           cloud(y) == s.pending[y].cloud > 0 /\ \E x \in live : x.type = y /\ x.cloud
<1>1. s \in RowType /\ RowCore(s) /\ n \in Pending(s) /\ c \in CopyType /\ n \in DOMAIN s.copies
  BY CopyIsTyped DEF RowInv, RowCore, Takeable, Pending
<1>2. c \in live /\ c.type \in Type /\ c.cloud \in BOOLEAN
  BY <1>1 DEF CopyType
<1>3. IF c.cloud THEN c.event \in Event /\ c.type = TypeOf[c.event]
      ELSE c.event = None /\ c.type \in {Done, Waits}
  BY <1>1 DEF RowCore, CopiesAreSound
<1>4. c.type \in KeyTypes(k) \/ (Star \in KeyTypes(k) /\ Published(c))
  BY DEF Takeable
<1>5. /\ k.at \in Listen \cup {"join"}
      /\ k.at \in Listen => k.at \in s.subscriptions
      /\ ~c.cloud /\ c.type \in KeyTypes(k) => s.awaits[c.type] # None
  BY <1>1 DEF RowInv, ListenersAreOpen
<1>6. \A S \in SUBSET Pending(s) : IsFiniteSet(S) /\ Cardinality(S) \in Nat
  BY <1>1, PendingFinite
<1>7. \A y \in Type : s.pending[y] = [copies |-> Cardinality(PendingOf(s, y)), cloud |-> Cardinality(CloudOf(s, y))]
  BY <1>1 DEF RowCore, Counted
<1>8. s.published = Cardinality(PublishedOf(s))
  BY <1>1 DEF RowCore, Counted
<1>9. CASE c.cloud
  <2>1. k.at \in Listen /\ KeyTypes(k) = Routes[k.at]
    <3>1. CASE k.at \notin Listen
      <4>1. KeyTypes(k) = {Done}
        BY <3>1 DEF KeyTypes
      <4> QED BY <4>1, <1>3, <1>4, <1>9, ProgramAssumption
    <3>2. CASE k.at \in Listen
      BY <3>2 DEF KeyTypes
    <3> QED BY <3>1, <3>2
  <2>2. CASE c.type \in Routes[k.at]
    <3>1. c.type \in Typed(k.at)
      BY <2>2, <1>3, <1>9, ProgramAssumption DEF Typed
    <3>2. n \in CloudOf(s, c.type) /\ CloudOf(s, c.type) \in SUBSET Pending(s)
      BY <1>1, <1>9 DEF CloudOf, PendingOf
    <3>3. Cardinality(CloudOf(s, c.type)) > 0
      BY <3>2, <1>6, CardLess
    <3>4. cloud(c.type)
      <4>1. s.pending[c.type] = [copies |-> Cardinality(PendingOf(s, c.type)),
                                 cloud |-> Cardinality(CloudOf(s, c.type))]
        BY <1>2, <1>7
      <4>2. s.pending[c.type].cloud > 0
        BY <4>1, <3>3
      <4>3. \E x \in live : x.type = c.type /\ x.cloud
        BY <1>2, <1>9
      <4> QED BY <4>2, <4>3
    <3> HIDE DEF c
    <3> QED BY <3>1, <3>4, <2>1, <1>5 DEF PendingWanted
  <2>3. CASE Star \in Routes[k.at] /\ Published(c)
    <3>1. n \in PublishedOf(s) /\ PublishedOf(s) \in SUBSET Pending(s)
      BY <2>3, <1>1 DEF PublishedOf
    <3>2. Cardinality(PublishedOf(s)) > 0
      BY <3>1, <1>6, CardLess
    <3>3. s.published > 0 /\ \E x \in live : Published(x)
      BY <3>2, <1>8, <1>2, <2>3
    <3> QED BY <3>3, <2>1, <2>3, <1>5 DEF PendingWanted
  <2> QED BY <2>1, <2>2, <2>3, <1>4
<1>10. CASE ~c.cloud
  <2>1. c.type \in KeyTypes(k)
    BY <1>4, <1>10 DEF Published
  <2>2. s.awaits[c.type] # None
    BY <1>5, <1>10, <2>1
  <2>3. Wakes(s, c.type, FALSE)
    BY <2>1 DEF Wakes
  <2>4. n \in PendingOf(s, c.type) \ CloudOf(s, c.type)
    BY <1>1, <1>10 DEF PendingOf, CloudOf
  <2>5. CloudOf(s, c.type) \in SUBSET PendingOf(s, c.type) /\ PendingOf(s, c.type) \in SUBSET Pending(s)
    BY DEF PendingOf, CloudOf
  <2>6. Cardinality(CloudOf(s, c.type)) < Cardinality(PendingOf(s, c.type))
    <3>1. IsFiniteSet(PendingOf(s, c.type))
      BY <2>5, <1>6
    <3>2. CloudOf(s, c.type) # PendingOf(s, c.type)
      BY <2>4
    <3> QED BY <3>1, <3>2, <2>5, CardLess
  <2>7. s.pending[c.type].copies > s.pending[c.type].cloud
    <3>1. /\ Cardinality(CloudOf(s, c.type)) \in Nat /\ Cardinality(PendingOf(s, c.type)) \in Nat
          /\ s.pending[c.type] = [copies |-> Cardinality(PendingOf(s, c.type)),
                                  cloud |-> Cardinality(CloudOf(s, c.type))]
      BY <2>5, <1>6, <1>7, <1>2
    <3> QED BY <3>1, <2>6
  <2> HIDE DEF c
  <2> QED BY <2>2, <2>3, <2>7, <1>2 DEF PendingWanted
<1> QED BY <1>9, <1>10, <1>2

LEMMA EnteredAgrees ==
    ASSUME NEW s, NEW r \in Run, NEW t, t.state # "Ended"
    PROVE  Entered(s, r) \in [Branch(r) -> Pc] /\ BranchesAgree(t, Entered(s, r))
<1>1. Entered(s, r) \in [Branch(r) -> {"over", "start"}]
  BY DEF Entered
<1>2. Listen \subseteq Branch(r)
  BY DEF Branch
<1> QED BY <1>1, <1>2 DEF Pc, BranchesAgree

\* finish(Waiting): with a copy that a listener could take, the run is due at once.
LEMMA FinishWaitingInv ==
    ASSUME Inv, NEW r \in Run, FinishWaiting(r)
    PROVE  Inv'
<1> DEFINE s == row[r]
           D == {Deadline[l] : l \in {b \in Listen : exec[r][b] = "parked"}} \cup {Never}
<1>1. s \in RowType /\ RowOK(s) /\ RowInv(s) /\ RowCore(s) /\ now \in Nat
  BY OfInv
<1>2. PICK w : w = IF PendingWanted(s) THEN now ELSE Min(D)
  OBVIOUS
<1>3. PICK t : t = [s EXCEPT !.state = "Waiting", !.wake = w]
  OBVIOUS
<1>4. row' = [row EXCEPT ![r] = t] /\ exec' = [exec EXCEPT ![r] = Entered(s, r)] /\ now' = now
  BY <1>2, <1>3 DEF FinishWaiting
<1>5. w \in Nat
  <2>1. D \in SUBSET Nat /\ D # {}
    BY NoticeTypes, ProgramAssumption
  <2> HIDE DEF D
  <2>2. Min(D) \in Nat
    BY <2>1, MinOf
  <2> QED BY <2>2, <1>1, <1>2
<1>6. /\ t \in RowType /\ SameMail(s, t) /\ t.state = "Waiting" /\ t.wake = w /\ t.listeners = s.listeners
      /\ t.subscriptions = s.subscriptions /\ t.awaits = s.awaits
  BY <1>1, <1>3, <1>5 DEF RowType, SameMail
<1>7. RowCore(t) /\ Pending(t) = Pending(s) /\ \A b : Taken(t, b) = Taken(s, b)
  BY <1>1, <1>6, SameCore
<1>8. ListenersAreOpen(t)
  BY <1>1, <1>6, <1>7, StaysOpen DEF SameMail
<1>9. Woken(t)
  <2>1. \A k : Takeable(t, KeyTypes(k)) = Takeable(s, KeyTypes(k))
    BY <1>6, <1>7 DEF Takeable, SameMail
  <2>2. ASSUME NEW k \in t.listeners \ {ChildKey}, NEW n \in Takeable(t, KeyTypes(k)), ~Expired(t.copies[n])
        PROVE  t.wake <= now
    <3>1. PendingWanted(s)
      BY <2>1, <2>2, <1>1, <1>6, WantedIsSeen DEF SameMail
    <3> QED BY <3>1, <1>1, <1>2, <1>6
  <2> QED BY <2>2 DEF Woken
<1>10. RowOK(t)
  BY <1>7, <1>8, <1>9 DEF RowOK, RowInv
<1>11. Entered(s, r) \in [Branch(r) -> Pc] /\ BranchesAgree(t, Entered(s, r))
  BY <1>6, EnteredAgrees
<1> QED BY <1>4, <1>10, <1>11, OneRow

LEMMA ClaimInv ==
    ASSUME Inv, NEW r \in Run, Claim(r)
    PROVE  Inv'
<1> DEFINE s == row[r]
<1>1. s \in RowType /\ RowOK(s)
  BY OfInv
<1>2. PICK t : t = [s EXCEPT !.state = "Running"]
  OBVIOUS
<1>3. row' = [row EXCEPT ![r] = t] /\ exec' = [exec EXCEPT ![r] = Entered(s, r)] /\ now' = now
  BY <1>2 DEF Claim
<1>4. /\ t \in RowType /\ SameMail(s, t) /\ t.state = "Running" /\ t.listeners = s.listeners
      /\ t.subscriptions = s.subscriptions /\ t.awaits = s.awaits
  BY <1>1, <1>2 DEF RowType, SameMail
<1>5. RowOK(t)
  BY <1>1, <1>4, PlainOK
<1>6. Entered(s, r) \in [Branch(r) -> Pc] /\ BranchesAgree(t, Entered(s, r))
  BY <1>4, EnteredAgrees
<1> QED BY <1>3, <1>5, <1>6, OneRow

\* A step of one run's row that no branch sees.
LEMMA RowOnly ==
    ASSUME Inv, NEW r \in Run, NEW t, row' = [row EXCEPT ![r] = t], exec' = exec, now' = now,
           RowOK(t), Unmoved(row[r], t)
    PROVE  Inv'
<1>1. exec = [x \in Run |-> exec[x]] /\ exec[r] \in [Branch(r) -> Pc] /\ BranchesAgree(row[r], exec[r])
  BY OfInv
<1>2. exec' = [exec EXCEPT ![r] = exec[r]]
  BY <1>1
<1>3. BranchesAgree(t, exec[r])
  BY <1>1, BranchesStay
<1> QED BY <1>1, <1>2, <1>3, OneRow

LEMMA SetHoldInv ==
    ASSUME Inv, NEW r \in Run, SetHold(r)
    PROVE  Inv'
<1> DEFINE s == row[r]
<1>1. s \in RowType /\ RowOK(s)
  BY OfInv
<1>2. PICK t : t = [s EXCEPT !.held = ~@]
  OBVIOUS
<1>3. row' = [row EXCEPT ![r] = t] /\ exec' = exec /\ now' = now
  BY <1>2 DEF SetHold
<1>4. /\ t \in RowType /\ SameMail(s, t) /\ t.state = s.state /\ t.wake = s.wake /\ t.listeners = s.listeners
      /\ t.subscriptions = s.subscriptions /\ t.awaits = s.awaits
  BY <1>1, <1>2 DEF RowType, SameMail
<1>5. RowOK(t) /\ \A b : Taken(t, b) = Taken(s, b)
  BY <1>1, <1>4, PlainOK
<1>6. Unmoved(s, t)
  BY <1>4, <1>5 DEF Unmoved
<1> QED BY <1>3, <1>5, <1>6, RowOnly

LEMMA EndInv ==
    ASSUME Inv, NEW r \in Run, End(r)
    PROVE  Inv'
<1> DEFINE s == row[r]
           none == [y \in Type |-> None]
           ch == IF s.child = "none" THEN s.child ELSE "ended"
<1>1. s \in RowType /\ RowOK(s) /\ exec[r] \in [Branch(r) -> Pc]
  BY OfInv
<1>2. PICK t : t = Terminated(s)
  OBVIOUS
<1>3. PICK a : a = [b \in DOMAIN exec[r] |-> "over"]
  OBVIOUS
<1>4. row' = [row EXCEPT ![r] = t] /\ exec' = [exec EXCEPT ![r] = a] /\ now' = now
  <2>1. row' = [row EXCEPT ![r] = t]
    BY <1>2 DEF End
  <2>2. exec' = [exec EXCEPT ![r] = a] /\ now' = now
    BY <1>3 DEF End
  <2> QED BY <2>1, <2>2
<1>5. none \in [Type -> Nat \cup {None}] /\ ch \in {"none", "running", "waiting", "ended"}
  BY <1>1 DEF RowType
<1>10. t = [s EXCEPT !.state = "Ended", !.held = FALSE, !.awaits = none, !.addressed = {},
                     !.listeners = {}, !.subscriptions = {}, !.waits = {}, !.child = ch]
  BY <1>1, <1>2 DEF Terminated, RowType
<1> HIDE DEF none, ch
<1>6. t \in RowType /\ SameMail(s, t) /\ t.state = "Ended" /\ t.listeners = {}
  BY <1>1, <1>10, <1>5 DEF RowType, SameMail
<1>7. RowOK(t)
  BY <1>1, <1>6, PlainOK
<1>8. a \in [Branch(r) -> Pc] /\ \A b \in Listen : a[b] = "over"
  <2>1. Listen \subseteq Branch(r)
    BY DEF Branch
  <2> QED BY <2>1, <1>1, <1>3 DEF Pc
<1>9. BranchesAgree(t, a)
  BY <1>6, <1>8 DEF BranchesAgree
<1> QED BY <1>4, <1>7, <1>8, <1>9, OneRow

-----------------------------------------------------------------------------
(* Children, hosts, operators and the sweep.                               *)

LEMMA ChildInv ==
    ASSUME Inv, NEW r \in Run, NEW from, NEW to \in {"running", "waiting", "ended"}, NEW u,
           RowOK(u), Unmoved(row[r], u), Child(r, from, to, u)
    PROVE  Inv'
<1>1. PICK t : t = [u EXCEPT !.child = to]
  OBVIOUS
<1>2. row' = [row EXCEPT ![r] = t] /\ exec' = exec /\ now' = now
  BY <1>1 DEF Child
<1>3. u \in RowType
  BY DEF RowOK, RowInv, RowCore
<1>4. /\ t \in RowType /\ SameMail(u, t) /\ t.state = u.state /\ t.wake = u.wake /\ t.listeners = u.listeners
      /\ t.subscriptions = u.subscriptions /\ t.awaits = u.awaits
  BY <1>1, <1>3 DEF RowType, SameMail
<1>5. RowOK(t) /\ \A b : Taken(t, b) = Taken(u, b)
  BY <1>4, PlainOK
<1>6. Unmoved(row[r], t)
  BY <1>4, <1>5 DEF Unmoved
<1> QED BY <1>2, <1>5, <1>6, RowOnly

LEMMA ChildStepsInv ==
    ASSUME Inv, NEW r \in Run, ChildWaits(r) \/ ChildRuns(r) \/ ChildEnds(r)
    PROVE  Inv'
<1>1. RowOK(row[r]) /\ now \in Nat
  BY OfInv
<1>2. CASE ChildWaits(r)
  <2>1. PICK u : u = Lifecycle(row[r], Waits)
    OBVIOUS
  <2>2. RowOK(u) /\ Unmoved(row[r], u)
    BY <2>1, <1>1, LifecycleOK
  <2>3. Child(r, {"running"}, "waiting", u)
    BY <2>1, <1>2 DEF ChildWaits
  <2> QED BY <2>2, <2>3, ChildInv
<1>3. CASE ChildRuns(r)
  <2>1. PICK u : u = row[r]
    OBVIOUS
  <2>2. RowOK(u) /\ Unmoved(row[r], u)
    BY <2>1, <1>1 DEF Unmoved
  <2>3. Child(r, {"waiting"}, "running", u)
    BY <2>1, <1>3 DEF ChildRuns
  <2> QED BY <2>2, <2>3, ChildInv
<1>4. CASE ChildEnds(r)
  <2>1. PICK u : u = Lifecycle(row[r], Done)
    OBVIOUS
  <2>2. RowOK(u) /\ Unmoved(row[r], u)
    BY <2>1, <1>1, LifecycleOK
  <2>3. Child(r, {"running", "waiting"}, "ended", u)
    BY <2>1, <1>4 DEF ChildEnds
  <2> QED BY <2>2, <2>3, ChildInv
<1> QED BY <1>2, <1>3, <1>4

LEMMA CopyOK ==
    ASSUME NEW e \in Event, NEW d \in BOOLEAN, NEW x \in Nat
    PROVE  LET c == Copy(e, d, x)
           IN  /\ c \in CopyType /\ c.key = None /\ c.cloud /\ c.event \in Event
               /\ c.event = e /\ c.type = TypeOf[c.event] /\ c.delivered = d
<1>1. TypeOf[e] \in Type
  BY DEF Type
<1> QED BY <1>1 DEF Copy, CopyType

LEMMA AcceptCopyOK ==
    ASSUME NEW s, RowOK(s), now \in Nat, NEW e \in Event, NEW d \in BOOLEAN, NEW x \in Nat
    PROVE  RowOK(Accept(s, Copy(e, d, x))) /\ Unmoved(s, Accept(s, Copy(e, d, x)))
<1>1. PICK c : c = Copy(e, d, x)
  OBVIOUS
<1>2. c \in CopyType /\ c.key = None /\ c.cloud /\ c.event \in Event /\ c.type = TypeOf[c.event]
  BY <1>1, CopyOK
<1>3. RowOK(Accept(s, c)) /\ Unmoved(s, Accept(s, c))
  BY <1>2, AcceptOK
<1> QED BY <1>1, <1>3

LEMMA LaterNat ==
    ASSUME now \in Nat
    PROVE  now + MailboxMs \in Nat /\ Never \in Nat
BY ProgramAssumption, NoticeTypes

LEMMA AcceptedInv ==
    ASSUME Inv, NEW r \in Run, NEW e \in Event, NEW d \in BOOLEAN,
           row' = [row EXCEPT ![r] = Accept(@, Copy(e, d, now + MailboxMs))], exec' = exec, now' = now
    PROVE  Inv'
<1>1. RowOK(row[r]) /\ now \in Nat
  BY OfInv
<1>2. PICK t : t = Accept(row[r], Copy(e, d, now + MailboxMs))
  OBVIOUS
<1>3. RowOK(t) /\ Unmoved(row[r], t)
  BY <1>1, <1>2, LaterNat, AcceptCopyOK
<1>4. row' = [row EXCEPT ![r] = t]
  BY <1>2
<1> QED BY <1>3, <1>4, RowOnly

LEMMA DeliverInv ==
    ASSUME Inv, NEW r \in Run, NEW e \in Event, Deliver(e, r) \/ PublishTo(e, r)
    PROVE  Inv'
<1>1. PICK d \in BOOLEAN : row' = [row EXCEPT ![r] = Accept(@, Copy(e, d, now + MailboxMs))]
  BY DEF Deliver, PublishTo, DeliverTo
<1>2. exec' = exec /\ now' = now
  BY DEF Deliver, PublishTo
<1> QED BY <1>1, <1>2, AcceptedInv

LEMMA DeliverAnyInv ==
    ASSUME Inv, NEW e \in Event, DeliverAny(e)
    PROVE  Inv'
<1>1. PICK r \in Chosen(e) : DeliverTo(r, e) /\ exec' = exec /\ now' = now
  BY DEF DeliverAny
<1>2. r \in Run
  BY DEF Chosen, Recipients
<1>3. row' = [row EXCEPT ![r] = Accept(@, Copy(e, TRUE, now + MailboxMs))]
  BY <1>1 DEF DeliverTo
<1> QED BY <1>1, <1>2, <1>3, AcceptedInv

\* A step of several rows that no branch sees.
LEMMA RowsOnly ==
    ASSUME Inv, exec' = exec, now' = now, row' = [x \in Run |-> row'[x]],
           \A x \in Run : RowOK(row'[x]) /\ BranchesAgree(row'[x], exec[x])
    PROVE  Inv'
<1>1. \A x \in Run : exec[x] \in [Branch(x) -> Pc]
  BY DEF Inv
<1>2. exec' = [x \in Run |-> exec'[x]]
  BY DEF Inv
<1> QED BY <1>1, <1>2, RowsStep

LEMMA PublishInv ==
    ASSUME Inv, NEW e \in Event, Publish(e)
    PROVE  Inv'
<1>1. PICK to : row' = [x \in Run |-> IF x \in to THEN Accept(row[x], Copy(e, FALSE, Never)) ELSE row[x]]
  BY DEF Publish
<1>2. exec' = exec /\ now' = now
  BY DEF Publish
<1>3. ASSUME NEW x \in Run PROVE RowOK(row'[x]) /\ BranchesAgree(row'[x], exec[x])
  <2>1. RowOK(row[x]) /\ now \in Nat /\ BranchesAgree(row[x], exec[x])
    BY OfInv
  <2>2. PICK t : t = Accept(row[x], Copy(e, FALSE, Never))
    OBVIOUS
  <2>3. RowOK(t) /\ Unmoved(row[x], t)
    BY <2>1, <2>2, LaterNat, AcceptCopyOK
  <2>4. BranchesAgree(t, exec[x])
    BY <2>1, <2>3, BranchesStay
  <2> QED BY <1>1, <2>1, <2>2, <2>3, <2>4
<1>4. row' = [x \in Run |-> row'[x]]
  BY <1>1
<1> QED BY <1>2, <1>3, <1>4, RowsOnly

\* The time only moves on: what is due stays due, and a copy expires once.
LEMMA TickInv ==
    ASSUME Inv, Tick
    PROVE  Inv'
<1>1. now' = now + 1 /\ row' = row /\ exec' = exec /\ now \in Nat
  BY DEF Tick, Inv
<1>2. ASSUME NEW r \in Run PROVE Woken(row[r])'
  <2>1. Woken(row[r]) /\ row[r] \in RowType
    BY OfInv DEF RowOK
  <2>2. ASSUME NEW k, NEW n \in Takeable(row[r], KeyTypes(k)), row[r].copies[n].expires > now + 1
        PROVE  ~Expired(row[r].copies[n])
    <3>1. row[r].copies[n].expires \in Nat
      BY <2>1, CopyIsTyped DEF Takeable, Pending, CopyType
    <3> QED BY <3>1, <2>2, <1>1 DEF Expired
  <2>3. row[r].wake \in Nat
    BY <2>1 DEF RowType
  <2>4. (\E k \in row[r].listeners \ {ChildKey} :
            \E n \in Takeable(row[r], KeyTypes(k)) : ~(row[r].copies[n].expires <= now + 1))
          /\ row[r].state = "Waiting" => row[r].wake <= now + 1
    <3> SUFFICES ASSUME NEW k \in row[r].listeners \ {ChildKey}, NEW n \in Takeable(row[r], KeyTypes(k)),
                        ~(row[r].copies[n].expires <= now + 1), row[r].state = "Waiting"
                 PROVE  row[r].wake <= now + 1
      OBVIOUS
    <3>1. row[r].copies[n].expires \in Nat
      BY <2>1, CopyIsTyped DEF Takeable, Pending, CopyType
    <3>2. ~Expired(row[r].copies[n])
      BY <2>2, <3>1, <1>1
    <3>3. row[r].wake <= now
      BY <2>1, <3>2 DEF Woken
    <3> QED BY <3>3, <2>3, <1>1
  <2> QED BY <2>4, <1>1 DEF Woken, Takeable, Pending, Expired, KeyTypes, Published, ChildKey
<1>3. ASSUME NEW r \in Run PROVE RowInv(row'[r]) /\ exec'[r] \in [Branch(r) -> Pc] /\ BranchesAgree(row'[r], exec'[r])
  BY <1>1, OfInv
<1> QED BY <1>1, <1>2, <1>3 DEF Inv

\* An empty mailbox is counted as one.
EmptyMail(s) ==
    /\ s.copies = << >> /\ s.records = {} /\ s.published = 0 /\ s.mailbox = None
    /\ s.pending = [y \in Type |-> NoPending]

LEMMA EmptyOK ==
    ASSUME NEW s \in RowType, EmptyMail(s)
    PROVE  RowCore(s) /\ Pending(s) = {} /\ \A b : Taken(s, b) = 0
<1>1. DOMAIN s.copies = {} /\ Pending(s) = {}
  BY DEF EmptyMail, Pending
<1>2. IsFiniteSet({}) /\ Cardinality({}) = 0
  BY FS_EmptySet
<1>3. \A y : PendingOf(s, y) = {} /\ CloudOf(s, y) = {}
  BY <1>1 DEF PendingOf, CloudOf
<1>4. PublishedOf(s) = {}
  BY <1>1 DEF PublishedOf
<1>5. ASSUME NEW y \in Type
      PROVE  /\ s.pending[y] = [copies |-> Cardinality(PendingOf(s, y)), cloud |-> Cardinality(CloudOf(s, y))]
             /\ Cardinality(PendingOf(s, y) \ CloudOf(s, y)) <= 1
  <2>1. s.pending[y] = [copies |-> 0, cloud |-> 0]
    BY DEF EmptyMail, NoPending
  <2>2. PendingOf(s, y) \ CloudOf(s, y) = {}
    BY <1>3
  <2> QED BY <2>1, <2>2, <1>2, <1>3
<1>6. Earliest({s.copies[n].expires : n \in Pending(s)} \ {Never}) = None
  BY <1>1 DEF Earliest
<1>7. Counted(s)
  BY <1>2, <1>4, <1>5, <1>6 DEF Counted, EmptyMail
<1>8. CopiesAreSound(s) /\ RecordsAreSound(s)
  BY <1>1, <1>2 DEF CopiesAreSound, RecordsAreSound, EmptyMail
<1>9. ASSUME NEW b PROVE Taken(s, b) = 0
  <2>1. {x \in s.records : x.key.at = b} = {}
    BY DEF EmptyMail
  <2> QED BY <2>1, <1>2 DEF Taken
<1> QED BY <1>1, <1>7, <1>8, <1>9 DEF RowCore

LEMMA ForgottenOK ==
    ASSUME NEW s, RowOK(s), s.state = "Ended", NEW a, BranchesAgree(s, a)
    PROVE  RowOK(Forgotten(s)) /\ BranchesAgree(Forgotten(s), a)
<1>1. s \in RowType /\ s.listeners = {}
  BY DEF RowOK, RowInv, RowCore, BranchesAgree
<1>2. PICK p : p = [y \in Type |-> NoPending]
  OBVIOUS
<1>3. p \in [Type -> [copies : Int, cloud : Int]]
  BY <1>2 DEF NoPending
<1>4. PICK q : q = << >>
  OBVIOUS
<1>6. q \in Seq(CopyType)
  BY <1>4
<1>11. PICK t : t = [s EXCEPT !.copies = q, !.records = {}, !.published = 0, !.mailbox = None, !.pending = p]
  OBVIOUS
<1>5. t = Forgotten(s)
  BY <1>2, <1>4, <1>11 DEF Forgotten
<1>12. t \in RowType
  <2>1. None \in Nat \cup {None} /\ 0 \in Int
    OBVIOUS
  <2>2. PICK e : e = {}
    OBVIOUS
  <2>3. e \in SUBSET [key : Place, n : Nat]
    BY <2>2
  <2>4. t = [s EXCEPT !.copies = q, !.records = e, !.published = 0, !.mailbox = None, !.pending = p]
    BY <1>11, <2>2
  <2> QED BY <1>1, <1>3, <1>6, <2>1, <2>3, <2>4 DEF RowType
<1>7. /\ t.copies = q /\ t.records = {} /\ t.published = 0 /\ t.mailbox = None
      /\ t.pending = p /\ t.state = "Ended" /\ t.listeners = {} /\ t.subscriptions = s.subscriptions
  BY <1>1, <1>11 DEF RowType
<1>8. RowCore(t) /\ \A b : Taken(t, b) = 0
  BY <1>2, <1>4, <1>7, <1>12, EmptyOK DEF EmptyMail
<1>9. RowOK(t)
  BY <1>7, <1>8 DEF RowOK, RowInv, ListenersAreOpen, Woken
<1>10. BranchesAgree(t, a)
  BY <1>7, <1>8, ProgramAssumption DEF BranchesAgree
<1> QED BY <1>5, <1>9, <1>10

LEMMA ExpireOK ==
    ASSUME NEW s, RowOK(s), now \in Nat
    PROVE  RowOK(Expire(s)) /\ Unmoved(s, Expire(s))
<1>1. PICK t : t = Expire(s)
  OBVIOUS
<1>2. /\ RowInv(t) /\ Frame(s, t) /\ \A b \in Listen \cup {"join"} : Taken(t, b) = Taken(s, b)
      /\ Pending(t) \subseteq Pending(s)
      /\ \A n \in Pending(t) : t.copies[n] = s.copies[n]
  BY <1>1, ExpireInv DEF RowOK
<1>3. \A k : \A n \in Takeable(t, KeyTypes(k)) :
         n \in Takeable(s, KeyTypes(k)) /\ t.copies[n] = s.copies[n]
  BY <1>2 DEF Takeable
<1>4. Woken(t)
  BY <1>2, <1>3 DEF Woken, RowOK, Frame
<1>5. Unmoved(s, t)
  BY <1>2 DEF Unmoved, Frame
<1> QED BY <1>1, <1>2, <1>4, <1>5 DEF RowOK

LEMMA SweepInv ==
    ASSUME Inv, Sweep
    PROVE  Inv'
<1>1. PICK old \in SUBSET {r \in Run : ~Live(row[r])} :
         /\ row' = [r \in Run |-> IF r \in old THEN Forgotten(row[r])
                                  ELSE IF Live(row[r]) THEN Expire(row[r]) ELSE row[r]]
         /\ exec' = exec /\ now' = now
  BY DEF Sweep
<1>2. ASSUME NEW x \in Run PROVE RowOK(row'[x]) /\ BranchesAgree(row'[x], exec[x])
  <2>1. RowOK(row[x]) /\ now \in Nat /\ BranchesAgree(row[x], exec[x])
    BY OfInv
  <2>2. row'[x] = IF x \in old THEN Forgotten(row[x])
                  ELSE IF Live(row[x]) THEN Expire(row[x]) ELSE row[x]
    BY <1>1
  <2>3. CASE x \in old
    <3>1. row[x].state = "Ended"
      BY <2>3, <1>1 DEF Live
    <3> QED BY <3>1, <2>1, <2>2, <2>3, ForgottenOK
  <2>4. CASE x \notin old /\ Live(row[x])
    BY <2>1, <2>2, <2>4, ExpireOK, BranchesStay
  <2>5. CASE x \notin old /\ ~Live(row[x])
    BY <2>1, <2>2, <2>5
  <2> QED BY <2>3, <2>4, <2>5
<1>3. row' = [x \in Run |-> row'[x]]
  BY <1>1
<1> QED BY <1>1, <1>2, <1>3, RowsOnly

LEMMA InitInv == Init => Inv
<1> SUFFICES ASSUME Init PROVE Inv
  OBVIOUS
<1>1. PICK s : s = NewRow
  OBVIOUS
<1>2. s \in RowType /\ EmptyMail(s) /\ s.state = "Running" /\ s.listeners = {}
  <2>1. PICK p : p = [y \in Type |-> NoPending]
    OBVIOUS
  <2>2. PICK a : a = [y \in Type |-> None]
    OBVIOUS
  <2>3. p \in [Type -> [copies : Int, cloud : Int]] /\ a \in [Type -> Nat \cup {None}]
    BY <2>1, <2>2 DEF NoPending
  <2>4. << >> \in Seq(CopyType)
    OBVIOUS
  <2>5. s = [ state |-> "Running", wake |-> 0, held |-> FALSE, child |-> "none", answered |-> {},
              awaits |-> a, addressed |-> {}, listeners |-> {},
              subscriptions |-> {}, waits |-> {}, copies |-> << >>, records |-> {},
              over |-> {}, pending |-> p, published |-> 0, mailbox |-> None ]
    BY <1>1, <2>1, <2>2 DEF NewRow
  <2>6. s \in RowType
    BY <2>3, <2>4, <2>5 DEF RowType
  <2> QED BY <2>1, <2>5, <2>6 DEF EmptyMail
<1>3. RowCore(s)
  BY <1>2, EmptyOK
<1>4. RowInv(s) /\ Woken(s)
  BY <1>2, <1>3 DEF RowInv, ListenersAreOpen, Woken
<1>5. \A r \in Run : Entered(s, r) \in [Branch(r) -> Pc] /\ BranchesAgree(s, Entered(s, r))
  BY <1>2, EnteredAgrees
<1>6. row = [r \in Run |-> s] /\ exec = [r \in Run |-> Entered(s, r)] /\ now = 0
  BY <1>1 DEF Init
<1> QED BY <1>4, <1>5, <1>6 DEF Inv

\* After accept the mailbox holds a copy of the event.
LEMMA AcceptHolds ==
    ASSUME NEW s, RowOK(s), now \in Nat, NEW c \in CopyType
    PROVE  Held(Accept(s, c), c.event) # {}
<1>1. CASE Held(s, c.event) # {}
  BY <1>1 DEF Accept
<1>2. CASE Held(s, c.event) = {}
  <2>1. PICK w : w = Min({s.wake, now})
    OBVIOUS
  <2>2. s \in RowType /\ s.wake \in Nat
    BY DEF RowOK, RowInv, RowCore, RowType
  <2>3. w \in Nat
    BY <2>1, <2>2, MinNow
  <2>4. PICK u : u = IF Wanted(s, c) THEN [s EXCEPT !.wake = w] ELSE s
    OBVIOUS
  <2>5. u \in RowType
    BY <2>2, <2>3, <2>4 DEF RowType
  <2>6. Accept(s, c) = Push(u, c)
    BY <1>2, <2>1, <2>4 DEF Accept
  <2>7. Push(u, c).copies = Append(u.copies, c) /\ u.copies \in Seq(CopyType)
    BY <2>5, PushFields DEF RowType
  <2>8. Len(u.copies) + 1 \in DOMAIN Append(u.copies, c) /\ Append(u.copies, c)[Len(u.copies) + 1] = c
    BY <2>7
  <2> QED BY <2>6, <2>7, <2>8 DEF Held
<1> QED BY <1>1, <1>2

\* A delivered copy turned into a published one is counted as one, and the run is due.
LEMMA ConvertOK ==
    ASSUME NEW s, RowOK(s), now \in Nat, NEW n \in Pending(s), s.copies[n].cloud, s.copies[n].delivered,
           NEW t, t = [s EXCEPT !.copies[n].delivered = FALSE,
                                !.published = @ + 1,
                                !.wake = Min({@, now})]
    PROVE  RowOK(t) /\ Unmoved(s, t)
<1>1. s \in RowType /\ RowCore(s) /\ RowInv(s) /\ n \in DOMAIN s.copies
  BY DEF RowOK, RowInv, RowCore, Pending
<1>2. PICK w : w = Min({s.wake, now})
  OBVIOUS
<1>3. w \in Nat /\ w <= now
  BY <1>1, <1>2, MinNow DEF RowType
<1>4. PICK c : c = [s.copies[n] EXCEPT !.delivered = FALSE]
  OBVIOUS
<1>5. /\ c \in CopyType /\ c.event = s.copies[n].event /\ c.type = s.copies[n].type /\ c.cloud = s.copies[n].cloud
      /\ c.expires = s.copies[n].expires /\ c.key = s.copies[n].key /\ c.delivered = FALSE
  BY <1>1, <1>4, CopyIsTyped DEF CopyType
<1>6. PICK q : q = [s.copies EXCEPT ![n] = c]
  OBVIOUS
<1>7. /\ q \in Seq(CopyType) /\ DOMAIN q = DOMAIN s.copies /\ q[n] = c
      /\ \A m \in DOMAIN s.copies : m # n => q[m] = s.copies[m]
  <2>1. s.copies \in Seq(CopyType)
    BY <1>1 DEF RowType
  <2> QED BY <2>1, <1>1, <1>5, <1>6
<1>8. t = [s EXCEPT !.copies = q, !.published = s.published + 1, !.wake = w]
  BY <1>2, <1>4, <1>6
<1>9. s.published \in Int /\ s.published + 1 \in Int
  BY <1>1 DEF RowType
<1>10. t \in RowType
  BY <1>1, <1>3, <1>7, <1>8, <1>9 DEF RowType
<1>11. /\ t.copies = q /\ t.published = s.published + 1 /\ t.wake = w /\ t.state = s.state
       /\ t.listeners = s.listeners /\ t.subscriptions = s.subscriptions /\ t.awaits = s.awaits
       /\ t.records = s.records /\ t.pending = s.pending /\ t.mailbox = s.mailbox
  BY <1>1, <1>8 DEF RowType
<1>12. \A m \in DOMAIN s.copies :
          /\ t.copies[m].event = s.copies[m].event /\ t.copies[m].type = s.copies[m].type
          /\ t.copies[m].cloud = s.copies[m].cloud /\ t.copies[m].expires = s.copies[m].expires
          /\ t.copies[m].key = s.copies[m].key
          /\ m # n => t.copies[m] = s.copies[m]
  BY <1>5, <1>7, <1>11
<1>13. DOMAIN t.copies = DOMAIN s.copies /\ Pending(t) = Pending(s) /\ Pending(s) \subseteq DOMAIN s.copies
  BY <1>7, <1>11, <1>12 DEF Pending
<1>14. \A y : PendingOf(t, y) = PendingOf(s, y) /\ CloudOf(t, y) = CloudOf(s, y)
  BY <1>12, <1>13 DEF PendingOf, CloudOf
<1>15. PublishedOf(t) = PublishedOf(s) \cup {n} /\ n \notin PublishedOf(s)
  <2>1. Published(t.copies[n])
    BY <1>5, <1>7, <1>11 DEF Published
  <2>2. ~Published(s.copies[n])
    BY DEF Published
  <2> QED BY <2>1, <2>2, <1>12, <1>13 DEF PublishedOf
<1>16. t.published = Cardinality(PublishedOf(t))
  <2>1. PublishedOf(s) \in SUBSET Pending(s)
    BY DEF PublishedOf
  <2>2. IsFiniteSet(PublishedOf(s))
    BY <2>1, <1>1, PendingFinite
  <2>3. Cardinality(PublishedOf(s) \cup {n}) = Cardinality(PublishedOf(s)) + 1
    BY <2>2, <1>15, FS_AddElement
  <2>4. s.published = Cardinality(PublishedOf(s))
    BY <1>1 DEF RowCore, Counted
  <2> QED BY <2>3, <2>4, <1>11, <1>15
<1>17. {t.copies[m].expires : m \in Pending(t)} = {s.copies[m].expires : m \in Pending(s)}
  BY <1>12, <1>13
<1>18. Counted(t)
  BY <1>1, <1>11, <1>14, <1>16, <1>17 DEF Counted, RowCore
<1>19. CopiesAreSound(t)
  <2> SUFFICES ASSUME NEW m \in DOMAIN s.copies
               PROVE  IF t.copies[m].cloud
                      THEN t.copies[m].event \in Event /\ t.copies[m].type = TypeOf[t.copies[m].event]
                      ELSE t.copies[m].event = None /\ t.copies[m].type \in {Done, Waits}
    BY <1>13 DEF CopiesAreSound
  <2>1. IF s.copies[m].cloud
        THEN s.copies[m].event \in Event /\ s.copies[m].type = TypeOf[s.copies[m].event]
        ELSE s.copies[m].event = None /\ s.copies[m].type \in {Done, Waits}
    BY <1>1 DEF RowCore, CopiesAreSound
  <2> QED BY <2>1, <1>12
<1>20. RecordsAreSound(t)
  BY <1>1, <1>11, <1>12, <1>13 DEF RowCore, RecordsAreSound
<1>21. \A b : Taken(t, b) = Taken(s, b)
  BY <1>11 DEF Taken
<1>22. ListenersAreOpen(t)
  <2> SUFFICES ASSUME NEW k \in t.listeners \ {ChildKey}
               PROVE  /\ k.at \in Listen \cup {"join"}
                      /\ k.at \in Listen => /\ k.at \in t.subscriptions
                                           /\ k = Position(t, k.at)
                                           /\ Taken(t, k.at) # Takes[k.at]
                      /\ \A m \in Pending(t) :
                            ~t.copies[m].cloud /\ t.copies[m].type \in KeyTypes(k)
                              => t.awaits[t.copies[m].type] # None
    BY DEF ListenersAreOpen
  <2>1. /\ k.at \in Listen \cup {"join"}
        /\ k.at \in Listen => /\ k.at \in s.subscriptions
                             /\ k = Position(s, k.at)
                             /\ Taken(s, k.at) # Takes[k.at]
        /\ \A m \in Pending(s) :
              ~s.copies[m].cloud /\ s.copies[m].type \in KeyTypes(k)
                => s.awaits[s.copies[m].type] # None
    BY <1>1, <1>11 DEF RowInv, ListenersAreOpen
  <2>2. \A m \in Pending(t) : m \in Pending(s) /\ m \in DOMAIN s.copies
    BY <1>13
  <2> QED BY <2>1, <2>2, <1>11, <1>12, <1>21 DEF Position
<1>23. Woken(t)
  BY <1>3, <1>11 DEF Woken
<1>24. RowOK(t)
  BY <1>10, <1>18, <1>19, <1>20, <1>22, <1>23 DEF RowOK, RowInv, RowCore
<1>25. Unmoved(s, t)
  BY <1>11, <1>21 DEF Unmoved
<1> QED BY <1>24, <1>25

LEMMA RespondInv ==
    ASSUME Inv, NEW r \in Run, NEW l \in Listen, NEW e \in Event, Respond(r, l, e)
    PROVE  Inv'
<1>1. RowOK(row[r]) /\ now \in Nat
  BY OfInv
<1>2. PICK c : c = Copy(e, TRUE, now + MailboxMs)
  OBVIOUS
<1>3. c \in CopyType /\ c.event = e
  BY <1>1, <1>2, LaterNat, CopyOK
<1>4. PICK s : s = Accept(row[r], c)
  OBVIOUS
<1>5. RowOK(s) /\ Unmoved(row[r], s)
  BY <1>1, <1>2, <1>4, LaterNat, AcceptCopyOK
<1>6. PICK n : n = CHOOSE m \in Held(s, e) : TRUE
  OBVIOUS
<1>7. n \in Held(s, e)
  <2>1. Held(s, e) # {}
    BY <1>1, <1>3, <1>4, AcceptHolds
  <2> QED BY <2>1, <1>6
<1>8. PICK u : u = ForWildcard(s, l, n)
  OBVIOUS
<1>9. /\ Star \in Routes[l] => s.copies[n].key = None
      /\ row' = [row EXCEPT ![r] = [u EXCEPT !.answered = @ \cup {e}]]
      /\ exec' = exec /\ now' = now
  BY <1>2, <1>4, <1>6, <1>8 DEF Respond
<1>10. RowOK(u) /\ Unmoved(s, u)
  <2>1. CASE Star \in Routes[l] /\ s.copies[n].delivered
    <3>1. n \in DOMAIN s.copies /\ s.copies[n].event = e
      BY <1>7 DEF Held
    <3>2. n \in Pending(s)
      BY <3>1, <2>1, <1>9 DEF Pending
    <3>3. s.copies[n].cloud
      <4>1. IF s.copies[n].cloud THEN s.copies[n].event \in Event /\ s.copies[n].type = TypeOf[s.copies[n].event]
            ELSE s.copies[n].event = None /\ s.copies[n].type \in {Done, Waits}
        BY <1>5, <3>1 DEF RowOK, RowInv, RowCore, CopiesAreSound
      <4> QED BY <4>1, <3>1, ProgramAssumption
    <3>4. u = [s EXCEPT !.copies[n].delivered = FALSE, !.published = @ + 1, !.wake = Min({@, now})]
      BY <1>8, <2>1 DEF ForWildcard
    <3> QED BY <3>2, <3>3, <3>4, <2>1, <1>1, <1>5, ConvertOK
  <2>2. CASE ~(Star \in Routes[l] /\ s.copies[n].delivered)
    BY <2>2, <1>5, <1>8 DEF Unmoved, ForWildcard
  <2> QED BY <2>1, <2>2
<1>11. PICK t : t = [u EXCEPT !.answered = @ \cup {e}]
  OBVIOUS
<1>12. u \in RowType
  BY <1>10 DEF RowOK, RowInv, RowCore
<1>13. /\ t \in RowType /\ SameMail(u, t) /\ t.state = u.state /\ t.wake = u.wake /\ t.listeners = u.listeners
       /\ t.subscriptions = u.subscriptions /\ t.awaits = u.awaits
  BY <1>11, <1>12 DEF RowType, SameMail
<1>14. RowOK(t) /\ \A b : Taken(t, b) = Taken(u, b)
  BY <1>10, <1>13, PlainOK
<1>15. Unmoved(row[r], t)
  BY <1>5, <1>10, <1>13, <1>14 DEF Unmoved
<1> QED BY <1>9, <1>11, <1>14, <1>15, RowOnly

-----------------------------------------------------------------------------
(* The theorems.                                                           *)

LEMMA OwnerInv ==
    ASSUME Inv, NEW r \in Run, Owner(r)
    PROVE  Inv'
<1>1. CASE \E l \in Listen : Register(r, l) \/ Subscribe(r, l) \/ Describe(r, l)
                             \/ Unregister(r, l) \/ Unsubscribe(r, l)
  BY <1>1, RegisterInv, SubscribeInv, DescribeInv, UnregisterInv, UnsubscribeInv
<1>2. CASE StartChild(r) \/ RegisterJoin(r) \/ FinishWaiting(r)
  BY <1>2, StartChildInv, RegisterJoinInv, FinishWaitingInv
<1>3. CASE \E b \in Branch(r) : Take(r, b) \/ Save(r, b)
  BY <1>3, TakeInv, SaveInv
<1> QED BY <1>1, <1>2, <1>3 DEF Owner

\* Every operation of the store and of the interpreter keeps the invariant.
LEMMA NextInv ==
    ASSUME Inv, [Next]_vars
    PROVE  Inv'
<1>1. CASE Tick
  BY <1>1, TickInv
<1>2. CASE Sweep
  BY <1>2, SweepInv
<1>3. ASSUME NEW r \in Run,
             \/ Owner(r) \/ Claim(r) \/ SetHold(r) \/ End(r)
             \/ ChildWaits(r) \/ ChildRuns(r) \/ ChildEnds(r)
      PROVE  Inv'
  BY <1>3, OwnerInv, ClaimInv, SetHoldInv, EndInv, ChildStepsInv
<1>4. ASSUME NEW e \in Event, DeliverAny(e) \/ Publish(e)
      PROVE  Inv'
  BY <1>4, DeliverAnyInv, PublishInv
<1>5. ASSUME NEW e \in Event, NEW r \in Run,
             Deliver(e, r) \/ PublishTo(e, r) \/ \E l \in Listen : Respond(r, l, e)
      PROVE  Inv'
  BY <1>5, DeliverInv, RespondInv
<1>6. CASE UNCHANGED vars
  <2>1. row' = row /\ exec' = exec /\ now' = now
    BY <1>6 DEF vars
  <2> QED BY <2>1 DEF Inv, Woken, Takeable, Pending, Expired, KeyTypes, Published, ChildKey
<1> QED BY <1>1, <1>2, <1>3, <1>4, <1>5, <1>6 DEF Next

\* Whatever hosts deliver and publish, operators answer, children report and the
\* sweep expires, in whatever order with the branches of a run and with restarts,
\* the counters a delivery and a finish decide by (StoredRun::pending, published,
\* mailbox) are those of the copies in the mailbox.
THEOREM Counters == Spec => []CountersAgree
<1>1. Inv => CountersAgree
  BY DEF Inv, RowInv, RowCore, CountersAgree
<1>2. Inv /\ [Next]_vars => Inv'
  BY NextInv
<1> QED BY InitInv, <1>1, <1>2, PTL DEF Spec

\* No wake-up is lost: a run suspended by finish(Waiting) while its mailbox holds a
\* live copy that the take it suspended in would consume is due, for any program of
\* listens, any runs and any events (pending_wanted, accept, notify, Respond).
THEOREM Wakeups == Spec => []NoLostWakeup
<1>1. Inv => NoLostWakeup
  BY DEF Inv, Woken, NoLostWakeup
<1>2. Inv /\ [Next]_vars => Inv'
  BY NextInv
<1> QED BY InitInv, <1>1, <1>2, PTL DEF Spec

-----------------------------------------------------------------------------
(* What is handled once, and what a listen keeps. The invariant relates    *)
(* the copies of a row to its records and to the `delivered' index; with   *)
(* each step that keeps it goes what the step may not do.                  *)

\* One copy of an identity.
OneCopy(s) ==
    \A m, n \in DOMAIN s.copies :
        s.copies[m].event = s.copies[n].event => m = n \/ ~s.copies[n].cloud

\* One record of a copy and of a position, and one for each copy consumed.
OneRecord(s) ==
    /\ \A x, y \in s.records : x.n = y.n \/ x.key = y.key => x = y
    /\ \A n \in DOMAIN s.copies :
          s.copies[n].key # None => [key |-> s.copies[n].key, n |-> n] \in s.records

\* The records of a listen are at positions behind its next one.
KeysBehind(s) ==
    \A x \in s.records :
        /\ x.key.at \in Listen => x.key.n < Taken(s, x.key.at)
        /\ x.key.at = "expired" => x.key.n = x.n

RowOnce(s) == OneCopy(s) /\ OneRecord(s) /\ KeysBehind(s)

\* A run that ended has no branch left, a join on its way to its event has no
\* record yet, and a listen is left when it is through or timed out.
BranchOnce(s, at) ==
    /\ Live(s) \/ \A b \in DOMAIN at : at[b] = "over"
    /\ "join" \in DOMAIN at /\ at["join"] \in {"register", "take"} => Taken(s, "join") = 0
    /\ \A l \in Listen : at[l] = "leave" => Taken(s, l) = Takes[l] \/ now >= Deadline[l]

\* What the `delivered' index says is so, and a delivery without a target is in it.
IndexOnce ==
    /\ index \subseteq Event \X Run
    /\ offered \subseteq index
    /\ \A x, y \in offered : x[1] = y[1] => x = y
    /\ \A x \in index : Live(row[x[2]]) => Held(row[x[2]], x[1]) # {}

OnceInv ==
    /\ now <= MaxTime
    /\ IndexOnce
    /\ \A r \in Run : RowOnce(row[r]) /\ BranchOnce(row[r], exec[r])

\* What a step of a row must not do: take out of order, or drop a subscription
\* of a listen that goes on.
Orderly(s, t) ==
    /\ \A x \in t.records \ s.records :
          x.key.at # "expired" =>
            /\ ~Expired(s.copies[x.n])
            /\ \A n \in Takeable(s, KeyTypes(x.key)) : n < x.n => Expired(s.copies[n])
    /\ \A l \in s.subscriptions \ t.subscriptions :
          ~Live(t) \/ Taken(s, l) = Takes[l] \/ now >= Deadline[l]

\* A step that keeps the invariant and what the listens were promised.
Kept == OnceInv' /\ TakesInOrder /\ KeepsOpen

-----------------------------------------------------------------------------
(* What the operators on a row keep of it.                                 *)

\* A row keeps its copies, and ends no more than it goes on again.
Carries(s, t) ==
    /\ Live(t) <=> Live(s)
    /\ \A n \in DOMAIN s.copies : n \in DOMAIN t.copies /\ t.copies[n].event = s.copies[n].event

LEMMA CarriesHeld ==
    ASSUME NEW s, NEW t, Carries(s, t), NEW e
    PROVE  Held(s, e) # {} => Held(t, e) # {}
<1> SUFFICES ASSUME NEW n \in Held(s, e) PROVE n \in Held(t, e)
  OBVIOUS
<1> QED BY DEF Carries, Held

LEMMA CarriesOn ==
    ASSUME NEW s, NEW t, NEW u, Carries(s, t), Carries(t, u)
    PROVE  Carries(s, u)
BY DEF Carries

\* A row with the copies and the records of another.
LEMMA SameOnce ==
    ASSUME NEW s, RowOnce(s), NEW t, t.copies = s.copies, t.records = s.records
    PROVE  RowOnce(t) /\ \A b : Taken(t, b) = Taken(s, b)
<1>1. \A b : Taken(t, b) = Taken(s, b)
  BY DEF Taken
<1> QED BY <1>1 DEF RowOnce, OneCopy, OneRecord, KeysBehind

\* A CloudEvent is pushed once per identity; notices have none.
LEMMA PushOnce ==
    ASSUME NEW s, RowCore(s), RowOnce(s), NEW c, Pushable(s, c),
           c.cloud => Held(s, c.event) = {}
    PROVE  /\ RowOnce(Push(s, c)) /\ Carries(s, Push(s, c))
           /\ Push(s, c).records = s.records /\ Push(s, c).subscriptions = s.subscriptions
           /\ \A b : Taken(Push(s, c), b) = Taken(s, b)
<1> DEFINE t == Push(s, c)
           N == Len(s.copies) + 1
<1>1. s \in RowType /\ c \in CopyType /\ c.key = None
  BY DEF RowCore, Pushable
<1>2. /\ DOMAIN t.copies = DOMAIN s.copies \cup {N}
      /\ \A n \in DOMAIN s.copies : t.copies[n] = s.copies[n]
      /\ t.copies[N] = c
      /\ N \notin DOMAIN s.copies
  BY <1>1, PushCore DEF Pushable
<1>3. t.state = s.state /\ t.records = s.records /\ t.subscriptions = s.subscriptions
  BY <1>1, PushFields
<1> HIDE DEF t, N
<1>4. \A b : Taken(t, b) = Taken(s, b)
  BY <1>3 DEF Taken
<1>5. ASSUME NEW m \in DOMAIN t.copies, NEW n \in DOMAIN t.copies,
             t.copies[m].event = t.copies[n].event, m # n
      PROVE  ~t.copies[n].cloud
  <2>1. \A i \in DOMAIN s.copies :
           IF s.copies[i].cloud THEN s.copies[i].event \in Event ELSE s.copies[i].event = None
    BY DEF RowCore, CopiesAreSound
  <2>2. None \notin Event /\ (IF c.cloud THEN c.event \in Event ELSE c.event = None)
    BY ProgramAssumption DEF Pushable
  <2>3. c.cloud => \A i \in DOMAIN s.copies : s.copies[i].event # c.event
    BY DEF Held
  <2>4. CASE m = N /\ n \in DOMAIN s.copies
    BY <2>1, <2>2, <2>3, <2>4, <1>2, <1>5
  <2>5. CASE n = N /\ m \in DOMAIN s.copies
    BY <2>1, <2>2, <2>3, <2>5, <1>2, <1>5
  <2>6. CASE m \in DOMAIN s.copies /\ n \in DOMAIN s.copies
    BY <2>6, <1>2, <1>5 DEF RowOnce, OneCopy
  <2> QED BY <2>4, <2>5, <2>6, <1>2, <1>5
<1>6. OneCopy(t)
  BY <1>5 DEF OneCopy
<1>7. OneRecord(t)
  BY <1>1, <1>2, <1>3 DEF OneRecord, RowOnce
<1>8. KeysBehind(t)
  BY <1>3, <1>4 DEF KeysBehind, RowOnce
<1>9. Carries(s, t)
  BY <1>2, <1>3 DEF Carries, Live
<1> QED BY <1>3, <1>4, <1>6, <1>7, <1>8, <1>9 DEF RowOnce, t

\* Copies are consumed under positions of their own.
NewKeys(s, keys) ==
    /\ \A m, n \in DOMAIN keys : keys[m] = keys[n] => m = n
    /\ \A n \in DOMAIN keys : \A x \in s.records : x.key # keys[n]

LEMMA ConsumeOnce ==
    ASSUME NEW s, RowCore(s), RowOnce(s), NEW keys, KeysFor(s, keys), NewKeys(s, keys),
           NEW t, Consumed(s, keys, t)
    PROVE  OneCopy(t) /\ OneRecord(t) /\ Carries(s, t)
<1> DEFINE N == DOMAIN keys
<1>1. N \subseteq DOMAIN s.copies /\ \A n \in N : s.copies[n].key = None
  BY DEF KeysFor, Pending
<1>2. /\ DOMAIN t.copies = DOMAIN s.copies
      /\ \A n \in DOMAIN s.copies :
            t.copies[n] = IF n \in N THEN [s.copies[n] EXCEPT !.key = keys[n]] ELSE s.copies[n]
      /\ t.records = s.records \cup {[key |-> keys[n], n |-> n] : n \in N}
      /\ t.state = s.state
  BY DEF Consumed
<1>3. \A n \in DOMAIN s.copies : s.copies[n] \in CopyType
  BY CopyIsTyped DEF RowCore
<1>4. \A n \in DOMAIN s.copies :
         /\ t.copies[n].event = s.copies[n].event /\ t.copies[n].cloud = s.copies[n].cloud
         /\ t.copies[n].key = IF n \in N THEN keys[n] ELSE s.copies[n].key
  BY <1>2, <1>3 DEF CopyType
<1>5. OneCopy(t)
  BY <1>2, <1>4 DEF OneCopy, RowOnce
<1>6. \A x \in s.records : x.n \notin N
  BY <1>1 DEF RowCore, RecordsAreSound
<1>7. ASSUME NEW x \in t.records, NEW y \in t.records, x.n = y.n \/ x.key = y.key
      PROVE  x = y
  <2>1. CASE x \in s.records /\ y \in s.records
    BY <2>1, <1>7 DEF RowOnce, OneRecord
  <2>2. CASE x \in s.records /\ y \notin s.records
    <3>1. PICK n \in N : y = [key |-> keys[n], n |-> n]
      BY <2>2, <1>2
    <3>2. y.n = n /\ y.key = keys[n]
      BY <3>1
    <3> QED BY <2>2, <3>2, <1>6, <1>7 DEF NewKeys
  <2>3. CASE x \notin s.records /\ y \in s.records
    <3>1. PICK n \in N : x = [key |-> keys[n], n |-> n]
      BY <2>3, <1>2
    <3>2. x.n = n /\ x.key = keys[n]
      BY <3>1
    <3> QED BY <2>3, <3>2, <1>6, <1>7 DEF NewKeys
  <2>4. CASE x \notin s.records /\ y \notin s.records
    <3>1. PICK m \in N : x = [key |-> keys[m], n |-> m]
      BY <2>4, <1>2
    <3>2. PICK n \in N : y = [key |-> keys[n], n |-> n]
      BY <2>4, <1>2
    <3>3. x.n = m /\ x.key = keys[m] /\ y.n = n /\ y.key = keys[n]
      BY <3>1, <3>2
    <3>4. m = n
      BY <3>3, <1>7 DEF NewKeys
    <3> QED BY <3>1, <3>2, <3>4
  <2> QED BY <2>1, <2>2, <2>3, <2>4
<1>8. ASSUME NEW n \in DOMAIN t.copies, t.copies[n].key # None
      PROVE  [key |-> t.copies[n].key, n |-> n] \in t.records
  <2>1. CASE n \in N
    BY <2>1, <1>1, <1>2, <1>4
  <2>2. CASE n \notin N
    <3>1. t.copies[n].key = s.copies[n].key /\ n \in DOMAIN s.copies
      BY <2>2, <1>2, <1>4
    <3>2. [key |-> s.copies[n].key, n |-> n] \in s.records
      BY <3>1, <1>8 DEF RowOnce, OneRecord
    <3> QED BY <3>1, <3>2, <1>2
  <2> QED BY <2>1, <2>2
<1>9. OneRecord(t)
  BY <1>7, <1>8 DEF OneRecord
<1>10. Carries(s, t)
  BY <1>2, <1>4 DEF Carries, Live
<1> QED BY <1>5, <1>9, <1>10

\* Expiring: each copy whose time is over has a record of its own, and the ones
\* that stay pending are live.
LEMMA ExpireOnce ==
    ASSUME NEW s, RowInv(s), RowOnce(s), now \in Nat, now < Never
    PROVE  /\ RowOnce(Expire(s)) /\ Carries(s, Expire(s))
           /\ \A n \in Pending(Expire(s)) : ~Expired(Expire(s).copies[n])
           /\ \A n \in Pending(s) : n \in Pending(Expire(s)) \/ Expired(s.copies[n])
           /\ \A x \in Expire(s).records \ s.records : x.key.at = "expired"
<1> DEFINE keys == [n \in {m \in Pending(s) : Expired(s.copies[m])} |-> [at |-> "expired", n |-> n]]
           t == Consume(s, keys)
<1>0. s \in RowType /\ RowCore(s)
  BY DEF RowInv, RowCore
<1>9. Pending(s) \subseteq DOMAIN s.copies /\ DOMAIN s.copies \subseteq Nat
  <2>1. DOMAIN s.copies = 1..Len(s.copies) /\ Len(s.copies) \in Nat
    BY <1>0, PendingFinite
  <2> QED BY <2>1 DEF Pending
<1>1. CASE s.mailbox = None \/ s.mailbox > now
  <2>1. Expire(s) = s
    BY <1>1 DEF Expire
  <2>2. ASSUME NEW n \in Pending(s) PROVE ~Expired(s.copies[n])
    <3> DEFINE S == {s.copies[m].expires : m \in Pending(s)} \ {Never}
    <3>1. s.copies[n].expires \in Nat
      BY <1>0, <1>9, CopyIsTyped DEF CopyType
    <3>2. S \in SUBSET Nat
      BY <1>0, <1>9, CopyIsTyped DEF CopyType
    <3>3. s.mailbox = Earliest(S)
      BY <1>0 DEF RowCore, Counted
    <3>4. s.copies[n].expires = Never \/ s.copies[n].expires \in S
      OBVIOUS
    <3> HIDE DEF S
    <3>5. s.copies[n].expires \in S => s.mailbox \in Nat /\ s.mailbox <= s.copies[n].expires
      BY <3>2, <3>3, EarliestType
    <3>6. None \notin Nat
      BY ProgramAssumption
    <3>7. Never \in Nat
      BY NoticeTypes
    <3> QED BY <3>1, <3>4, <3>5, <3>6, <3>7, <1>1 DEF Expired
  <2>3. Carries(s, s)
    BY DEF Carries
  <2> QED BY <2>1, <2>2, <2>3
<1>2. CASE ~(s.mailbox = None \/ s.mailbox > now)
  <2>1. Expire(s) = t
    BY <1>2 DEF Expire
  <2>2. /\ DOMAIN keys = {m \in Pending(s) : Expired(s.copies[m])}
        /\ \A n \in DOMAIN keys : keys[n] = [at |-> "expired", n |-> n]
    OBVIOUS
  <2> HIDE DEF keys
  <2>3. KeysFor(s, keys)
    BY <2>2, <1>9 DEF KeysFor, Place
  <2>4. NewKeys(s, keys)
    <3>1. \A m, n \in DOMAIN keys : keys[m] = keys[n] => m = n
      BY <2>2
    <3>2. ASSUME NEW n \in DOMAIN keys, NEW x \in s.records, x.key = keys[n] PROVE FALSE
      <4>1. x.key.at = "expired" /\ x.key.n = n
        BY <2>2, <3>2
      <4>2. x.n = n
        BY <4>1 DEF RowOnce, KeysBehind
      <4>3. s.copies[n].key # None
        BY <4>2, <1>0 DEF RowCore, RecordsAreSound
      <4> QED BY <4>3, <2>2 DEF Pending
    <3> QED BY <3>1, <3>2 DEF NewKeys
  <2>5. Consumed(s, keys, t)
    BY <1>0, <2>3, ConsumeFields
  <2>6. Pending(t) = Pending(s) \ DOMAIN keys /\ \A n \in Pending(t) : t.copies[n] = s.copies[n]
    BY <1>0, <2>3, ConsumeCore
  <2> HIDE DEF t
  <2>7. OneCopy(t) /\ OneRecord(t) /\ Carries(s, t)
    BY <1>0, <2>3, <2>4, <2>5, ConsumeOnce
  <2>8. t.records = s.records \cup {[key |-> keys[n], n |-> n] : n \in DOMAIN keys}
    BY <2>5 DEF Consumed
  <2>9. \A x \in t.records \ s.records : x.key.at = "expired" /\ x.key.n = x.n
    BY <2>2, <2>8
  <2>10. KeysBehind(t)
    <3> SUFFICES ASSUME NEW x \in t.records
                 PROVE  /\ x.key.at \in Listen => x.key.n < Taken(t, x.key.at)
                        /\ x.key.at = "expired" => x.key.n = x.n
      BY DEF KeysBehind
    <3>1. "expired" \notin Listen
      BY ProgramAssumption
    <3>2. \A l \in Listen : Taken(t, l) = Taken(s, l)
      <4> TAKE l \in Listen
      <4>1. \A n \in DOMAIN keys : keys[n].at # l
        BY <2>2, <3>1
      <4> QED BY <4>1, <2>5, ConsumeTaken
    <3>3. CASE x \in s.records
      BY <3>3, <3>2 DEF RowOnce, KeysBehind
    <3>4. CASE x \notin s.records
      BY <3>4, <3>1, <2>9
    <3> QED BY <3>3, <3>4
  <2>11. \A n \in Pending(t) : ~Expired(t.copies[n])
    BY <2>2, <2>6
  <2>12. \A n \in Pending(s) : n \in Pending(t) \/ Expired(s.copies[n])
    BY <2>2, <2>6
  <2> QED BY <2>1, <2>7, <2>9, <2>10, <2>11, <2>12 DEF RowOnce
<1> QED BY <1>1, <1>2

\* A row in order with the records and the subscriptions of another.
KeepsOnce(s, t) ==
    /\ RowOnce(t) /\ Carries(s, t)
    /\ t.records = s.records /\ t.subscriptions = s.subscriptions

LEMMA KeepsOrderly ==
    ASSUME NEW s, NEW t, KeepsOnce(s, t)
    PROVE  Orderly(s, t)
BY DEF KeepsOnce, Orderly

LEMMA KeepsTaken ==
    ASSUME NEW s, NEW t, KeepsOnce(s, t)
    PROVE  \A b : Taken(t, b) = Taken(s, b)
BY DEF KeepsOnce, Taken

LEMMA KeepsOn ==
    ASSUME NEW s, NEW t, NEW u, KeepsOnce(s, t), KeepsOnce(t, u)
    PROVE  KeepsOnce(s, u)
BY CarriesOn DEF KeepsOnce

LEMMA SameKeeps ==
    ASSUME NEW s, RowOnce(s), NEW t, t.copies = s.copies, t.records = s.records,
           t.subscriptions = s.subscriptions, Live(t) <=> Live(s)
    PROVE  KeepsOnce(s, t)
BY SameOnce DEF KeepsOnce, Carries

\* accept takes an identity that is held for accepted.
LEMMA AcceptOnce ==
    ASSUME NEW s, RowInv(s), RowOnce(s), now \in Nat, NEW c, Pushable(s, c), c.cloud
    PROVE  KeepsOnce(s, Accept(s, c))
<1>1. s \in RowType /\ RowCore(s)
  BY DEF RowInv, RowCore
<1>2. CASE Held(s, c.event) # {}
  BY <1>2, SameKeeps DEF Accept
<1>3. CASE Held(s, c.event) = {}
  <2>1. PICK w : w = Min({s.wake, now})
    OBVIOUS
  <2>2. w \in Nat
    BY <1>1, <2>1, MinNow DEF RowType
  <2>3. PICK u : u = IF Wanted(s, c) THEN [s EXCEPT !.wake = w] ELSE s
    OBVIOUS
  <2>4. RowInv(u) /\ SameMail(s, u) /\ u.state = s.state /\ u.awaits = s.awaits /\ u.subscriptions = s.subscriptions
    BY <2>2, <2>3, WakeRow DEF SameMail, Unmoved
  <2>5. Accept(s, c) = Push(u, c)
    BY <1>3, <2>1, <2>3 DEF Accept
  <2>6. KeepsOnce(s, u)
    BY <2>4, SameKeeps DEF SameMail, Live
  <2>7. Pushable(u, c) /\ Held(u, c.event) = {}
    BY <2>4, <1>3 DEF Pushable, SameMail, Held
  <2>8. KeepsOnce(u, Push(u, c))
    BY <2>4, <2>6, <2>7, PushOnce DEF KeepsOnce, RowInv
  <2> QED BY <2>5, <2>6, <2>8, KeepsOn
<1> QED BY <1>2, <1>3

LEMMA NotifyOnce ==
    ASSUME NEW s, RowInv(s), RowOnce(s), now \in Nat, NEW y \in {Done, Waits}
    PROVE  KeepsOnce(s, Notify(s, y))
<1>1. PICK c : c = [event |-> None, type |-> y, cloud |-> FALSE, delivered |-> FALSE,
                    expires |-> Never, key |-> None]
  OBVIOUS
<1>2. CASE ~Live(s) \/ s.awaits[y] = None \/ s.pending[y].copies > 0
  BY <1>2, SameKeeps DEF Notify
<1>3. CASE ~(~Live(s) \/ s.awaits[y] = None \/ s.pending[y].copies > 0)
  <2>1. c \in CopyType /\ c.key = None /\ ~c.cloud /\ c.event = None /\ c.type = y
    BY <1>1, NoticeTypes DEF CopyType
  <2>2. s.pending[y].copies = 0
    <3>1. y \in Type
      BY NoticeTypes
    <3>2. s.pending[y] = [copies |-> Cardinality(PendingOf(s, y)), cloud |-> Cardinality(CloudOf(s, y))]
      BY <3>1 DEF RowInv, RowCore, Counted
    <3>3. PendingOf(s, y) \in SUBSET Pending(s)
      BY DEF PendingOf
    <3>4. Cardinality(PendingOf(s, y)) \in Nat
      BY <3>3, PendingFinite DEF RowInv, RowCore
    <3>5. s.pending[y].copies = Cardinality(PendingOf(s, y))
      BY <3>2
    <3> QED BY <3>4, <3>5, <1>3
  <2>3. PICK u : u = IF Wakes(s, y, FALSE) THEN [s EXCEPT !.wake = now] ELSE s
    OBVIOUS
  <2>4. RowInv(u) /\ SameMail(s, u) /\ u.state = s.state /\ u.awaits = s.awaits /\ u.subscriptions = s.subscriptions
    BY <2>3, WakeRow DEF SameMail, Unmoved
  <2>5. Notify(s, y) = Push(u, c)
    BY <1>1, <1>3, <2>3 DEF Notify
  <2>6. KeepsOnce(s, u)
    BY <2>4, SameKeeps DEF SameMail, Live
  <2>7. Pushable(u, c)
    BY <2>1, <2>2, <2>4, <1>3 DEF Pushable, SameMail
  <2>8. KeepsOnce(u, Push(u, c))
    BY <2>1, <2>4, <2>6, <2>7, PushOnce DEF KeepsOnce, RowInv
  <2> QED BY <2>5, <2>6, <2>8, KeepsOn
<1> QED BY <1>2, <1>3

LEMMA LifecycleOnce ==
    ASSUME NEW s, RowOK(s), RowOnce(s), now \in Nat, NEW y \in {Done, Waits}
    PROVE  KeepsOnce(s, Lifecycle(s, y))
<1>1. CASE y = Waits
  BY <1>1, NotifyOnce DEF Lifecycle, RowOK
<1>2. CASE y # Waits /\ \E n \in DOMAIN s.copies : s.copies[n].type = Done
  BY <1>2, SameKeeps DEF Lifecycle
<1>3. CASE y # Waits /\ ~(\E n \in DOMAIN s.copies : s.copies[n].type = Done)
  <2>1. PICK u : u = Close(s, {Waits})
    OBVIOUS
  <2>2. RowOK(u) /\ SameMail(s, u) /\ u.state = s.state /\ u.subscriptions = s.subscriptions
    BY <2>1, CloseOK, CloseFields DEF RowOK, RowInv, RowCore
  <2>3. KeepsOnce(s, u)
    BY <2>2, SameKeeps DEF SameMail, Live
  <2>4. KeepsOnce(u, Notify(u, Done))
    BY <2>2, <2>3, NotifyOnce DEF RowOK, KeepsOnce
  <2>5. Lifecycle(s, y) = Notify(u, Done)
    BY <1>3, <2>1 DEF Lifecycle
  <2> QED BY <2>3, <2>4, <2>5, KeepsOn
<1> QED BY <1>1, <1>2, <1>3

-----------------------------------------------------------------------------
(* Steps.                                                                  *)

LEMMA OfOnce ==
    ASSUME Inv, OnceInv, NEW r \in Run
    PROVE  /\ RowOnce(row[r]) /\ BranchOnce(row[r], exec[r])
           /\ now \in Nat /\ now < Never /\ Never \in Nat
           /\ RowOK(row[r]) /\ RowInv(row[r]) /\ RowCore(row[r]) /\ row[r] \in RowType
           /\ row = [x \in Run |-> row[x]] /\ exec = [x \in Run |-> exec[x]]
           /\ exec[r] \in [Branch(r) -> Pc]
<1>1. now \in Nat /\ now <= MaxTime
  BY DEF Inv, OnceInv
<1>2. now < Never /\ Never \in Nat
  BY <1>1, ProgramAssumption DEF Never
<1> QED BY <1>1, <1>2, OfInv DEF OnceInv

LEMMA BranchStaysOnce ==
    ASSUME NEW s, NEW t, Carries(s, t), \A b : Taken(t, b) = Taken(s, b), NEW a, BranchOnce(s, a)
    PROVE  BranchOnce(t, a)
BY DEF BranchOnce, Carries

\* What a delivery may add to the index, that the run holds now, and to the
\* history, that had no recipient.
Entries(r, t, D, F) ==
    /\ D \subseteq Event \X {r} /\ F \subseteq D
    /\ \A x \in D : Held(t, x[1]) # {}
    /\ \A x \in F, y \in offered : x[1] # y[1]

LEMMA NoEntries ==
    ASSUME NEW r, NEW t
    PROVE  Entries(r, t, {}, {})
BY DEF Entries

\* A step of one run.
LEMMA OneRunOnce ==
    ASSUME Inv, OnceInv, now' = now, NEW r \in Run, NEW t, NEW a,
           row' = [row EXCEPT ![r] = t], exec' = [exec EXCEPT ![r] = a],
           RowOnce(t), Live(t) => Carries(row[r], t), Orderly(row[r], t), BranchOnce(t, a),
           NEW D, NEW F, Entries(r, t, D, F), index' = index \cup D, offered' = offered \cup F
    PROVE  Kept
<1>0. /\ D \subseteq Event \X {r} /\ F \subseteq D
      /\ \A x \in D : Held(t, x[1]) # {}
      /\ \A x \in F, y \in offered : x[1] # y[1]
  BY DEF Entries
<1>1. row = [x \in Run |-> row[x]] /\ exec = [x \in Run |-> exec[x]]
  BY OfOnce
<1>2. \A x \in Run : row'[x] = (IF x = r THEN t ELSE row[x]) /\ exec'[x] = (IF x = r THEN a ELSE exec[x])
  BY <1>1
<1>3. ASSUME NEW x \in Run PROVE RowOnce(row'[x]) /\ BranchOnce(row'[x], exec'[x])
  BY <1>2 DEF OnceInv
<1>4. index' \subseteq Event \X Run /\ offered' \subseteq index'
  BY <1>0 DEF OnceInv, IndexOnce
<1>5. ASSUME NEW x \in offered', NEW y \in offered', x[1] = y[1] PROVE x = y
  <2>1. CASE x \in offered /\ y \in offered
    BY <2>1, <1>5 DEF OnceInv, IndexOnce
  <2>2. CASE x \in F /\ y \in F
    <3>1. x \in Event \X {r} /\ y \in Event \X {r}
      BY <2>2, <1>0
    <3> QED BY <3>1, <1>5
  <2>3. CASE (x \in F /\ y \in offered) \/ (x \in offered /\ y \in F)
    BY <2>3, <1>0, <1>5
  <2> QED BY <2>1, <2>2, <2>3
<1>6. ASSUME NEW x \in index', Live(row'[x[2]]) PROVE Held(row'[x[2]], x[1]) # {}
  <2>0. x[2] \in Run
    BY <1>4
  <2>1. CASE x \in D
    <3>1. x[2] = r
      BY <2>1, <1>0
    <3> QED BY <2>1, <3>1, <1>0, <1>2
  <2>2. CASE x \in index /\ x[2] = r
    <3>1. row'[x[2]] = t
      BY <2>0, <2>2, <1>2
    <3>2. Carries(row[r], t) /\ Live(row[r])
      BY <3>1, <1>6 DEF Carries
    <3>3. Held(row[r], x[1]) # {}
      BY <3>2, <2>2 DEF OnceInv, IndexOnce
    <3> QED BY <3>1, <3>2, <3>3, CarriesHeld
  <2>3. CASE x \in index /\ x[2] # r
    <3>1. row'[x[2]] = row[x[2]]
      BY <2>0, <2>3, <1>2
    <3> QED BY <3>1, <2>3, <1>6 DEF OnceInv, IndexOnce
  <2> QED BY <2>1, <2>2, <2>3
<1>7. \A x \in Run : RowOnce(row[x])' /\ BranchOnce(row[x], exec[x])'
  BY <1>3 DEF RowOnce, OneCopy, OneRecord, KeysBehind, BranchOnce, Taken, Live
<1>8. IndexOnce'
  BY <1>4, <1>5, <1>6 DEF IndexOnce, Live, Held
<1>9. (now <= MaxTime)'
  BY DEF OnceInv
<1>10. \A x \in Run : Orderly(row[x], row'[x])
  BY <1>2 DEF Orderly
<1>11. TakesInOrder /\ KeepsOpen
  BY <1>10 DEF Orderly, TakesInOrder, KeepsOpen, Live
<1> QED BY <1>7, <1>8, <1>9, <1>11 DEF OnceInv, Kept

\* One that no delivery makes.
LEMMA QuietOnce ==
    ASSUME Inv, OnceInv, now' = now, NEW r \in Run, NEW t, NEW a,
           row' = [row EXCEPT ![r] = t], exec' = [exec EXCEPT ![r] = a],
           index' = index, offered' = offered,
           RowOnce(t), Live(t) => Carries(row[r], t), Orderly(row[r], t), BranchOnce(t, a)
    PROVE  Kept
<1>1. Entries(r, t, {}, {}) /\ index' = index \cup {} /\ offered' = offered \cup {}
  BY NoEntries
<1> QED BY <1>1, OneRunOnce

\* A step of branch b.
LEMMA StepOnce ==
    ASSUME Inv, OnceInv, NEW r \in Run, NEW b \in Branch(r), NEW pcs, NEW t, NEW pc,
           Step(r, b, pcs, t, pc), RowOnce(t), Carries(row[r], t), Orderly(row[r], t),
           \A x \in Listen \cup {"join"} : x # b => Taken(t, x) = Taken(row[r], x),
           b = "join" /\ pc \in {"register", "take"} => Taken(t, "join") = 0,
           b \in Listen /\ pc = "leave" => Taken(t, b) = Takes[b] \/ now >= Deadline[b]
    PROVE  Kept
<1> DEFINE a == [exec[r] EXCEPT ![b] = pc]
<1>1. BranchOnce(row[r], exec[r]) /\ exec[r] \in [Branch(r) -> Pc] /\ exec = [x \in Run |-> exec[x]]
  BY OfOnce
<1>2. /\ row' = [row EXCEPT ![r] = t] /\ exec' = [exec EXCEPT ![r] = a] /\ now' = now
      /\ index' = index /\ offered' = offered
  BY <1>1 DEF Step
<1>3. DOMAIN a = DOMAIN exec[r] /\ \A x \in Branch(r) : a[x] = IF x = b THEN pc ELSE exec[r][x]
  BY <1>1
<1>4. \A l \in Listen : l \in Branch(r)
  BY ListenBranch
<1>5. DOMAIN exec[r] = Branch(r)
  BY <1>1
<1> HIDE DEF a
<1>6. BranchOnce(t, a)
  <2>1. Live(t)
    BY StepIs DEF Carries, Live
  <2> QED BY <2>1, <1>1, <1>3, <1>4, <1>5 DEF BranchOnce
<1> QED BY <1>2, <1>6, QuietOnce

\* One that leaves the copies and the records alone.
LEMMA PlainOnce ==
    ASSUME Inv, OnceInv, NEW r \in Run, NEW b \in Branch(r), NEW pcs, NEW t, NEW pc,
           Step(r, b, pcs, t, pc), t.state = row[r].state,
           t.copies = row[r].copies, t.records = row[r].records,
           \A l \in row[r].subscriptions \ t.subscriptions :
              Taken(row[r], l) = Takes[l] \/ now >= Deadline[l],
           b = "join" /\ pc \in {"register", "take"} => Taken(row[r], "join") = 0,
           b \in Listen /\ pc = "leave" => Taken(row[r], b) = Takes[b] \/ now >= Deadline[b]
    PROVE  Kept
<1>1. RowOnce(row[r]) /\ row[r].state = "Running"
  BY OfOnce, StepIs
<1>2. RowOnce(t) /\ \A x : Taken(t, x) = Taken(row[r], x)
  BY <1>1, SameOnce
<1>3. Carries(row[r], t) /\ Orderly(row[r], t)
  BY <1>1 DEF Carries, Orderly, Live
<1> QED BY <1>2, <1>3, StepOnce

-----------------------------------------------------------------------------
(* The owner's steps.                                                      *)

LEMMA RegisterOnce ==
    ASSUME Inv, OnceInv, NEW r \in Run, NEW l \in Listen, Register(r, l)
    PROVE  Kept
<1>1. row[r] \in RowType /\ now \in Nat
  BY OfOnce
<1>2. PICK t : t = Registering(row[r], Typed(l))
  OBVIOUS
<1>3. SameMail(row[r], t) /\ t.state = row[r].state /\ t.subscriptions = row[r].subscriptions
  BY <1>1, <1>2, TypedTypes, RegisteringFields
<1>4. Step(r, l, {"start"}, t, "subscribe")
  BY <1>2 DEF Register
<1> QED BY <1>3, <1>4, ListenBranch, PlainOnce DEF SameMail

LEMMA SubscribeOnce ==
    ASSUME Inv, OnceInv, NEW r \in Run, NEW l \in Listen, Subscribe(r, l)
    PROVE  Kept
<1>1. row[r] \in RowType
  BY OfOnce
<1>2. PICK t : t = [row[r] EXCEPT !.subscriptions = @ \cup {l}]
  OBVIOUS
<1>3. t.state = row[r].state /\ row[r].subscriptions \subseteq t.subscriptions /\ t.copies = row[r].copies /\ t.records = row[r].records
  BY <1>1, <1>2 DEF RowType
<1>4. Step(r, l, {"subscribe"}, t, "describe")
  BY <1>2 DEF Subscribe
<1> QED BY <1>3, <1>4, ListenBranch, PlainOnce

LEMMA DescribeOnce ==
    ASSUME Inv, OnceInv, NEW r \in Run, NEW l \in Listen, Describe(r, l)
    PROVE  Kept
<1>1. row[r] \in RowType
  BY OfOnce
<1>2. PICK w : w = {x \in row[r].waits : x.at # l} \cup {Position(row[r], l)}
  OBVIOUS
<1>3. PICK t : t = [row[r] EXCEPT !.waits = w]
  OBVIOUS
<1>4. t.state = row[r].state /\ t.subscriptions = row[r].subscriptions /\ t.copies = row[r].copies /\ t.records = row[r].records
  BY <1>1, <1>3 DEF RowType
<1>5. Step(r, l, {"describe"}, t, "take")
  BY <1>2, <1>3 DEF Describe
<1>6. l # "join"
  BY ProgramAssumption
<1> QED BY <1>4, <1>5, <1>6, ListenBranch, PlainOnce

LEMMA UnregisterOnce ==
    ASSUME Inv, OnceInv, NEW r \in Run, NEW l \in Listen, Unregister(r, l)
    PROVE  Kept
<1>1. row[r] \in RowType
  BY OfOnce
<1>2. PICK d : d = row[r].listeners \ {Position(row[r], l)}
  OBVIOUS
<1>3. PICK v : v = [row[r] EXCEPT !.listeners = d]
  OBVIOUS
<1>4. v \in RowType /\ v.state = row[r].state /\ v.subscriptions = row[r].subscriptions /\ v.copies = row[r].copies /\ v.records = row[r].records
  BY <1>1, <1>2, <1>3 DEF RowType
<1>5. PICK t : t = Close(v, Typed(l))
  OBVIOUS
<1>6. t.state = row[r].state /\ t.subscriptions = row[r].subscriptions /\ t.copies = row[r].copies /\ t.records = row[r].records
  BY <1>4, <1>5, CloseFields DEF SameMail
<1>7. Step(r, l, {"take"}, t, "leave") /\ now >= Deadline[l]
  BY <1>2, <1>3, <1>5 DEF Unregister
<1> QED BY <1>6, <1>7, ListenBranch, PlainOnce

LEMMA UnsubscribeOnce ==
    ASSUME Inv, OnceInv, NEW r \in Run, NEW l \in Listen, Unsubscribe(r, l)
    PROVE  Kept
<1>1. row[r] \in RowType
  BY OfOnce
<1>2. PICK w : w = {x \in row[r].waits : x.at # l}
  OBVIOUS
<1>3. PICK t : t = [row[r] EXCEPT !.subscriptions = @ \ {l}, !.waits = w]
  OBVIOUS
<1>4. t.state = row[r].state /\ t.subscriptions = row[r].subscriptions \ {l} /\ t.copies = row[r].copies /\ t.records = row[r].records
  BY <1>1, <1>3 DEF RowType
<1>5. Step(r, l, {"start", "leave"}, t, "save")
  BY <1>2, <1>3 DEF Unsubscribe
<1>6. Taken(row[r], l) = Takes[l] \/ now >= Deadline[l]
  <2>1. exec[r][l] \in {"start", "leave"} /\ (exec[r][l] = "start" => Taken(row[r], l) = Takes[l])
    BY <1>5, StepIs DEF Unsubscribe
  <2>2. exec[r][l] = "leave" => Taken(row[r], l) = Takes[l] \/ now >= Deadline[l]
    BY OfOnce DEF BranchOnce
  <2> QED BY <2>1, <2>2
<1> QED BY <1>4, <1>5, <1>6, ListenBranch, PlainOnce

LEMMA SaveOnce ==
    ASSUME Inv, OnceInv, NEW r \in Run, NEW b \in Branch(r), Save(r, b)
    PROVE  Kept
<1>1. row[r] \in RowType
  BY OfOnce
<1>2. PICK t : t = [row[r] EXCEPT !.over = @ \cup {b}]
  OBVIOUS
<1>3. t.state = row[r].state /\ t.subscriptions = row[r].subscriptions /\ t.copies = row[r].copies /\ t.records = row[r].records
  BY <1>1, <1>2 DEF RowType
<1>4. Step(r, b, {"start", "save"}, t, "over")
  BY <1>2 DEF Save
<1> QED BY <1>3, <1>4, PlainOnce

\* The copy that a take consumes: the first in order that is not over, and at a
\* position that no record has.
LEMMA TakenFirst ==
    ASSUME Inv, OnceInv, NEW r \in Run, NEW b \in Branch(r), NEW u, NEW k,
           u = Expire(row[r]), k = KeyOf(row[r], b), Takeable(u, KeyTypes(k)) # {},
           b \notin Listen => exec[r][b] = "take",
           NEW t, t = TakeFirst(u, k, KeyTypes(k))
    PROVE  /\ RowOnce(t) /\ Carries(row[r], t) /\ Orderly(row[r], t)
           /\ Taken(t, b) = Taken(row[r], b) + 1
           /\ \A x \in Listen \cup {"join"} : x # b => Taken(t, x) = Taken(row[r], x)
<1> DEFINE s == row[r]
<1>1. /\ RowInv(s) /\ RowCore(s) /\ now \in Nat /\ now < Never /\ RowOnce(s)
      /\ BranchOnce(s, exec[r]) /\ exec[r] \in [Branch(r) -> Pc]
  BY OfOnce
<1>2. /\ RowInv(u) /\ u \in RowType /\ RowCore(u) /\ Frame(s, u)
      /\ \A x \in Listen \cup {"join"} : Taken(u, x) = Taken(s, x)
  BY <1>1, ExpireInv DEF RowInv, RowCore
<1>3. /\ RowOnce(u) /\ Carries(s, u)
      /\ \A m \in Pending(u) : ~Expired(u.copies[m])
      /\ \A m \in Pending(s) : m \in Pending(u) \/ Expired(s.copies[m])
      /\ \A x \in u.records \ s.records : x.key.at = "expired"
  BY <1>1, ExpireOnce
<1>4. k \in Place /\ k.at = b /\ b \in Listen \cup {"join"}
  BY <1>1, KeyOfBranch
<1>5. PICK n : n = Min(Takeable(u, KeyTypes(k)))
  OBVIOUS
<1>6. n \in Takeable(u, KeyTypes(k)) /\ \A m \in Takeable(u, KeyTypes(k)) : n <= m
  <2>1. Takeable(u, KeyTypes(k)) \subseteq DOMAIN u.copies
    BY DEF Takeable, Pending
  <2>2. DOMAIN u.copies \subseteq Nat
    BY <1>2, PendingFinite
  <2> QED BY <1>5, <2>1, <2>2, MinOf
<1>7. n \in Pending(u)
  BY <1>6 DEF Takeable
<1>8. PICK keys : keys = [m \in {n} |-> k]
  OBVIOUS
<1>9. KeysFor(u, keys) /\ DOMAIN keys = {n} /\ keys[n] = k
  BY <1>4, <1>7, <1>8 DEF KeysFor
<1>10. PICK c : c = Consume(u, keys)
  OBVIOUS
<1>11. Consumed(u, keys, c)
  BY <1>2, <1>9, <1>10, ConsumeFields
<1>12. /\ Taken(c, b) = Taken(u, b) + 1
       /\ \A x : x # b => Taken(c, x) = Taken(u, x)
  BY <1>2, <1>4, <1>7, <1>8, <1>11, TakenMore
<1>13. c.records = u.records \cup {[key |-> k, n |-> n]} /\ c.subscriptions = u.subscriptions
  <2>1. c.records = u.records \cup {[key |-> keys[m], n |-> m] : m \in DOMAIN keys}
    BY <1>11 DEF Consumed
  <2>2. {[key |-> keys[m], n |-> m] : m \in DOMAIN keys} = {[key |-> k, n |-> n]}
    BY <1>9
  <2> QED BY <2>1, <2>2, <1>11 DEF Consumed
<1>14. ASSUME NEW x \in u.records, x.key = k PROVE FALSE
  <2>1. CASE b \in Listen
    <3>1. k.n = Taken(u, b)
      BY <2>1, <1>2 DEF KeyOf, Position
    <3>2. x.key.n < Taken(u, b)
      BY <2>1, <1>3, <1>4, <1>14 DEF RowOnce, KeysBehind
    <3>3. Taken(u, b) \in Nat
      BY <1>2, TakenNat
    <3> QED BY <3>1, <3>2, <3>3, <1>14
  <2>2. CASE b \notin Listen
    <3> DEFINE A == {y \in u.records : y.key.at = "join"}
    <3>1. b = "join" /\ exec[r]["join"] = "take"
      BY <2>2, <1>4
    <3>2. Taken(u, "join") = 0
      BY <3>1, <1>1, <1>2 DEF BranchOnce
    <3>3. IsFiniteSet(A)
      <4>1. IsFiniteSet(u.records) /\ A \subseteq u.records
        BY <1>2 DEF RowCore, RecordsAreSound
      <4> HIDE DEF A
      <4> QED BY <4>1, FS_Subset
    <3>4. Cardinality(A) = 0
      BY <3>2 DEF Taken
    <3>5. x \in A
      BY <3>1, <1>4, <1>14
    <3> HIDE DEF A
    <3> QED BY <3>3, <3>4, <3>5, FS_EmptySet
  <2> QED BY <2>1, <2>2
<1>15. NewKeys(u, keys)
  BY <1>9, <1>14 DEF NewKeys
<1>16. OneCopy(c) /\ OneRecord(c) /\ Carries(u, c)
  BY <1>2, <1>3, <1>9, <1>11, <1>15, ConsumeOnce
<1>17. KeysBehind(c)
  <2> SUFFICES ASSUME NEW x \in c.records
               PROVE  /\ x.key.at \in Listen => x.key.n < Taken(c, x.key.at)
                      /\ x.key.at = "expired" => x.key.n = x.n
    BY DEF KeysBehind
  <2>1. \A y : Taken(u, y) \in Nat
    BY <1>2, TakenNat
  <2>2. CASE x \in u.records
    <3>1. /\ x.key.at \in Listen => x.key.n < Taken(u, x.key.at)
          /\ x.key.at = "expired" => x.key.n = x.n
      BY <2>2, <1>3 DEF RowOnce, KeysBehind
    <3>2. CASE x.key.at = b /\ b \in Listen
      <4>1. x.key.n \in Nat
        BY <2>2, <1>2 DEF RowType, Place
      <4> QED BY <3>1, <3>2, <4>1, <2>1, <1>12, ProgramAssumption
    <3>3. CASE x.key.at # b \/ b \notin Listen
      BY <3>1, <3>3, <1>4, <1>12, ProgramAssumption
    <3> QED BY <3>2, <3>3
  <2>3. CASE x = [key |-> k, n |-> n]
    <3>1. x.key = k /\ b # "expired"
      BY <2>3, <1>4, ProgramAssumption
    <3>2. CASE b \in Listen
      <4>1. k.n = Taken(u, b)
        BY <3>2, <1>2 DEF KeyOf, Position
      <4>2. Taken(u, b) < Taken(c, b)
        BY <2>1, <1>12
      <4> QED BY <3>1, <4>1, <4>2, <1>4
    <3>3. CASE b \notin Listen
      BY <3>1, <3>3, <1>4
    <3> QED BY <3>2, <3>3
  <2> QED BY <2>2, <2>3, <1>13
<1>18. PICK gone : gone = {k} \cup (IF u.copies[n].type = Done THEN {ChildKey} ELSE {})
  OBVIOUS
<1>19. PICK v : v = [c EXCEPT !.listeners = @ \ gone, !.waits = @ \ {k}]
  OBVIOUS
<1>20. /\ v \in RowType /\ v.copies = c.copies /\ v.records = c.records /\ v.state = c.state
       /\ v.subscriptions = c.subscriptions
  BY <1>11, <1>19 DEF RowType, Consumed
<1>21. t = Close(v, KeyTypes(k))
  BY <1>5, <1>8, <1>10, <1>18, <1>19 DEF TakeFirst
<1>22. /\ t.copies = c.copies /\ t.records = c.records /\ t.state = c.state
       /\ t.subscriptions = c.subscriptions
  BY <1>20, <1>21, CloseFields DEF SameMail
<1>23. RowOnce(c)
  BY <1>16, <1>17 DEF RowOnce
<1>24. KeepsOnce(c, t)
  BY <1>22, <1>23, SameKeeps DEF Live
<1>25. \A x : Taken(t, x) = Taken(c, x)
  BY <1>24, KeepsTaken
<1>26. Carries(s, t)
  BY <1>3, <1>16, <1>24, CarriesOn DEF KeepsOnce
<1>27. t.subscriptions = s.subscriptions
  BY <1>2, <1>13, <1>22 DEF Frame
<1>28. ASSUME NEW x \in t.records \ s.records, x.key.at # "expired"
       PROVE  /\ ~Expired(s.copies[x.n])
              /\ \A m \in Takeable(s, KeyTypes(x.key)) : m < x.n => Expired(s.copies[m])
  <2>1. x = [key |-> k, n |-> n]
    BY <1>3, <1>13, <1>22, <1>28
  <2>2. x.key = k /\ x.n = n
    BY <2>1
  <2>3. Pending(u) \subseteq Pending(s) /\ \A m \in Pending(u) : u.copies[m] = s.copies[m]
    BY <1>1, ExpireInv
  <2>4. ASSUME NEW m \in Takeable(s, KeyTypes(k)), m < n, ~Expired(s.copies[m]) PROVE FALSE
    <3>1. m \in Pending(s)
      BY DEF Takeable
    <3>2. m \in Pending(u)
      BY <3>1, <2>4, <1>3
    <3>3. m \in Takeable(u, KeyTypes(k))
      BY <3>2, <2>3 DEF Takeable
    <3>4. Pending(u) \subseteq Nat
      <4>1. DOMAIN u.copies \subseteq Nat
        BY <1>2, PendingFinite
      <4> QED BY <4>1 DEF Pending
    <3> QED BY <3>2, <3>3, <3>4, <2>4, <1>6, <1>7
  <2> QED BY <2>2, <2>3, <2>4, <1>3, <1>7
<1>29. Orderly(s, t)
  BY <1>27, <1>28 DEF Orderly
<1> QED BY <1>2, <1>4, <1>12, <1>24, <1>25, <1>26, <1>29 DEF KeepsOnce

\* What a take does: it parks, or consumes the first copy.
LEMMA TakeIs ==
    ASSUME Inv, NEW r \in Run, NEW b \in Branch(r), Take(r, b)
    PROVE  LET u == Expire(row[r])
               k == KeyOf(row[r], b)
           IN  /\ b \notin Listen => exec[r][b] = "take"
               /\ \/ \E pcs : Step(r, b, pcs, [u EXCEPT !.listeners = @ \cup {k}], "parked")
                  \/ /\ Takeable(u, KeyTypes(k)) # {}
                     /\ \E pcs, pc :
                           /\ Step(r, b, pcs, TakeFirst(u, k, KeyTypes(k)), pc)
                           /\ pc \in {"save", "leave", "describe"}
                           /\ b \in Listen /\ pc = "leave" => Taken(row[r], b) + 1 = Takes[b]
<1>1. PICK u : u = Expire(row[r])
  OBVIOUS
<1>2. PICK k : k = KeyOf(row[r], b)
  OBVIOUS
<1>3. PICK pcs : pcs = IF b \in Listen THEN {"take", "parked"} ELSE {"take"}
  OBVIOUS
<1>4. PICK pc : pc = CASE b \notin Listen -> "save" [] Taken(row[r], b) + 1 = Needed(b) -> "leave"
                       [] OTHER -> "describe"
  OBVIOUS
<1>5. IF Takeable(u, KeyTypes(k)) = {}
      THEN Step(r, b, pcs, [u EXCEPT !.listeners = @ \cup {k}], "parked")
      ELSE Step(r, b, pcs, TakeFirst(u, k, KeyTypes(k)), pc)
  BY <1>1, <1>2, <1>3, <1>4 DEF Take, KeyOf
<1>6. /\ pc \in {"save", "leave", "describe"}
      /\ b \in Listen /\ pc = "leave" => Taken(row[r], b) + 1 = Takes[b]
  BY <1>4 DEF Needed
<1>7. exec[r][b] \in pcs
  BY <1>5, StepIs
<1> QED BY <1>1, <1>2, <1>3, <1>5, <1>6, <1>7

LEMMA TakeOnce ==
    ASSUME Inv, OnceInv, NEW r \in Run, NEW b \in Branch(r), Take(r, b)
    PROVE  Kept
<1>1. PICK u : u = Expire(row[r])
  OBVIOUS
<1>2. PICK k : k = KeyOf(row[r], b)
  OBVIOUS
<1>3. b \notin Listen => exec[r][b] = "take"
  BY TakeIs
<1>4. CASE \E pcs : Step(r, b, pcs, [u EXCEPT !.listeners = @ \cup {k}], "parked")
  <2>1. RowInv(row[r]) /\ RowOnce(row[r]) /\ now \in Nat /\ now < Never
    BY OfOnce
  <2>2. /\ RowOnce(u) /\ Carries(row[r], u)
        /\ \A x \in u.records \ row[r].records : x.key.at = "expired"
    BY <2>1, <1>1, ExpireOnce
  <2>3. /\ u \in RowType /\ u.subscriptions = row[r].subscriptions
        /\ \A x \in Listen \cup {"join"} : Taken(u, x) = Taken(row[r], x)
    BY <2>1, <1>1, ExpireInv DEF RowInv, RowCore, Frame
  <2>4. PICK d : d = u.listeners \cup {k}
    OBVIOUS
  <2>5. PICK t : t = [u EXCEPT !.listeners = d]
    OBVIOUS
  <2>6. /\ t.copies = u.copies /\ t.records = u.records /\ t.state = u.state
        /\ t.subscriptions = u.subscriptions
    BY <2>3, <2>5 DEF RowType
  <2>7. KeepsOnce(u, t)
    BY <2>2, <2>6, SameKeeps DEF Live
  <2>8. \A x \in Listen \cup {"join"} : Taken(t, x) = Taken(row[r], x)
    BY <2>3, <2>7, KeepsTaken
  <2>9. Carries(row[r], t)
    BY <2>2, <2>7, CarriesOn DEF KeepsOnce
  <2>10. PICK pcs : Step(r, b, pcs, t, "parked")
    BY <1>4, <2>4, <2>5
  <2>11. Orderly(row[r], t)
    BY <2>2, <2>3, <2>6 DEF Orderly
  <2> QED BY <2>7, <2>8, <2>9, <2>10, <2>11, StepOnce DEF KeepsOnce
<1>5. CASE /\ Takeable(u, KeyTypes(k)) # {}
           /\ \E pcs, pc :
                 /\ Step(r, b, pcs, TakeFirst(u, k, KeyTypes(k)), pc)
                 /\ pc \in {"save", "leave", "describe"}
                 /\ b \in Listen /\ pc = "leave" => Taken(row[r], b) + 1 = Takes[b]
  <2>1. PICK t : t = TakeFirst(u, k, KeyTypes(k))
    OBVIOUS
  <2>2. PICK pcs, pc : /\ Step(r, b, pcs, t, pc)
                       /\ pc \in {"save", "leave", "describe"}
                       /\ b \in Listen /\ pc = "leave" => Taken(row[r], b) + 1 = Takes[b]
    BY <1>5, <2>1
  <2>3. /\ RowOnce(t) /\ Carries(row[r], t) /\ Orderly(row[r], t)
        /\ Taken(t, b) = Taken(row[r], b) + 1
        /\ \A x \in Listen \cup {"join"} : x # b => Taken(t, x) = Taken(row[r], x)
    BY <1>1, <1>2, <1>3, <1>5, <2>1, TakenFirst
  <2> QED BY <2>2, <2>3, StepOnce
<1> QED BY <1>1, <1>2, <1>4, <1>5, TakeIs

LEMMA RegisterJoinOnce ==
    ASSUME Inv, OnceInv, NEW r \in Run, RegisterJoin(r)
    PROVE  Kept
<1>1. row[r] \in RowType /\ now \in Nat /\ BranchOnce(row[r], exec[r]) /\ exec[r] \in [Branch(r) -> Pc]
  BY OfOnce
<1>2. PICK t : t = Registering(row[r], {Done})
  OBVIOUS
<1>3. SameMail(row[r], t) /\ t.state = row[r].state /\ t.subscriptions = row[r].subscriptions
  <2>1. {Done} \in SUBSET Type
    BY NoticeTypes
  <2> QED BY <1>1, <1>2, <2>1, RegisteringFields
<1>4. r \in Parent /\ Step(r, "join", {"register"}, t, "take")
  BY <1>2 DEF RegisterJoin
<1>5. "join" \in Branch(r) /\ "join" \notin Listen
  BY <1>4, JoinBranch
<1>6. Taken(row[r], "join") = 0
  <2>1. exec[r]["join"] = "register"
    BY <1>4, StepIs
  <2> QED BY <2>1, <1>1, <1>5 DEF BranchOnce
<1> QED BY <1>3, <1>4, <1>5, <1>6, PlainOnce DEF SameMail

LEMMA StartChildOnce ==
    ASSUME Inv, OnceInv, NEW r \in Run, StartChild(r)
    PROVE  Kept
<1> DEFINE s == row[r]
           a == [y \in Type |-> IF y \in {Done, Waits} /\ s.awaits[y] = None THEN now ELSE s.awaits[y]]
           d == s.listeners \cup {ChildKey}
<1>1. s \in RowType /\ RowOK(s) /\ RowOnce(s) /\ now \in Nat
  BY OfOnce
<1>2. /\ a \in [Type -> Nat \cup {None}] /\ d \in SUBSET Place
      /\ \A y \in Type : s.awaits[y] # None => a[y] # None
  <2>1. s.awaits \in [Type -> Nat \cup {None}] /\ s.listeners \in SUBSET Place
    BY <1>1 DEF RowType
  <2>2. ChildKey \in Place
    BY DEF ChildKey, Place
  <2> QED BY <1>1, <2>1, <2>2
<1>3. PICK w : w = [s EXCEPT !.awaits = a, !.listeners = d]
  OBVIOUS
<1>4. PICK t : t = CASE s.child = "none" -> [w EXCEPT !.child = "running"]
                     [] s.child = "waiting" -> Lifecycle(w, Waits)
                     [] s.child = "ended" -> Lifecycle(w, Done)
                     [] OTHER -> w
  OBVIOUS
<1>5. r \in Parent /\ Step(r, "join", {"start"}, t, "register") /\ Taken(s, "join") = 0
  BY <1>3, <1>4 DEF StartChild
<1>6. s.state = "Running"
  BY <1>5, StepIs
<1> HIDE DEF a, d
<1>7. /\ w \in RowType /\ SameMail(s, w) /\ w.state = s.state /\ w.listeners = d
      /\ w.subscriptions = s.subscriptions /\ w.awaits = a
  BY <1>1, <1>2, <1>3 DEF RowType, SameMail
<1>8. RowOK(w)
  BY <1>1, <1>2, <1>6, <1>7, PlainOK DEF d
<1>9. KeepsOnce(s, w)
  BY <1>1, <1>7, SameKeeps DEF SameMail, Live
<1>10. KeepsOnce(w, t)
  <2>1. s.child \in {"none", "running", "waiting", "ended"}
    BY <1>1 DEF RowType
  <2>2. CASE s.child = "none"
    <3>1. t.copies = w.copies /\ t.records = w.records /\ t.state = w.state /\ t.subscriptions = w.subscriptions
      BY <2>2, <1>4, <1>7 DEF RowType
    <3> QED BY <3>1, <1>9, SameKeeps DEF KeepsOnce, Live
  <2>3. CASE s.child \in {"waiting", "ended"}
    <3>1. KeepsOnce(w, Lifecycle(w, Waits)) /\ KeepsOnce(w, Lifecycle(w, Done))
      BY <1>1, <1>8, <1>9, LifecycleOnce DEF KeepsOnce
    <3> QED BY <2>3, <3>1, <1>4
  <2>4. CASE s.child = "running"
    BY <2>4, <1>4, <1>9, SameKeeps DEF KeepsOnce
  <2> QED BY <2>1, <2>2, <2>3, <2>4
<1>11. KeepsOnce(s, t)
  BY <1>9, <1>10, KeepsOn
<1>12. \A x : Taken(t, x) = Taken(s, x)
  BY <1>11, KeepsTaken
<1>13. "join" \in Branch(r) /\ "join" \notin Listen
  BY <1>5, JoinBranch
<1> QED BY <1>5, <1>11, <1>12, <1>13, KeepsOrderly, StepOnce DEF KeepsOnce

\* A run that starts again finds its branches at their start or over.
LEMMA EnteredOnce ==
    ASSUME NEW s, NEW r \in Run, NEW t, Live(t)
    PROVE  BranchOnce(t, Entered(s, r))
<1>1. Entered(s, r) \in [Branch(r) -> {"over", "start"}]
  BY DEF Entered
<1>2. \A l \in Listen : l \in Branch(r)
  BY ListenBranch
<1> QED BY <1>1, <1>2 DEF BranchOnce

LEMMA RestartOnce ==
    ASSUME Inv, OnceInv, NEW r \in Run, FinishWaiting(r) \/ Claim(r)
    PROVE  Kept
<1> DEFINE s == row[r]
<1>1. s \in RowType /\ RowOnce(s)
  BY OfOnce
<1>2. PICK t : /\ row' = [row EXCEPT ![r] = t] /\ t.state \in {"Running", "Waiting"}
               /\ t.copies = s.copies /\ t.records = s.records /\ t.subscriptions = s.subscriptions
  <2>1. CASE FinishWaiting(r)
    <3>1. PICK w : row' = [row EXCEPT ![r] = [s EXCEPT !.state = "Waiting", !.wake = w]]
      BY <2>1 DEF FinishWaiting
    <3>2. PICK t : t = [s EXCEPT !.state = "Waiting", !.wake = w]
      OBVIOUS
    <3>3. t.state = "Waiting" /\ t.copies = s.copies /\ t.records = s.records /\ t.subscriptions = s.subscriptions
      BY <3>2, <1>1 DEF RowType
    <3> QED BY <3>1, <3>2, <3>3
  <2>2. CASE Claim(r)
    <3>1. PICK t : t = [s EXCEPT !.state = "Running"]
      OBVIOUS
    <3>2. t.state = "Running" /\ t.copies = s.copies /\ t.records = s.records /\ t.subscriptions = s.subscriptions
      BY <3>1, <1>1 DEF RowType
    <3>3. row' = [row EXCEPT ![r] = t]
      BY <2>2, <3>1 DEF Claim
    <3> QED BY <3>2, <3>3
  <2> QED BY <2>1, <2>2
<1>3. /\ exec' = [exec EXCEPT ![r] = Entered(s, r)] /\ now' = now
      /\ index' = index /\ offered' = offered
  BY DEF FinishWaiting, Claim
<1>4. Live(s) /\ Live(t)
  BY <1>2 DEF FinishWaiting, Claim, Live
<1>5. KeepsOnce(s, t)
  BY <1>1, <1>2, <1>4, SameKeeps
<1>6. BranchOnce(t, Entered(s, r))
  BY <1>4, EnteredOnce
<1> QED BY <1>2, <1>3, <1>5, <1>6, KeepsOrderly, QuietOnce DEF KeepsOnce

LEMMA OwnerOnce ==
    ASSUME Inv, OnceInv, NEW r \in Run, Owner(r)
    PROVE  Kept
<1>1. CASE \E l \in Listen : Register(r, l) \/ Subscribe(r, l) \/ Describe(r, l)
                             \/ Unregister(r, l) \/ Unsubscribe(r, l)
  BY <1>1, RegisterOnce, SubscribeOnce, DescribeOnce, UnregisterOnce, UnsubscribeOnce
<1>2. CASE StartChild(r) \/ RegisterJoin(r) \/ FinishWaiting(r)
  BY <1>2, StartChildOnce, RegisterJoinOnce, RestartOnce
<1>3. CASE \E b \in Branch(r) : Take(r, b) \/ Save(r, b)
  BY <1>3, TakeOnce, SaveOnce
<1> QED BY <1>1, <1>2, <1>3 DEF Owner

-----------------------------------------------------------------------------
(* The others' steps.                                                      *)

\* A step that no branch of the run sees.
LEMMA UnseenOnce ==
    ASSUME Inv, OnceInv, NEW r \in Run, NEW t, row' = [row EXCEPT ![r] = t], exec' = exec, now' = now,
           KeepsOnce(row[r], t),
           NEW D, NEW F, Entries(r, t, D, F), index' = index \cup D, offered' = offered \cup F
    PROVE  Kept
<1>1. exec = [x \in Run |-> exec[x]] /\ BranchOnce(row[r], exec[r])
  BY OfOnce
<1>2. PICK a : a = exec[r]
  OBVIOUS
<1>3. exec' = [exec EXCEPT ![r] = a]
  BY <1>1, <1>2
<1>4. RowOnce(t) /\ Carries(row[r], t) /\ Orderly(row[r], t) /\ BranchOnce(t, a)
  BY <1>1, <1>2, KeepsTaken, KeepsOrderly, BranchStaysOnce DEF KeepsOnce
<1> QED BY <1>3, <1>4, OneRunOnce

LEMMA UnseenQuietOnce ==
    ASSUME Inv, OnceInv, NEW r \in Run, NEW t, row' = [row EXCEPT ![r] = t], exec' = exec, now' = now,
           index' = index, offered' = offered, KeepsOnce(row[r], t)
    PROVE  Kept
<1>1. Entries(r, t, {}, {}) /\ index' = index \cup {} /\ offered' = offered \cup {}
  BY NoEntries
<1> QED BY <1>1, UnseenOnce

LEMMA SetHoldOnce ==
    ASSUME Inv, OnceInv, NEW r \in Run, SetHold(r)
    PROVE  Kept
<1>1. row[r] \in RowType /\ RowOnce(row[r])
  BY OfOnce
<1>2. PICK t : t = [row[r] EXCEPT !.held = ~@]
  OBVIOUS
<1>3. /\ t.copies = row[r].copies /\ t.records = row[r].records /\ t.state = row[r].state
      /\ t.subscriptions = row[r].subscriptions
  BY <1>1, <1>2 DEF RowType
<1>4. KeepsOnce(row[r], t)
  BY <1>1, <1>3, SameKeeps DEF Live
<1>5. row' = [row EXCEPT ![r] = t] /\ exec' = exec /\ now' = now /\ index' = index /\ offered' = offered
  BY <1>2 DEF SetHold
<1> QED BY <1>4, <1>5, UnseenQuietOnce

LEMMA EndOnce ==
    ASSUME Inv, OnceInv, NEW r \in Run, End(r)
    PROVE  Kept
<1>1. row[r] \in RowType /\ RowOnce(row[r]) /\ exec[r] \in [Branch(r) -> Pc]
  BY OfOnce
<1>2. PICK t : t = Terminated(row[r])
  OBVIOUS
<1>3. t.copies = row[r].copies /\ t.records = row[r].records /\ t.state = "Ended"
  BY <1>1, <1>2 DEF RowType, Terminated
<1>4. RowOnce(t) /\ ~Live(t) /\ Orderly(row[r], t)
  BY <1>1, <1>3, SameOnce DEF Live, Orderly
<1>5. PICK a : a = [b \in DOMAIN exec[r] |-> "over"]
  OBVIOUS
<1>6. BranchOnce(t, a)
  <2>1. DOMAIN a = Branch(r) /\ \A b \in Branch(r) : a[b] = "over"
    BY <1>1, <1>5
  <2>2. \A l \in Listen : l \in Branch(r)
    BY ListenBranch
  <2> QED BY <2>1, <2>2 DEF BranchOnce
<1>7. row' = [row EXCEPT ![r] = t] /\ now' = now /\ index' = index /\ offered' = offered
  BY <1>2 DEF End
<1>8. exec' = [exec EXCEPT ![r] = a]
  BY <1>5 DEF End
<1> QED BY <1>4, <1>6, <1>7, <1>8, QuietOnce

LEMMA ChildOnce ==
    ASSUME Inv, OnceInv, NEW r \in Run, NEW from, NEW to \in {"running", "waiting", "ended"}, NEW u,
           RowOK(u), KeepsOnce(row[r], u), Child(r, from, to, u)
    PROVE  Kept
<1>1. PICK t : t = [u EXCEPT !.child = to]
  OBVIOUS
<1>2. u \in RowType
  BY DEF RowOK, RowInv, RowCore
<1>3. t.copies = u.copies /\ t.records = u.records /\ t.state = u.state /\ t.subscriptions = u.subscriptions
  BY <1>1, <1>2 DEF RowType
<1>4. KeepsOnce(u, t)
  BY <1>3, SameKeeps DEF KeepsOnce, Live
<1>5. row' = [row EXCEPT ![r] = t] /\ exec' = exec /\ now' = now /\ index' = index /\ offered' = offered
  BY <1>1 DEF Child
<1> QED BY <1>4, <1>5, KeepsOn, UnseenQuietOnce

LEMMA ChildStepsOnce ==
    ASSUME Inv, OnceInv, NEW r \in Run, ChildWaits(r) \/ ChildRuns(r) \/ ChildEnds(r)
    PROVE  Kept
<1>1. RowOK(row[r]) /\ RowOnce(row[r]) /\ now \in Nat
  BY OfOnce
<1>2. CASE ChildWaits(r)
  <2>1. PICK u : u = Lifecycle(row[r], Waits)
    OBVIOUS
  <2>2. RowOK(u) /\ KeepsOnce(row[r], u)
    BY <2>1, <1>1, LifecycleOK, LifecycleOnce
  <2>3. Child(r, {"running"}, "waiting", u)
    BY <2>1, <1>2 DEF ChildWaits
  <2> QED BY <2>2, <2>3, ChildOnce
<1>3. CASE ChildRuns(r)
  <2>1. PICK u : u = row[r]
    OBVIOUS
  <2>2. RowOK(u) /\ KeepsOnce(row[r], u)
    BY <2>1, <1>1, SameKeeps
  <2>3. Child(r, {"waiting"}, "running", u)
    BY <2>1, <1>3 DEF ChildRuns
  <2> QED BY <2>2, <2>3, ChildOnce
<1>4. CASE ChildEnds(r)
  <2>1. PICK u : u = Lifecycle(row[r], Done)
    OBVIOUS
  <2>2. RowOK(u) /\ KeepsOnce(row[r], u)
    BY <2>1, <1>1, LifecycleOK, LifecycleOnce
  <2>3. Child(r, {"running", "waiting"}, "ended", u)
    BY <2>1, <1>4 DEF ChildEnds
  <2> QED BY <2>2, <2>3, ChildOnce
<1> QED BY <1>2, <1>3, <1>4

LEMMA AcceptCopyOnce ==
    ASSUME NEW s, RowOK(s), RowOnce(s), now \in Nat, NEW e \in Event, NEW d \in BOOLEAN, NEW x \in Nat
    PROVE  KeepsOnce(s, Accept(s, Copy(e, d, x))) /\ Held(Accept(s, Copy(e, d, x)), e) # {}
<1>1. PICK c : c = Copy(e, d, x)
  OBVIOUS
<1>2. /\ c \in CopyType /\ c.key = None /\ c.cloud /\ c.event \in Event /\ c.event = e
      /\ c.type = TypeOf[c.event]
  BY <1>1, CopyOK
<1>3. Pushable(s, c)
  BY <1>2 DEF Pushable
<1>4. KeepsOnce(s, Accept(s, c))
  BY <1>2, <1>3, AcceptOnce DEF RowOK
<1>5. Held(Accept(s, c), c.event) # {}
  BY <1>2, AcceptHolds
<1> QED BY <1>1, <1>2, <1>4, <1>5

LEMMA DeliverOnce ==
    ASSUME Inv, OnceInv, NEW r \in Run, NEW e \in Event, Deliver(e, r)
    PROVE  Kept
<1>1. RowOK(row[r]) /\ RowOnce(row[r]) /\ now \in Nat
  BY OfOnce
<1>2. PICK t : t = Accept(row[r], Copy(e, TRUE, now + MailboxMs))
  OBVIOUS
<1>3. KeepsOnce(row[r], t) /\ Held(t, e) # {}
  BY <1>1, <1>2, LaterNat, AcceptCopyOnce
<1>4. PICK D : D = IF Held(row[r], e) = {} THEN {<<e, r>>} ELSE {}
  OBVIOUS
<1>5. Entries(r, t, D, {})
  BY <1>3, <1>4 DEF Entries
<1>6. row' = [row EXCEPT ![r] = t] /\ index' = index \cup D
  BY <1>2, <1>4 DEF Deliver, DeliverTo
<1>7. exec' = exec /\ now' = now /\ offered' = offered \cup {}
  BY DEF Deliver
<1> QED BY <1>3, <1>5, <1>6, <1>7, UnseenOnce

\* A delivery without a target finds the run that has the event already, by the
\* index, and otherwise nobody has it.
LEMMA DeliverAnyOnce ==
    ASSUME Inv, OnceInv, NEW e \in Event, DeliverAny(e)
    PROVE  Kept
<1>1. PICK r \in Chosen(e) :
         /\ Live(row[r]) /\ DeliverTo(r, e)
         /\ offered' = IF Held(row[r], e) = {} THEN offered \cup {<<e, r>>} ELSE offered
         /\ exec' = exec /\ now' = now
  BY DEF DeliverAny
<1>2. r \in Run
  BY <1>1 DEF Chosen, Recipients
<1>3. RowOK(row[r]) /\ RowOnce(row[r]) /\ now \in Nat
  BY <1>2, OfOnce
<1>4. PICK t : t = Accept(row[r], Copy(e, TRUE, now + MailboxMs))
  OBVIOUS
<1>5. KeepsOnce(row[r], t) /\ Held(t, e) # {}
  BY <1>3, <1>4, LaterNat, AcceptCopyOnce
<1>6. PICK D : D = IF Held(row[r], e) = {} THEN {<<e, r>>} ELSE {}
  OBVIOUS
<1>7. D \subseteq Event \X {r} /\ \A x \in D : Held(t, x[1]) # {}
  BY <1>2, <1>5, <1>6
<1>8. row' = [row EXCEPT ![r] = t] /\ index' = index \cup D /\ offered' = offered \cup D
  BY <1>1, <1>4, <1>6 DEF DeliverTo
<1>9. ASSUME NEW x \in D, NEW y \in offered, x[1] = y[1] PROVE FALSE
  <2>1. Held(row[r], e) = {} /\ x = <<e, r>>
    BY <1>6, <1>9
  <2>2. <<e, r>> \notin index
    <3> SUFFICES ASSUME <<e, r>> \in index PROVE FALSE
      OBVIOUS
    <3>1. Live(row[<<e, r>>[2]]) => Held(row[<<e, r>>[2]], <<e, r>>[1]) # {}
      BY DEF OnceInv, IndexOnce
    <3>2. <<e, r>>[1] = e /\ <<e, r>>[2] = r
      OBVIOUS
    <3> QED BY <3>1, <3>2, <2>1, <1>1
  <2>3. Recipients(e) = {}
    BY <2>2, <1>1 DEF Chosen, Recipients
  <2>4. y \in Event \X Run /\ y \in index
    BY DEF OnceInv, IndexOnce
  <2>5. y = <<e, y[2]>> /\ y[2] \in Run
    BY <2>1, <2>4, <1>9
  <2> QED BY <2>3, <2>4, <2>5 DEF Recipients
<1>10. Entries(r, t, D, D)
  BY <1>7, <1>9 DEF Entries
<1> QED BY <1>1, <1>2, <1>5, <1>8, <1>10, UnseenOnce

LEMMA PublishToOnce ==
    ASSUME Inv, OnceInv, NEW r \in Run, NEW e \in Event, PublishTo(e, r)
    PROVE  Kept
<1>1. RowOK(row[r]) /\ RowOnce(row[r]) /\ now \in Nat
  BY OfOnce
<1>2. PICK t : t = Accept(row[r], Copy(e, FALSE, now + MailboxMs))
  OBVIOUS
<1>3. KeepsOnce(row[r], t)
  BY <1>1, <1>2, LaterNat, AcceptCopyOnce
<1>4. row' = [row EXCEPT ![r] = t] /\ exec' = exec /\ now' = now /\ index' = index /\ offered' = offered
  BY <1>2 DEF PublishTo
<1> QED BY <1>3, <1>4, UnseenQuietOnce

\* A copy that is published instead of delivered is the same copy.
LEMMA RespondOnce ==
    ASSUME Inv, OnceInv, NEW r \in Run, NEW l \in Listen, NEW e \in Event, Respond(r, l, e)
    PROVE  Kept
<1>1. RowOK(row[r]) /\ RowOnce(row[r]) /\ now \in Nat
  BY OfOnce
<1>2. PICK s : s = Accept(row[r], Copy(e, TRUE, now + MailboxMs))
  OBVIOUS
<1>3. KeepsOnce(row[r], s) /\ Held(s, e) # {} /\ RowOK(s)
  BY <1>1, <1>2, LaterNat, AcceptCopyOnce, AcceptCopyOK
<1>4. PICK n : n = CHOOSE m \in Held(s, e) : TRUE
  OBVIOUS
<1>5. n \in Held(s, e)
  BY <1>3, <1>4
<1>6. PICK u : u = ForWildcard(s, l, n)
  OBVIOUS
<1>7. s \in RowType /\ n \in DOMAIN s.copies
  BY <1>3, <1>5 DEF RowOK, RowInv, RowCore, Held
<1>8. KeepsOnce(s, u) /\ DOMAIN u = DOMAIN s
  <2>1. CASE Star \in Routes[l] /\ s.copies[n].delivered
    <3>1. PICK c : c = [s.copies[n] EXCEPT !.delivered = FALSE]
      OBVIOUS
    <3>2. s.copies[n] \in CopyType
      BY <1>7, CopyIsTyped
    <3>3. c.event = s.copies[n].event /\ c.cloud = s.copies[n].cloud /\ c.key = s.copies[n].key
      BY <3>1, <3>2 DEF CopyType
    <3>4. PICK q : q = [s.copies EXCEPT ![n] = c]
      OBVIOUS
    <3>5. u = [s EXCEPT !.copies = q, !.published = @ + 1, !.wake = Min({@, now})]
      BY <2>1, <3>1, <3>4, <1>6 DEF ForWildcard
    <3>6. /\ u.copies = q /\ u.records = s.records /\ u.state = s.state
          /\ u.subscriptions = s.subscriptions /\ DOMAIN u = DOMAIN s
      BY <3>5, <1>7 DEF RowType
    <3>7. /\ DOMAIN q = DOMAIN s.copies
          /\ \A m \in DOMAIN s.copies :
                /\ q[m].event = s.copies[m].event /\ q[m].cloud = s.copies[m].cloud
                /\ q[m].key = s.copies[m].key
      BY <3>3, <3>4
    <3>8. \A b : Taken(u, b) = Taken(s, b)
      BY <3>6 DEF Taken
    <3>9. RowOnce(s)
      BY <1>3 DEF KeepsOnce
    <3>10. OneCopy(u)
      BY <3>6, <3>7, <3>9 DEF RowOnce, OneCopy
    <3>11. OneRecord(u)
      BY <3>6, <3>7, <3>9 DEF RowOnce, OneRecord
    <3>12. KeysBehind(u)
      BY <3>6, <3>8, <3>9 DEF RowOnce, KeysBehind
    <3>13. Carries(s, u)
      BY <3>6, <3>7 DEF Carries, Live
    <3> QED BY <3>6, <3>10, <3>11, <3>12, <3>13 DEF KeepsOnce, RowOnce
  <2>2. CASE ~(Star \in Routes[l] /\ s.copies[n].delivered)
    <3>1. u = s
      BY <2>2, <1>6 DEF ForWildcard
    <3> QED BY <3>1, <1>3, SameKeeps DEF KeepsOnce
  <2> QED BY <2>1, <2>2
<1>9. PICK t : t = [u EXCEPT !.answered = @ \cup {e}]
  OBVIOUS
<1>10. /\ t.copies = u.copies /\ t.records = u.records /\ t.state = u.state
       /\ t.subscriptions = u.subscriptions
  <2>1. \A x \in {"copies", "records", "state", "subscriptions"} : x \in DOMAIN u
    BY <1>7, <1>8 DEF RowType
  <2> QED BY <2>1, <1>9
<1>11. KeepsOnce(u, t)
  BY <1>8, <1>10, SameKeeps DEF KeepsOnce, Live
<1>12. KeepsOnce(row[r], t) /\ Held(t, e) # {}
  BY <1>3, <1>8, <1>11, KeepsOn, CarriesHeld DEF KeepsOnce
<1>13. PICK D : D = IF Held(row[r], e) = {} THEN {<<e, r>>} ELSE {}
  OBVIOUS
<1>14. Entries(r, t, D, {})
  BY <1>12, <1>13 DEF Entries
<1>15. row' = [row EXCEPT ![r] = t]
  BY <1>2, <1>4, <1>6, <1>9 DEF Respond
<1>16. index' = index \cup D
  BY <1>13 DEF Respond
<1>17. exec' = exec /\ now' = now /\ offered' = offered \cup {}
  BY DEF Respond
<1> QED BY <1>12, <1>14, <1>15, <1>16, <1>17, UnseenOnce

\* A step of several runs that no branch sees.
LEMMA RunsOnce ==
    ASSUME Inv, OnceInv, exec' = exec, now' = now, IndexOnce',
           \A x \in Run : /\ RowOnce(row'[x]) /\ BranchOnce(row'[x], exec[x])
                          /\ Orderly(row[x], row'[x])
    PROVE  Kept
<1>1. \A x \in Run : RowOnce(row[x])' /\ BranchOnce(row[x], exec[x])'
  BY DEF RowOnce, OneCopy, OneRecord, KeysBehind, BranchOnce, Taken, Live
<1>2. TakesInOrder /\ KeepsOpen
  BY DEF Orderly, TakesInOrder, KeepsOpen, Live
<1>3. (now <= MaxTime)'
  BY DEF OnceInv
<1> QED BY <1>1, <1>2, <1>3 DEF OnceInv, Kept

LEMMA PublishOnce ==
    ASSUME Inv, OnceInv, NEW e \in Event, Publish(e)
    PROVE  Kept
<1>1. PICK to : row' = [x \in Run |-> IF x \in to THEN Accept(row[x], Copy(e, FALSE, Never)) ELSE row[x]]
  BY DEF Publish
<1>2. exec' = exec /\ now' = now /\ index' = index /\ offered' = offered
  BY DEF Publish
<1>3. ASSUME NEW x \in Run PROVE KeepsOnce(row[x], row'[x])
  <2>1. RowOK(row[x]) /\ RowOnce(row[x]) /\ now \in Nat /\ Never \in Nat
    BY OfOnce
  <2>2. KeepsOnce(row[x], Accept(row[x], Copy(e, FALSE, Never)))
    BY <2>1, AcceptCopyOnce
  <2>3. KeepsOnce(row[x], row[x])
    BY <2>1, SameKeeps
  <2> QED BY <1>1, <2>2, <2>3
<1>4. ASSUME NEW x \in Run
      PROVE  /\ RowOnce(row'[x]) /\ BranchOnce(row'[x], exec[x]) /\ Orderly(row[x], row'[x])
             /\ Carries(row[x], row'[x])
  <2>1. PICK t : t = row'[x]
    OBVIOUS
  <2>2. KeepsOnce(row[x], t)
    BY <1>3, <2>1
  <2>3. BranchOnce(row[x], exec[x])
    BY OfOnce
  <2>4. RowOnce(t) /\ BranchOnce(t, exec[x]) /\ Orderly(row[x], t) /\ Carries(row[x], t)
    BY <2>2, <2>3, KeepsTaken, KeepsOrderly, BranchStaysOnce DEF KeepsOnce
  <2> QED BY <2>1, <2>4
<1>5. ASSUME NEW x \in index, Live(row'[x[2]]) PROVE Held(row'[x[2]], x[1]) # {}
  <2>1. x[2] \in Run
    BY DEF OnceInv, IndexOnce
  <2>2. PICK t : t = row'[x[2]]
    OBVIOUS
  <2>3. Carries(row[x[2]], t)
    BY <1>4, <2>1, <2>2
  <2>4. Held(row[x[2]], x[1]) # {}
    BY <2>2, <2>3, <1>5 DEF Carries, OnceInv, IndexOnce
  <2> QED BY <2>2, <2>3, <2>4, CarriesHeld
<1>6. IndexOnce'
  BY <1>2, <1>5 DEF IndexOnce, OnceInv, Live, Held
<1> QED BY <1>2, <1>4, <1>6, RunsOnce

\* The sweep forgets a run with what the index and the history say of it.
LEMMA SweepOnce ==
    ASSUME Inv, OnceInv, Sweep
    PROVE  Kept
<1>1. PICK old \in SUBSET {r \in Run : ~Live(row[r])} :
         /\ row' = [r \in Run |-> IF r \in old THEN Forgotten(row[r])
                                  ELSE IF Live(row[r]) THEN Expire(row[r]) ELSE row[r]]
         /\ index' = {x \in index : ~ (x[2] \in old /\
                        \E n \in Held(row[x[2]], x[1]) : row[x[2]].copies[n].delivered)}
         /\ offered' = {x \in offered : x[2] \notin old}
         /\ exec' = exec /\ now' = now
  BY DEF Sweep
<1>2. ASSUME NEW x \in Run
      PROVE  /\ RowOnce(row'[x]) /\ BranchOnce(row'[x], exec[x]) /\ Orderly(row[x], row'[x])
             /\ Live(row'[x]) => Carries(row[x], row'[x])
  <2>1. /\ RowInv(row[x]) /\ RowOnce(row[x]) /\ now \in Nat /\ now < Never /\ row[x] \in RowType
        /\ BranchOnce(row[x], exec[x]) /\ exec[x] \in [Branch(x) -> Pc]
    BY OfOnce
  <2>2. PICK t : t = IF x \in old THEN Forgotten(row[x])
                     ELSE IF Live(row[x]) THEN Expire(row[x]) ELSE row[x]
    OBVIOUS
  <2>3. row'[x] = t
    BY <1>1, <2>2
  <2>4. CASE x \in old
    <3>1. ~Live(row[x]) /\ t = Forgotten(row[x])
      BY <2>2, <2>4, <1>1
    <3>2. /\ t.copies = << >> /\ t.records = {} /\ t.state = row[x].state
          /\ t.subscriptions = row[x].subscriptions
      BY <3>1, <2>1 DEF Forgotten, RowType
    <3>3. RowOnce(t) /\ Orderly(row[x], t) /\ ~Live(t)
      BY <3>1, <3>2 DEF RowOnce, OneCopy, OneRecord, KeysBehind, Orderly, Live
    <3>4. BranchOnce(t, exec[x])
      <4>1. \A b \in DOMAIN exec[x] : exec[x][b] = "over"
        BY <3>1, <2>1 DEF BranchOnce
      <4>2. \A l \in Listen : l \in DOMAIN exec[x]
        BY <2>1, ListenBranch
      <4> QED BY <4>1, <4>2 DEF BranchOnce
    <3> QED BY <3>3, <3>4, <2>3
  <2>5. CASE x \notin old /\ Live(row[x])
    <3>1. t = Expire(row[x])
      BY <2>2, <2>5
    <3>2. /\ RowOnce(t) /\ Carries(row[x], t)
          /\ \A y \in t.records \ row[x].records : y.key.at = "expired"
      BY <3>1, <2>1, ExpireOnce
    <3>3. t.subscriptions = row[x].subscriptions /\ \A b \in Listen \cup {"join"} : Taken(t, b) = Taken(row[x], b)
      BY <3>1, <2>1, ExpireInv DEF Frame
    <3>4. BranchOnce(t, exec[x])
      BY <3>2, <3>3, <2>1 DEF BranchOnce, Carries
    <3>5. Orderly(row[x], t)
      BY <3>2, <3>3 DEF Orderly
    <3> QED BY <3>2, <3>4, <3>5, <2>3
  <2>6. CASE x \notin old /\ ~Live(row[x])
    <3>1. t = row[x]
      BY <2>2, <2>6
    <3>2. KeepsOnce(row[x], t)
      BY <3>1, <2>1, SameKeeps
    <3> QED BY <3>1, <3>2, <2>1, <2>3, KeepsOrderly DEF KeepsOnce
  <2> QED BY <2>4, <2>5, <2>6
<1>3. ASSUME NEW x \in index', Live(row'[x[2]]) PROVE Held(row'[x[2]], x[1]) # {}
  <2>1. x \in index /\ x[2] \in Run
    BY <1>1 DEF OnceInv, IndexOnce
  <2>2. PICK t : t = row'[x[2]]
    OBVIOUS
  <2>3. Carries(row[x[2]], t)
    BY <1>2, <1>3, <2>1, <2>2
  <2>4. Held(row[x[2]], x[1]) # {}
    BY <2>1, <2>2, <2>3, <1>3 DEF Carries, OnceInv, IndexOnce
  <2> QED BY <2>2, <2>3, <2>4, CarriesHeld
<1>4. index' \subseteq index /\ offered' \subseteq offered /\ offered' \subseteq index'
  BY <1>1 DEF OnceInv, IndexOnce
<1>5. IndexOnce'
  BY <1>3, <1>4 DEF IndexOnce, OnceInv, Live, Held
<1> QED BY <1>1, <1>2, <1>5, RunsOnce

LEMMA TickOnce ==
    ASSUME Inv, OnceInv, Tick
    PROVE  Kept
<1>1. /\ now < MaxTime /\ now' = now + 1 /\ now \in Nat
      /\ row' = row /\ exec' = exec /\ index' = index /\ offered' = offered
  BY DEF Tick, Inv
<1>2. MaxTime \in Nat /\ \A l \in Listen : Deadline[l] \in Nat
  BY ProgramAssumption
<1>3. (now <= MaxTime)'
  BY <1>1, <1>2
<1>4. IndexOnce'
  BY <1>1 DEF OnceInv, IndexOnce, Live, Held
<1>5. ASSUME NEW x \in Run PROVE RowOnce(row[x])' /\ BranchOnce(row[x], exec[x])'
  <2>1. RowOnce(row[x]) /\ BranchOnce(row[x], exec[x])
    BY OfOnce
  <2>2. RowOnce(row[x])'
    BY <2>1, <1>1 DEF RowOnce, OneCopy, OneRecord, KeysBehind, Taken
  <2>3. \A l \in Listen : now >= Deadline[l] => now + 1 >= Deadline[l]
    BY <1>1, <1>2
  <2>4. BranchOnce(row[x], exec[x])'
    BY <2>1, <2>3, <1>1 DEF BranchOnce, Taken, Live
  <2> QED BY <2>2, <2>4
<1>6. TakesInOrder /\ KeepsOpen
  BY <1>1 DEF TakesInOrder, KeepsOpen
<1> QED BY <1>3, <1>4, <1>5, <1>6 DEF OnceInv, Kept

LEMMA InitOnce == Init => OnceInv
<1> SUFFICES ASSUME Init PROVE OnceInv
  OBVIOUS
<1>1. PICK s : s = NewRow
  OBVIOUS
<1>2. s.copies = << >> /\ s.records = {} /\ s.state = "Running"
  BY <1>1 DEF NewRow
<1>3. RowOnce(s) /\ Live(s)
  BY <1>2 DEF RowOnce, OneCopy, OneRecord, KeysBehind, Live
<1>4. \A r \in Run : BranchOnce(s, Entered(s, r))
  BY <1>3, EnteredOnce
<1>5. row = [r \in Run |-> s] /\ exec = [r \in Run |-> Entered(s, r)] /\ now = 0
  BY <1>1 DEF Init
<1>6. IndexOnce
  BY DEF Init, IndexOnce
<1>7. now <= MaxTime
  BY <1>5, ProgramAssumption
<1> QED BY <1>3, <1>4, <1>5, <1>6, <1>7 DEF OnceInv

\* Every operation keeps it, and takes in order.
LEMMA NextOnce ==
    ASSUME Inv, OnceInv, [Next]_vars
    PROVE  Kept
<1>1. CASE Tick
  BY <1>1, TickOnce
<1>2. CASE Sweep
  BY <1>2, SweepOnce
<1>3. ASSUME NEW r \in Run,
             \/ Owner(r) \/ Claim(r) \/ SetHold(r) \/ End(r)
             \/ ChildWaits(r) \/ ChildRuns(r) \/ ChildEnds(r)
      PROVE  Kept
  BY <1>3, OwnerOnce, RestartOnce, SetHoldOnce, EndOnce, ChildStepsOnce
<1>4. ASSUME NEW e \in Event, DeliverAny(e) \/ Publish(e)
      PROVE  Kept
  BY <1>4, DeliverAnyOnce, PublishOnce
<1>5. ASSUME NEW e \in Event, NEW r \in Run,
             Deliver(e, r) \/ PublishTo(e, r) \/ \E l \in Listen : Respond(r, l, e)
      PROVE  Kept
  BY <1>5, DeliverOnce, PublishToOnce, RespondOnce
<1>6. CASE UNCHANGED vars
  <2>1. /\ row' = row /\ exec' = exec /\ now' = now /\ index' = index /\ offered' = offered
    BY <1>6 DEF vars
  <2>2. IndexOnce' /\ (now <= MaxTime)'
    BY <2>1 DEF OnceInv, IndexOnce, Live, Held
  <2>3. ASSUME NEW r \in Run PROVE RowOnce(row[r])' /\ BranchOnce(row[r], exec[r])'
    <3>1. RowOnce(row[r]) /\ BranchOnce(row[r], exec[r])
      BY DEF OnceInv
    <3>2. RowOnce(row[r])'
      BY <2>1, <3>1 DEF RowOnce, OneCopy, OneRecord, KeysBehind, Taken
    <3>3. BranchOnce(row[r], exec[r])'
      BY <2>1, <3>1 DEF BranchOnce, Taken, Live
    <3> QED BY <3>2, <3>3
  <2>4. OnceInv'
    BY <2>2, <2>3 DEF OnceInv
  <2> QED BY <2>1, <2>4 DEF Kept, TakesInOrder, KeepsOpen
<1> QED BY <1>1, <1>2, <1>3, <1>4, <1>5, <1>6 DEF Next

\* Whatever is delivered, delivered again, published or answered, by whatever way
\* and in whatever order with takes, expiry and restarts: a run accepts an identity
\* once, a delivery without a target reaches one run, and a copy is consumed once,
\* at one position (accept, the `delivered' index, take_event, expire).
THEOREM Handling == Spec => []HandledOnce
<1>1. OnceInv => HandledOnce
  BY DEF OnceInv, IndexOnce, RowOnce, OneCopy, OneRecord, HandledOnce, AcceptedOnce, TakenOnce
<1>2. Inv /\ OnceInv /\ [Next]_vars => Inv' /\ OnceInv'
  BY NextInv, NextOnce DEF Kept
<1> QED BY InitInv, InitOnce, <1>1, <1>2, PTL DEF Spec

\* A take consumes the first copy in order of arrival that it may take and that is
\* not over, and a subscription of a listen stays open, between its takes, while
\* the run sleeps and when it starts again, until the listen has all its events or
\* has timed out or the run ends (take_event, expire, listen, unsubscribe).
THEOREM Listening == Spec => ListensAreKept
<1>1. Inv /\ OnceInv /\ [Next]_vars => Inv' /\ OnceInv'
  BY NextInv, NextOnce DEF Kept
<1>2. Inv /\ OnceInv /\ [Next]_vars => [TakesInOrder /\ KeepsOpen]_vars
  BY NextOnce DEF Kept
<1> QED BY InitInv, InitOnce, <1>1, <1>2, PTL DEF Spec, ListensAreKept

-----------------------------------------------------------------------------
(* What a suspended run keeps open, and its child's end.                   *)

\* The copies of the child's end.
Dones(s) == {n \in DOMAIN s.copies : s.copies[n].type = Done}

\* A branch that is over is recorded as over; one that takes has its wait, and a
\* parked one its listener; a join has no event yet. A suspended run has both for
\* every branch that is not over.
OpenRow(s, at) ==
    /\ Live(s) => \A b \in DOMAIN at : at[b] = "over" => b \in s.over
    /\ \A l \in Listen :
          /\ at[l] \in {"take", "parked"} => {w \in s.waits : w.at = l} = {Position(s, l)}
          /\ at[l] = "parked" => Position(s, l) \in s.listeners
          /\ s.state = "Waiting" /\ l \notin s.over =>
                /\ l \in s.subscriptions /\ Position(s, l) \in s.listeners
                /\ {w \in s.waits : w.at = l} = {Position(s, l)}
    /\ "join" \in DOMAIN at =>
          /\ at["join"] = "parked" => JoinKey \in s.listeners /\ Taken(s, "join") = 0
          /\ s.state = "Waiting" /\ "join" \notin s.over
                => JoinKey \in s.listeners /\ Taken(s, "join") = 0

\* A child that was started is awaited until its end is taken; one that ended has
\* left a copy of its end, which stays until then.
HeardRow(s) ==
    /\ \A n \in Dones(s) : /\ s.child = "ended" /\ s.copies[n].expires = Never
                           /\ s.copies[n].key = None \/ Taken(s, "join") # 0
    /\ Live(s) /\ s.child # "none" /\ Taken(s, "join") = 0
          => s.awaits[Done] # None /\ ChildKey \in s.listeners
    /\ Live(s) /\ s.child = "ended" /\ Taken(s, "join") = 0 => Dones(s) # {}

\* Only the join listens for the end of its child.
JoinIsOwn == \A l \in Listen : Done \notin Routes[l]

OpenInv ==
    \A r \in Run : /\ OpenRow(row[r], exec[r])
                   /\ JoinIsOwn => HeardRow(row[r])

\* What deliveries, notices and expiry leave of a row.
Quiet(s, t) ==
    /\ t.state = s.state /\ t.child = s.child /\ t.over = s.over
    /\ t.waits = s.waits /\ t.listeners = s.listeners /\ t.subscriptions = s.subscriptions
    /\ \A b \in Listen \cup {"join"} : Taken(t, b) = Taken(s, b)

SameDones(s, t) ==
    /\ Dones(t) = Dones(s)
    /\ \A n \in Dones(s) : t.copies[n].expires = s.copies[n].expires /\ t.copies[n].key = s.copies[n].key

LEMMA QuietOpen ==
    ASSUME NEW s, NEW t, Quiet(s, t), NEW a, OpenRow(s, a)
    PROVE  OpenRow(t, a)
BY DEF Quiet, OpenRow, Live, Position

LEMMA QuietOn ==
    ASSUME NEW s, NEW t, NEW u, Quiet(s, t), Quiet(t, u)
    PROVE  Quiet(s, u)
BY DEF Quiet

LEMMA SameDonesOn ==
    ASSUME NEW s, NEW t, NEW u, SameDones(s, t), SameDones(t, u)
    PROVE  SameDones(s, u)
BY DEF SameDones

\* What is said of the child holds on in a row that keeps it, its wait and its
\* end, or that ended.
LEMMA HeardOn ==
    ASSUME NEW s, HeardRow(s), NEW t, t.child = s.child, Taken(t, "join") = Taken(s, "join"),
           SameDones(s, t), Live(t) => Live(s),
           Live(t) => (s.awaits[Done] # None => t.awaits[Done] # None)
                      /\ (ChildKey \in s.listeners => ChildKey \in t.listeners)
    PROVE  HeardRow(t)
BY DEF HeardRow, SameDones

LEMMA PushQuiet ==
    ASSUME NEW s \in RowType, NEW c \in CopyType
    PROVE  /\ Quiet(s, Push(s, c)) /\ Push(s, c).awaits = s.awaits
           /\ c.type # Done => SameDones(s, Push(s, c))
           /\ c.type = Done => Dones(Push(s, c)) = Dones(s) \cup {Len(s.copies) + 1}
           /\ \A n \in DOMAIN s.copies : Push(s, c).copies[n] = s.copies[n]
           /\ Push(s, c).copies[Len(s.copies) + 1] = c
<1>1. PICK t : t = Push(s, c)
  OBVIOUS
<1>2. /\ t.state = s.state /\ t.awaits = s.awaits /\ t.listeners = s.listeners
      /\ t.subscriptions = s.subscriptions /\ t.records = s.records
      /\ t.copies = Append(s.copies, c)
  BY <1>1, PushFields
<1>3. t.child = s.child /\ t.over = s.over /\ t.waits = s.waits
  BY <1>1 DEF Push, RowType
<1>4. s.copies \in Seq(CopyType) /\ DOMAIN s.copies = 1..Len(s.copies) /\ Len(s.copies) \in Nat
  BY PendingFinite DEF RowType
<1>5. /\ DOMAIN t.copies = DOMAIN s.copies \cup {Len(s.copies) + 1}
      /\ \A n \in DOMAIN s.copies : t.copies[n] = s.copies[n]
      /\ t.copies[Len(s.copies) + 1] = c
  BY <1>2, <1>4
<1>6. Quiet(s, t)
  BY <1>2, <1>3 DEF Quiet, Taken
<1>7. c.type # Done => SameDones(s, t)
  BY <1>5 DEF SameDones, Dones
<1>8. c.type = Done => Dones(t) = Dones(s) \cup {Len(s.copies) + 1}
  BY <1>5 DEF Dones
<1> QED BY <1>1, <1>2, <1>5, <1>6, <1>7, <1>8

\* A row that changes in its wake-up only.
LEMMA WakeQuiet ==
    ASSUME NEW s \in RowType, NEW w
    PROVE  LET t == [s EXCEPT !.wake = w]
           IN  Quiet(s, t) /\ SameDones(s, t) /\ t.awaits = s.awaits
BY DEF Quiet, SameDones, Dones, RowType, Taken

LEMMA AcceptQuiet ==
    ASSUME NEW s, RowOK(s), now \in Nat, NEW e \in Event, NEW d \in BOOLEAN, NEW x \in Nat
    PROVE  LET t == Accept(s, Copy(e, d, x))
           IN  Quiet(s, t) /\ SameDones(s, t) /\ t.awaits = s.awaits
<1>1. PICK c : c = Copy(e, d, x)
  OBVIOUS
<1>2. c \in CopyType /\ c.type = TypeOf[e] /\ c.type # Done
  BY <1>1, CopyOK, ProgramAssumption
<1>3. s \in RowType
  BY DEF RowOK, RowInv, RowCore
<1>4. CASE Held(s, c.event) # {}
  BY <1>1, <1>4 DEF Accept, Quiet, SameDones
<1>5. CASE Held(s, c.event) = {}
  <2>1. PICK w : w = Min({s.wake, now})
    OBVIOUS
  <2>2. w \in Nat
    BY <1>3, <2>1, MinNow DEF RowType
  <2>3. PICK u : u = IF Wanted(s, c) THEN [s EXCEPT !.wake = w] ELSE s
    OBVIOUS
  <2>4. Quiet(s, u) /\ SameDones(s, u) /\ u.awaits = s.awaits
    BY <1>3, <2>3, WakeQuiet DEF Quiet, SameDones
  <2>5. u \in RowType
    BY <1>3, <2>2, <2>3 DEF RowType
  <2>6. Accept(s, c) = Push(u, c)
    BY <1>5, <2>1, <2>3 DEF Accept
  <2>7. Quiet(u, Push(u, c)) /\ SameDones(u, Push(u, c)) /\ Push(u, c).awaits = u.awaits
    BY <1>2, <2>5, PushQuiet
  <2> QED BY <1>1, <2>4, <2>6, <2>7, QuietOn, SameDonesOn
<1> QED BY <1>4, <1>5

\* Nothing of a child's end expires.
LEMMA ExpireQuiet ==
    ASSUME NEW s, RowInv(s), now \in Nat, now < Never
    PROVE  /\ Quiet(s, Expire(s)) /\ Expire(s).awaits = s.awaits
           /\ HeardRow(s) => SameDones(s, Expire(s))
<1> DEFINE keys == [n \in {m \in Pending(s) : Expired(s.copies[m])} |-> [at |-> "expired", n |-> n]]
<1>1. PICK t : t = Expire(s)
  OBVIOUS
<1>2. /\ t.state = s.state /\ t.listeners = s.listeners /\ t.subscriptions = s.subscriptions
      /\ t.awaits = s.awaits /\ DOMAIN t.copies = DOMAIN s.copies
      /\ \A b \in Listen \cup {"join"} : Taken(t, b) = Taken(s, b)
  BY <1>1, ExpireInv DEF Frame
<1>3. s \in RowType
  BY DEF RowInv, RowCore
<1>4. PICK D : D = DOMAIN keys
  OBVIOUS
<1>5. t = s \/ t = Consume(s, keys)
  BY <1>1 DEF Expire
<1>6. \A n \in D : n \in Pending(s) /\ Expired(s.copies[n])
  BY <1>4
<1>7. /\ t.child = s.child /\ t.over = s.over /\ t.waits = s.waits
      /\ \A n \in DOMAIN s.copies : n \notin D => t.copies[n] = s.copies[n]
      /\ \A n \in DOMAIN s.copies : t.copies[n].type = s.copies[n].type
  <2>1. CASE t = s
    BY <2>1
  <2>2. CASE t = Consume(s, keys)
    <3> HIDE DEF keys
    <3>1. t.child = s.child /\ t.over = s.over /\ t.waits = s.waits
      BY <2>2, <1>3 DEF Consume, Marked, RowType
    <3>2. \A n \in DOMAIN s.copies :
             t.copies[n] = IF n \in DOMAIN keys THEN [s.copies[n] EXCEPT !.key = keys[n]] ELSE s.copies[n]
      BY <2>2, <1>3 DEF Consume, Marked, RowType
    <3>3. \A n \in DOMAIN s.copies : s.copies[n] \in CopyType
      BY <1>3, CopyIsTyped
    <3>4. ASSUME NEW n \in DOMAIN s.copies PROVE t.copies[n].type = s.copies[n].type
      BY <3>2, <3>3 DEF CopyType
    <3> QED BY <3>1, <3>2, <3>4, <1>4
  <2> QED BY <1>5, <2>1, <2>2
<1>8. Quiet(s, t)
  BY <1>2, <1>7 DEF Quiet
<1>9. ASSUME HeardRow(s) PROVE SameDones(s, t)
  <2>1. \A n \in Dones(s) : n \in DOMAIN s.copies /\ n \notin D
    <3> SUFFICES ASSUME NEW n \in Dones(s), n \in D PROVE FALSE
      BY DEF Dones
    <3>1. s.copies[n].expires = Never
      BY <1>9 DEF HeardRow
    <3>2. Never \in Nat
      BY NoticeTypes
    <3> QED BY <3>1, <3>2, <1>6 DEF Expired
  <2> QED BY <2>1, <1>2, <1>7 DEF SameDones, Dones
<1> QED BY <1>1, <1>2, <1>8, <1>9

\* A notice that the child waits is none of its end.
LEMMA WaitsQuiet ==
    ASSUME NEW s, RowInv(s), now \in Nat
    PROVE  LET t == Notify(s, Waits)
           IN  Quiet(s, t) /\ SameDones(s, t) /\ t.awaits = s.awaits
<1>1. PICK c : c = [event |-> None, type |-> Waits, cloud |-> FALSE, delivered |-> FALSE,
                    expires |-> Never, key |-> None]
  OBVIOUS
<1>2. s \in RowType /\ c \in CopyType /\ c.type # Done
  BY <1>1, NoticeTypes DEF RowInv, RowCore, CopyType, Waits, Done
<1>3. PICK u : u = IF Wakes(s, Waits, FALSE) THEN [s EXCEPT !.wake = now] ELSE s
  OBVIOUS
<1>4. Quiet(s, u) /\ SameDones(s, u) /\ u.awaits = s.awaits
  BY <1>2, <1>3, WakeQuiet DEF Quiet, SameDones
<1>5. u \in RowType
  BY <1>2, <1>3 DEF RowType
<1>6. Quiet(u, Push(u, c)) /\ SameDones(u, Push(u, c)) /\ Push(u, c).awaits = u.awaits
  BY <1>2, <1>5, PushQuiet
<1>7. Notify(s, Waits) = s \/ Notify(s, Waits) = Push(u, c)
  BY <1>1, <1>3 DEF Notify
<1>8. Quiet(s, s) /\ SameDones(s, s)
  BY DEF Quiet, SameDones
<1> QED BY <1>4, <1>6, <1>7, <1>8, QuietOn, SameDonesOn

\* The child's end leaves one copy of it, unless there is one or nobody awaits it.
LEMMA EndIsHeard ==
    ASSUME NEW s, RowOK(s), now \in Nat, NEW t, t = Lifecycle(s, Done)
    PROVE  /\ Quiet(s, t) /\ t.awaits[Done] = s.awaits[Done]
           /\ Dones(s) # {} => SameDones(s, t)
           /\ Dones(s) = {} =>
                /\ Live(s) /\ s.awaits[Done] # None => Dones(t) # {}
                /\ \A n \in Dones(t) : t.copies[n].expires = Never /\ t.copies[n].key = None
<1>1. s \in RowType /\ Done # Waits /\ Done \in Type
  BY NoticeTypes DEF RowOK, RowInv, RowCore, Waits, Done
<1>2. CASE Dones(s) # {}
  <2>1. t = s
    BY <1>1, <1>2 DEF Lifecycle, Dones
  <2> QED BY <1>2, <2>1 DEF Quiet, SameDones
<1>3. CASE Dones(s) = {}
  <2>1. PICK v : v = Close(s, {Waits})
    OBVIOUS
  <2>2. PICK c : c = [event |-> None, type |-> Done, cloud |-> FALSE, delivered |-> FALSE,
                      expires |-> Never, key |-> None]
    OBVIOUS
  <2>3. t = Notify(v, Done)
    BY <1>1, <1>3, <2>1 DEF Lifecycle, Dones
  <2>4. /\ v \in RowType /\ SameMail(s, v) /\ v.state = s.state /\ v.listeners = s.listeners
        /\ v.subscriptions = s.subscriptions
    BY <1>1, <2>1, CloseFields
  <2>5. v.child = s.child /\ v.over = s.over /\ v.waits = s.waits
    BY <1>1, <2>1 DEF Close, RowType
  <2>6. v.awaits[Done] = s.awaits[Done]
    BY <1>1, <2>1 DEF Close, RowType
  <2>7. Quiet(s, v) /\ Dones(v) = {}
    BY <1>3, <2>4, <2>5 DEF Quiet, SameMail, Taken, Dones
  <2>8. PICK u : u = IF Wakes(v, Done, FALSE) THEN [v EXCEPT !.wake = now] ELSE v
    OBVIOUS
  <2>9. Quiet(v, u) /\ Dones(u) = Dones(v) /\ u.awaits = v.awaits
    BY <2>4, <2>8, WakeQuiet DEF Quiet, SameDones
  <2>10. u \in RowType /\ c \in CopyType /\ c.type = Done /\ c.expires = Never /\ c.key = None
    BY <2>2, <2>4, <2>8, NoticeTypes DEF RowType, CopyType
  <2>11. PICK p : p = Push(u, c)
    OBVIOUS
  <2>12. /\ Quiet(u, p) /\ p.awaits = u.awaits
         /\ Dones(p) = {Len(u.copies) + 1} /\ p.copies[Len(u.copies) + 1] = c
    BY <2>7, <2>9, <2>10, <2>11, PushQuiet
  <2>13. IF ~Live(v) \/ v.awaits[Done] = None \/ v.pending[Done].copies > 0 THEN t = v ELSE t = p
    BY <2>2, <2>3, <2>8, <2>11 DEF Notify
  <2>14. ~(v.pending[Done].copies > 0)
    <3>0. s.pending[Done] = [copies |-> Cardinality(PendingOf(s, Done)),
                             cloud |-> Cardinality(CloudOf(s, Done))]
      BY <1>1 DEF RowOK, RowInv, RowCore, Counted
    <3>1. v.pending[Done].copies = Cardinality(PendingOf(s, Done))
      BY <3>0, <2>4 DEF SameMail
    <3>2. PendingOf(s, Done) = {}
      BY <1>3 DEF PendingOf, Pending, Dones
    <3>3. Cardinality(PendingOf(s, Done)) = 0
      BY <3>2, FS_EmptySet
    <3> QED BY <3>1, <3>3
  <2>15. CASE t = v
    BY <2>4, <2>6, <2>7, <2>12, <2>13, <2>14, <2>15, <1>3 DEF Live
  <2>16. CASE t = p
    <3>1. Quiet(s, t)
      BY <2>7, <2>9, <2>12, <2>16, QuietOn
    <3> QED BY <3>1, <2>6, <2>9, <2>10, <2>12, <2>16, <1>3
  <2> QED BY <2>13, <2>15, <2>16
<1> QED BY <1>2, <1>3

-----------------------------------------------------------------------------
(* Steps.                                                                  *)

LEMMA OfOpen ==
    ASSUME Inv, OnceInv, OpenInv, NEW r \in Run
    PROVE  /\ OpenRow(row[r], exec[r]) /\ (JoinIsOwn => HeardRow(row[r]))
           /\ now \in Nat /\ now < Never
           /\ RowOK(row[r]) /\ RowInv(row[r]) /\ RowCore(row[r]) /\ row[r] \in RowType
           /\ row = [x \in Run |-> row[x]] /\ exec = [x \in Run |-> exec[x]]
           /\ exec[r] \in [Branch(r) -> Pc]
           /\ BranchOnce(row[r], exec[r])
BY OfOnce DEF OpenInv

LEMMA OneRunOpen ==
    ASSUME Inv, OnceInv, OpenInv, NEW r \in Run, NEW t, NEW a,
           row' = [row EXCEPT ![r] = t], exec' = [exec EXCEPT ![r] = a],
           OpenRow(t, a), JoinIsOwn => HeardRow(t)
    PROVE  OpenInv'
<1>1. row = [x \in Run |-> row[x]] /\ exec = [x \in Run |-> exec[x]]
  BY OfOpen
<1>2. \A x \in Run : row'[x] = (IF x = r THEN t ELSE row[x]) /\ exec'[x] = (IF x = r THEN a ELSE exec[x])
  BY <1>1
<1>3. \A x \in Run : OpenRow(row'[x], exec'[x]) /\ (JoinIsOwn => HeardRow(row'[x]))
  BY <1>2 DEF OpenInv
<1>4. \A x \in Run : OpenRow(row[x], exec[x])' /\ (JoinIsOwn => HeardRow(row[x]))'
  BY <1>3 DEF OpenRow, HeardRow, Live, Position, Taken, Dones, JoinIsOwn
<1> QED BY <1>4 DEF OpenInv

\* A step that no branch of the run sees.
LEMMA UnseenOpen ==
    ASSUME Inv, OnceInv, OpenInv, NEW r \in Run, NEW t, row' = [row EXCEPT ![r] = t], exec' = exec,
           Quiet(row[r], t), SameDones(row[r], t), t.awaits = row[r].awaits
    PROVE  OpenInv'
<1>1. OpenRow(row[r], exec[r]) /\ (JoinIsOwn => HeardRow(row[r])) /\ exec = [x \in Run |-> exec[x]]
  BY OfOpen
<1>2. PICK a : a = exec[r]
  OBVIOUS
<1>3. exec' = [exec EXCEPT ![r] = a]
  BY <1>1, <1>2
<1>4. OpenRow(t, a)
  BY <1>1, <1>2, QuietOpen
<1>5. JoinIsOwn => HeardRow(t)
  BY <1>1, HeardOn DEF Quiet, Live
<1> QED BY <1>3, <1>4, <1>5, OneRunOpen

\* What a step of branch b leaves of the others'.
OthersOpen(s, t, b) ==
    /\ t.state = s.state /\ s.over \subseteq t.over
    /\ \A l \in Listen \ {b} :
          /\ Taken(t, l) = Taken(s, l)
          /\ \A w : w.at = l => (w \in t.waits <=> w \in s.waits)
          /\ Position(s, l) \in s.listeners => Position(s, l) \in t.listeners
    /\ b # "join" => /\ Taken(t, "join") = Taken(s, "join")
                     /\ JoinKey \in s.listeners => JoinKey \in t.listeners

\* A step of branch b.
LEMMA StepOpen ==
    ASSUME Inv, OnceInv, OpenInv, NEW r \in Run, NEW b \in Branch(r), NEW pcs, NEW t, NEW pc,
           Step(r, b, pcs, t, pc), OthersOpen(row[r], t, b),
           pc = "over" => b \in t.over,
           b \in Listen => /\ pc \in {"take", "parked"} => {w \in t.waits : w.at = b} = {Position(t, b)}
                           /\ pc = "parked" => Position(t, b) \in t.listeners,
           b \notin Listen /\ pc = "parked" => JoinKey \in t.listeners /\ Taken(t, "join") = 0,
           JoinIsOwn => HeardRow(t)
    PROVE  OpenInv'
<1> DEFINE a == [exec[r] EXCEPT ![b] = pc]
<1>1. /\ OpenRow(row[r], exec[r]) /\ exec[r] \in [Branch(r) -> Pc] /\ exec = [x \in Run |-> exec[x]]
      /\ row[r].state = "Running" /\ t.state = "Running"
  BY OfOpen, StepIs DEF OthersOpen
<1>2. row' = [row EXCEPT ![r] = t] /\ exec' = [exec EXCEPT ![r] = a]
  BY <1>1 DEF Step
<1>3. DOMAIN a = Branch(r) /\ DOMAIN exec[r] = Branch(r) /\ \A x \in Branch(r) : a[x] = IF x = b THEN pc ELSE exec[r][x]
  BY <1>1
<1>4. \A l \in Listen : l \in Branch(r)
  BY ListenBranch
<1> HIDE DEF a
<1>5. \A x \in Branch(r) : a[x] = "over" => x \in t.over
  BY <1>1, <1>3 DEF OpenRow, OthersOpen, Live
<1>6. ASSUME NEW l \in Listen
      PROVE  /\ a[l] \in {"take", "parked"} => {w \in t.waits : w.at = l} = {Position(t, l)}
             /\ a[l] = "parked" => Position(t, l) \in t.listeners
  <2>1. CASE l = b
    BY <2>1, <1>3, <1>4
  <2>2. CASE l # b
    <3>1. a[l] = exec[r][l] /\ Position(t, l) = Position(row[r], l)
      BY <2>2, <1>3, <1>4 DEF OthersOpen, Position
    <3>2. {w \in t.waits : w.at = l} = {w \in row[r].waits : w.at = l}
      BY <2>2 DEF OthersOpen
    <3>3. Position(row[r], l) \in row[r].listeners => Position(row[r], l) \in t.listeners
      BY <2>2 DEF OthersOpen
    <3> QED BY <3>1, <3>2, <3>3, <1>1 DEF OpenRow
  <2> QED BY <2>1, <2>2
<1>7. "join" \in Branch(r) /\ a["join"] = "parked" => JoinKey \in t.listeners /\ Taken(t, "join") = 0
  <2>1. "join" \notin Listen
    BY ProgramAssumption
  <2>2. CASE b = "join"
    BY <2>1, <2>2, <1>3
  <2>3. CASE b # "join"
    BY <2>3, <1>1, <1>3 DEF OpenRow, OthersOpen
  <2> QED BY <2>2, <2>3
<1>8. OpenRow(t, a)
  BY <1>1, <1>3, <1>5, <1>6, <1>7 DEF OpenRow
<1> QED BY <1>2, <1>8, OneRunOpen

LEMMA CloseQuiet ==
    ASSUME NEW s \in RowType, NEW types
    PROVE  LET t == Close(s, types)
           IN  /\ Quiet(s, t) /\ SameDones(s, t) /\ t \in RowType /\ t.copies = s.copies
               /\ Done \notin types => t.awaits[Done] = s.awaits[Done]
<1>1. PICK t : t = Close(s, types)
  OBVIOUS
<1>2. /\ t \in RowType /\ SameMail(s, t) /\ t.state = s.state /\ t.listeners = s.listeners
      /\ t.subscriptions = s.subscriptions
  BY <1>1, CloseFields
<1>3. t.child = s.child /\ t.over = s.over /\ t.waits = s.waits
  BY <1>1 DEF Close, RowType
<1>4. Done \notin types => t.awaits[Done] = s.awaits[Done]
  BY <1>1, NoticeTypes DEF Close, RowType
<1> QED BY <1>1, <1>2, <1>3, <1>4 DEF Quiet, SameDones, SameMail, Dones, Taken

\* The names of listens and keys are apart.
LEMMA KeysApart ==
    /\ "join" \notin Listen /\ "child" \notin Listen /\ "expired" \notin Listen
    /\ JoinKey # ChildKey /\ JoinKey.at = "join" /\ ChildKey.at = "child"
    /\ \A s, l : Position(s, l).at = l
BY ProgramAssumption DEF JoinKey, ChildKey, Position

LEMMA RegisteringQuiet ==
    ASSUME NEW s \in RowType, NEW types \in SUBSET Type, now \in Nat
    PROVE  LET t == Registering(s, types)
           IN  /\ Quiet(s, t) /\ SameDones(s, t)
               /\ s.awaits[Done] # None => t.awaits[Done] # None
<1>1. PICK t : t = Registering(s, types)
  OBVIOUS
<1>2. /\ SameMail(s, t) /\ t.state = s.state /\ t.listeners = s.listeners
      /\ t.subscriptions = s.subscriptions
      /\ \A y \in Type : s.awaits[y] # None => t.awaits[y] # None
  BY <1>1, RegisteringFields
<1>3. t.child = s.child /\ t.over = s.over /\ t.waits = s.waits
  BY <1>1 DEF Registering, RowType
<1> QED BY <1>1, <1>2, <1>3, NoticeTypes DEF Quiet, SameDones, SameMail, Dones, Taken

LEMMA QuietOthers ==
    ASSUME NEW s, NEW t, Quiet(s, t), NEW b
    PROVE  OthersOpen(s, t, b)
BY DEF Quiet, OthersOpen, Position

LEMMA RegisterOpen ==
    ASSUME Inv, OnceInv, OpenInv, NEW r \in Run, NEW l \in Listen, Register(r, l)
    PROVE  OpenInv'
<1>1. row[r] \in RowType /\ now \in Nat /\ (JoinIsOwn => HeardRow(row[r]))
  BY OfOpen
<1>2. PICK t : t = Registering(row[r], Typed(l))
  OBVIOUS
<1>3. /\ Quiet(row[r], t) /\ SameDones(row[r], t)
      /\ row[r].awaits[Done] # None => t.awaits[Done] # None
  BY <1>1, <1>2, TypedTypes, RegisteringQuiet
<1>4. Step(r, l, {"start"}, t, "subscribe")
  BY <1>2 DEF Register
<1>5. JoinIsOwn => HeardRow(t)
  BY <1>1, <1>3, HeardOn DEF Quiet, Live
<1> QED BY <1>3, <1>4, <1>5, ListenBranch, QuietOthers, StepOpen

LEMMA RegisterJoinOpen ==
    ASSUME Inv, OnceInv, OpenInv, NEW r \in Run, RegisterJoin(r)
    PROVE  OpenInv'
<1>1. row[r] \in RowType /\ now \in Nat /\ (JoinIsOwn => HeardRow(row[r]))
  BY OfOpen
<1>2. PICK t : t = Registering(row[r], {Done})
  OBVIOUS
<1>3. /\ Quiet(row[r], t) /\ SameDones(row[r], t)
      /\ row[r].awaits[Done] # None => t.awaits[Done] # None
  <2>1. {Done} \in SUBSET Type
    BY NoticeTypes
  <2> QED BY <1>1, <1>2, <2>1, RegisteringQuiet
<1>4. r \in Parent /\ Step(r, "join", {"register"}, t, "take")
  BY <1>2 DEF RegisterJoin
<1>5. JoinIsOwn => HeardRow(t)
  BY <1>1, <1>3, HeardOn DEF Quiet, Live
<1>6. "join" \in Branch(r) /\ "join" \notin Listen
  BY <1>4, JoinBranch
<1> QED BY <1>3, <1>4, <1>5, <1>6, QuietOthers, StepOpen

LEMMA SubscribeOpen ==
    ASSUME Inv, OnceInv, OpenInv, NEW r \in Run, NEW l \in Listen, Subscribe(r, l)
    PROVE  OpenInv'
<1>1. row[r] \in RowType /\ (JoinIsOwn => HeardRow(row[r]))
  BY OfOpen
<1>2. PICK t : t = [row[r] EXCEPT !.subscriptions = @ \cup {l}]
  OBVIOUS
<1>3. /\ t.state = row[r].state /\ t.over = row[r].over /\ t.waits = row[r].waits
      /\ t.listeners = row[r].listeners /\ t.child = row[r].child /\ t.awaits = row[r].awaits
      /\ t.copies = row[r].copies /\ t.records = row[r].records
  BY <1>1, <1>2 DEF RowType
<1>4. OthersOpen(row[r], t, l) /\ SameDones(row[r], t) /\ Taken(t, "join") = Taken(row[r], "join")
  BY <1>3 DEF OthersOpen, Taken, Position, SameDones, Dones
<1>5. JoinIsOwn => HeardRow(t)
  BY <1>1, <1>3, <1>4, HeardOn DEF Live
<1>6. Step(r, l, {"subscribe"}, t, "describe")
  BY <1>2 DEF Subscribe
<1> QED BY <1>4, <1>5, <1>6, ListenBranch, StepOpen

LEMMA DescribeOpen ==
    ASSUME Inv, OnceInv, OpenInv, NEW r \in Run, NEW l \in Listen, Describe(r, l)
    PROVE  OpenInv'
<1>1. row[r] \in RowType /\ (JoinIsOwn => HeardRow(row[r]))
  BY OfOpen
<1>2. PICK w : w = {x \in row[r].waits : x.at # l} \cup {Position(row[r], l)}
  OBVIOUS
<1>3. PICK t : t = [row[r] EXCEPT !.waits = w]
  OBVIOUS
<1>4. /\ t.state = row[r].state /\ t.over = row[r].over /\ t.waits = w
      /\ t.listeners = row[r].listeners /\ t.child = row[r].child /\ t.awaits = row[r].awaits
      /\ t.copies = row[r].copies /\ t.records = row[r].records
  BY <1>1, <1>3 DEF RowType
<1>5. \A y : Taken(t, y) = Taken(row[r], y) /\ Position(t, y) = Position(row[r], y)
  BY <1>4 DEF Taken, Position
<1>6. OthersOpen(row[r], t, l)
  BY <1>2, <1>4, <1>5, KeysApart DEF OthersOpen
<1>7. {x \in t.waits : x.at = l} = {Position(t, l)}
  BY <1>2, <1>4, <1>5, KeysApart
<1>8. SameDones(row[r], t)
  BY <1>4 DEF SameDones, Dones
<1>9. JoinIsOwn => HeardRow(t)
  BY <1>1, <1>4, <1>5, <1>8, HeardOn DEF Live
<1>10. Step(r, l, {"describe"}, t, "take")
  BY <1>2, <1>3 DEF Describe
<1> QED BY <1>6, <1>7, <1>9, <1>10, ListenBranch, StepOpen

LEMMA UnregisterOpen ==
    ASSUME Inv, OnceInv, OpenInv, NEW r \in Run, NEW l \in Listen, Unregister(r, l)
    PROVE  OpenInv'
<1>1. row[r] \in RowType /\ (JoinIsOwn => HeardRow(row[r]))
  BY OfOpen
<1>2. PICK d : d = row[r].listeners \ {Position(row[r], l)}
  OBVIOUS
<1>3. PICK v : v = [row[r] EXCEPT !.listeners = d]
  OBVIOUS
<1>4. /\ v \in RowType /\ v.state = row[r].state /\ v.over = row[r].over /\ v.waits = row[r].waits
      /\ v.listeners = d /\ v.child = row[r].child /\ v.awaits = row[r].awaits
      /\ v.copies = row[r].copies /\ v.records = row[r].records
  BY <1>1, <1>2, <1>3 DEF RowType
<1>5. PICK t : t = Close(v, Typed(l))
  OBVIOUS
<1>6. Quiet(v, t) /\ SameDones(v, t) /\ (Done \notin Typed(l) => t.awaits[Done] = v.awaits[Done])
  BY <1>4, <1>5, CloseQuiet
<1>7. \A y : Taken(v, y) = Taken(row[r], y) /\ Position(v, y) = Position(row[r], y)
  BY <1>4 DEF Taken, Position
<1>8. \A y \in Listen \cup {"join"} : Taken(t, y) = Taken(row[r], y) /\ Position(t, y) = Position(row[r], y)
  BY <1>6, <1>7 DEF Quiet, Position
<1>9. OthersOpen(row[r], t, l)
  BY <1>2, <1>4, <1>6, <1>8, KeysApart DEF OthersOpen, Quiet
<1>10. SameDones(row[r], t)
  BY <1>4, <1>6 DEF SameDones, Dones
<1>11. JoinIsOwn => HeardRow(t)
  <2>1. JoinIsOwn => Done \notin Typed(l)
    BY DEF JoinIsOwn, Typed
  <2>2. ChildKey \in row[r].listeners => ChildKey \in t.listeners
    BY <1>2, <1>4, <1>6, KeysApart DEF Quiet
  <2> QED BY <1>1, <1>4, <1>6, <1>8, <1>10, <2>1, <2>2, HeardOn DEF Quiet, Live
<1>12. Step(r, l, {"take"}, t, "leave")
  BY <1>2, <1>3, <1>5 DEF Unregister
<1> QED BY <1>9, <1>11, <1>12, ListenBranch, StepOpen

LEMMA UnsubscribeOpen ==
    ASSUME Inv, OnceInv, OpenInv, NEW r \in Run, NEW l \in Listen, Unsubscribe(r, l)
    PROVE  OpenInv'
<1>1. row[r] \in RowType /\ (JoinIsOwn => HeardRow(row[r]))
  BY OfOpen
<1>2. PICK w : w = {x \in row[r].waits : x.at # l}
  OBVIOUS
<1>3. PICK t : t = [row[r] EXCEPT !.subscriptions = @ \ {l}, !.waits = w]
  OBVIOUS
<1>4. /\ t.state = row[r].state /\ t.over = row[r].over /\ t.waits = w
      /\ t.listeners = row[r].listeners /\ t.child = row[r].child /\ t.awaits = row[r].awaits
      /\ t.copies = row[r].copies /\ t.records = row[r].records
  BY <1>1, <1>3 DEF RowType
<1>5. \A y : Taken(t, y) = Taken(row[r], y) /\ Position(t, y) = Position(row[r], y)
  BY <1>4 DEF Taken, Position
<1>6. OthersOpen(row[r], t, l)
  BY <1>2, <1>4, <1>5 DEF OthersOpen
<1>7. SameDones(row[r], t)
  BY <1>4 DEF SameDones, Dones
<1>8. JoinIsOwn => HeardRow(t)
  BY <1>1, <1>4, <1>5, <1>7, HeardOn DEF Live
<1>9. Step(r, l, {"start", "leave"}, t, "save")
  BY <1>2, <1>3 DEF Unsubscribe
<1> QED BY <1>6, <1>8, <1>9, ListenBranch, StepOpen

LEMMA SaveOpen ==
    ASSUME Inv, OnceInv, OpenInv, NEW r \in Run, NEW b \in Branch(r), Save(r, b)
    PROVE  OpenInv'
<1>1. row[r] \in RowType /\ (JoinIsOwn => HeardRow(row[r]))
  BY OfOpen
<1>2. PICK t : t = [row[r] EXCEPT !.over = @ \cup {b}]
  OBVIOUS
<1>3. /\ t.state = row[r].state /\ t.over = row[r].over \cup {b} /\ t.waits = row[r].waits
      /\ t.listeners = row[r].listeners /\ t.child = row[r].child /\ t.awaits = row[r].awaits
      /\ t.copies = row[r].copies /\ t.records = row[r].records
  BY <1>1, <1>2 DEF RowType
<1>4. OthersOpen(row[r], t, b) /\ SameDones(row[r], t) /\ Taken(t, "join") = Taken(row[r], "join")
  BY <1>3 DEF OthersOpen, Taken, Position, SameDones, Dones
<1>5. JoinIsOwn => HeardRow(t)
  BY <1>1, <1>3, <1>4, HeardOn DEF Live
<1>6. Step(r, b, {"start", "save"}, t, "over")
  BY <1>2 DEF Save
<1> QED BY <1>3, <1>4, <1>5, <1>6, StepOpen

\* What a take changes in the row besides the counters.
LEMMA TakenFields ==
    ASSUME NEW u, RowInv(u), NEW k \in Place, NEW types, Takeable(u, types) # {},
           NEW t, t = TakeFirst(u, k, types)
    PROVE  \E n \in Takeable(u, types) :
              /\ t.state = u.state /\ t.child = u.child /\ t.over = u.over
              /\ t.waits = u.waits \ {k}
              /\ t.listeners = u.listeners \ ({k} \cup IF u.copies[n].type = Done THEN {ChildKey} ELSE {})
              /\ Done \notin types => t.awaits[Done] = u.awaits[Done]
              /\ DOMAIN t.copies = DOMAIN u.copies
              /\ \A m \in DOMAIN u.copies : /\ t.copies[m].type = u.copies[m].type
                                            /\ t.copies[m].expires = u.copies[m].expires
                                            /\ m # n => t.copies[m] = u.copies[m]
<1>1. u \in RowType
  BY DEF RowInv, RowCore
<1>2. PICK n : n = Min(Takeable(u, types))
  OBVIOUS
<1>3. n \in Takeable(u, types)
  <2>1. Takeable(u, types) \subseteq DOMAIN u.copies
    BY DEF Takeable, Pending
  <2>2. DOMAIN u.copies \subseteq Nat
    BY <1>1, PendingFinite
  <2> QED BY <1>2, <2>1, <2>2, MinOf
<1>4. PICK keys : keys = [m \in {n} |-> k]
  OBVIOUS
<1>5. n \in Pending(u) /\ DOMAIN keys = {n} /\ keys[n] = k /\ KeysFor(u, keys)
  BY <1>3, <1>4 DEF Takeable, KeysFor
<1>6. PICK c : c = Consume(u, keys)
  OBVIOUS
<1>7. Consumed(u, keys, c)
  BY <1>1, <1>5, <1>6, ConsumeFields
<1>8. c.child = u.child /\ c.over = u.over /\ c.waits = u.waits
  BY <1>1, <1>6 DEF Consume, Marked, RowType
<1>9. PICK gone : gone = {k} \cup (IF u.copies[n].type = Done THEN {ChildKey} ELSE {})
  OBVIOUS
<1>10. PICK v : v = [c EXCEPT !.listeners = @ \ gone, !.waits = @ \ {k}]
  OBVIOUS
<1>11. /\ v \in RowType /\ v.copies = c.copies /\ v.state = c.state /\ v.child = c.child
       /\ v.over = c.over /\ v.waits = c.waits \ {k} /\ v.listeners = c.listeners \ gone
       /\ v.awaits = c.awaits
  BY <1>7, <1>10 DEF RowType, Consumed
<1>12. t = Close(v, types)
  BY <1>2, <1>4, <1>6, <1>9, <1>10 DEF TakeFirst
<1>13. Quiet(v, t) /\ t.copies = v.copies /\ (Done \notin types => t.awaits[Done] = v.awaits[Done])
  BY <1>11, <1>12, CloseQuiet
<1>14. ASSUME NEW m \in DOMAIN u.copies
       PROVE  /\ t.copies[m].type = u.copies[m].type /\ t.copies[m].expires = u.copies[m].expires
              /\ m # n => t.copies[m] = u.copies[m]
  <2>1. t.copies[m] = IF m = n THEN [u.copies[m] EXCEPT !.key = k] ELSE u.copies[m]
    <3>1. c.copies[m] = IF m \in DOMAIN keys THEN [u.copies[m] EXCEPT !.key = keys[m]] ELSE u.copies[m]
      BY <1>7 DEF Consumed
    <3>2. t.copies[m] = c.copies[m]
      BY <1>11, <1>13
    <3> QED BY <3>1, <3>2, <1>5
  <2>2. u.copies[m] \in CopyType
    BY <1>1, CopyIsTyped
  <2> QED BY <2>1, <2>2 DEF CopyType
<1>15. t.state = u.state /\ t.child = u.child /\ t.over = u.over /\ DOMAIN t.copies = DOMAIN u.copies
  BY <1>7, <1>8, <1>11, <1>13 DEF Quiet, Consumed
<1>16. t.waits = u.waits \ {k} /\ t.listeners = u.listeners \ gone
  BY <1>7, <1>8, <1>11, <1>13 DEF Quiet, Consumed
<1>17. Done \notin types => t.awaits[Done] = u.awaits[Done]
  BY <1>7, <1>11, <1>13 DEF Consumed
<1> QED BY <1>3, <1>9, <1>14, <1>15, <1>16, <1>17

LEMMA TakeFrom ==
    ASSUME NEW r, NEW b, Take(r, b)
    PROVE  exec[r][b] \in {"take", "parked"} /\ (b \notin Listen => exec[r][b] = "take")
BY StepIs DEF Take

\* A branch that parks.
LEMMA ParkOpen ==
    ASSUME Inv, OnceInv, OpenInv, NEW r \in Run, NEW b \in Branch(r), NEW u, NEW k, NEW pcs,
           u = Expire(row[r]), k = KeyOf(row[r], b),
           exec[r][b] \in {"take", "parked"}, b \notin Listen => exec[r][b] = "take",
           Step(r, b, pcs, [u EXCEPT !.listeners = @ \cup {k}], "parked")
    PROVE  OpenInv'
<1> DEFINE s == row[r]
<1>1. /\ OpenRow(s, exec[r]) /\ (JoinIsOwn => HeardRow(s)) /\ BranchOnce(s, exec[r])
      /\ RowInv(s) /\ RowCore(s) /\ now \in Nat /\ now < Never /\ exec[r] \in [Branch(r) -> Pc]
  BY OfOpen
<1>2. Quiet(s, u) /\ u.awaits = s.awaits /\ (HeardRow(s) => SameDones(s, u))
  BY <1>1, ExpireQuiet
<1>3. u \in RowType
  BY <1>1, ExpireInv DEF RowInv, RowCore
<1>4. PICK d : d = u.listeners \cup {k}
  OBVIOUS
<1>5. PICK t : t = [u EXCEPT !.listeners = d]
  OBVIOUS
<1>6. /\ t.state = u.state /\ t.over = u.over /\ t.waits = u.waits /\ t.listeners = d
      /\ t.child = u.child /\ t.awaits = u.awaits /\ t.copies = u.copies /\ t.records = u.records
  BY <1>3, <1>5 DEF RowType
<1>7. \A y \in Listen \cup {"join"} : Taken(t, y) = Taken(s, y) /\ Position(t, y) = Position(s, y)
  BY <1>2, <1>6 DEF Quiet, Taken, Position
<1>8. OthersOpen(s, t, b)
  BY <1>2, <1>4, <1>6, <1>7 DEF OthersOpen, Quiet
<1>9. JoinIsOwn => HeardRow(t)
  <2>1. SameDones(u, t)
    BY <1>6 DEF SameDones, Dones
  <2> QED BY <1>1, <1>2, <1>4, <1>6, <1>7, <2>1, SameDonesOn, HeardOn DEF Quiet, Live
<1>10. b \in Listen => Position(t, b) \in t.listeners /\ {w \in t.waits : w.at = b} = {Position(t, b)}
  <2> SUFFICES ASSUME b \in Listen
               PROVE  Position(t, b) \in t.listeners /\ {w \in t.waits : w.at = b} = {Position(t, b)}
    OBVIOUS
  <2>1. k = Position(t, b)
    BY <1>7 DEF KeyOf
  <2>2. {w \in s.waits : w.at = b} = {Position(s, b)}
    BY <1>1 DEF OpenRow
  <2> QED BY <2>1, <2>2, <1>2, <1>4, <1>6, <1>7 DEF Quiet
<1>11. b \notin Listen => JoinKey \in t.listeners /\ Taken(t, "join") = 0
  <2> SUFFICES ASSUME b \notin Listen PROVE JoinKey \in t.listeners /\ Taken(t, "join") = 0
    OBVIOUS
  <2>1. b = "join" /\ k = JoinKey
    BY <1>1, KeyOfBranch DEF KeyOf
  <2>2. Taken(s, "join") = 0
    BY <2>1, <1>1 DEF BranchOnce
  <2> QED BY <2>1, <2>2, <1>4, <1>6, <1>7
<1>12. Step(r, b, pcs, t, "parked")
  BY <1>4, <1>5
<1> QED BY <1>8, <1>9, <1>10, <1>11, <1>12, StepOpen

\* A branch that takes.
LEMMA TakeFirstOpen ==
    ASSUME Inv, OnceInv, OpenInv, NEW r \in Run, NEW b \in Branch(r), NEW u, NEW k, NEW pcs, NEW pc,
           u = Expire(row[r]), k = KeyOf(row[r], b), Takeable(u, KeyTypes(k)) # {},
           b \notin Listen => exec[r][b] = "take", pc \in {"save", "leave", "describe"},
           Step(r, b, pcs, TakeFirst(u, k, KeyTypes(k)), pc)
    PROVE  OpenInv'
<1> DEFINE s == row[r]
<1>1. /\ OpenRow(s, exec[r]) /\ (JoinIsOwn => HeardRow(s)) /\ BranchOnce(s, exec[r])
      /\ RowInv(s) /\ RowCore(s) /\ now \in Nat /\ now < Never /\ exec[r] \in [Branch(r) -> Pc]
  BY OfOpen
<1>2. Quiet(s, u) /\ u.awaits = s.awaits /\ (HeardRow(s) => SameDones(s, u))
  BY <1>1, ExpireQuiet
<1>3. RowInv(u)
  BY <1>1, ExpireInv
<1>4. k \in Place /\ k.at = b /\ b \in Listen \cup {"join"}
  BY <1>1, KeyOfBranch
<1>5. PICK t : t = TakeFirst(u, k, KeyTypes(k))
  OBVIOUS
<1>6. PICK n \in Takeable(u, KeyTypes(k)) :
         /\ t.state = u.state /\ t.child = u.child /\ t.over = u.over
         /\ t.waits = u.waits \ {k}
         /\ t.listeners = u.listeners \ ({k} \cup IF u.copies[n].type = Done THEN {ChildKey} ELSE {})
         /\ Done \notin KeyTypes(k) => t.awaits[Done] = u.awaits[Done]
         /\ DOMAIN t.copies = DOMAIN u.copies
         /\ \A m \in DOMAIN u.copies : /\ t.copies[m].type = u.copies[m].type
                                       /\ t.copies[m].expires = u.copies[m].expires
                                       /\ m # n => t.copies[m] = u.copies[m]
  BY <1>3, <1>4, <1>5, TakenFields
<1>7. /\ Taken(t, b) = Taken(s, b) + 1
      /\ \A x \in Listen \cup {"join"} : x # b => Taken(t, x) = Taken(s, x)
  BY <1>5, TakenFirst
<1>8. OthersOpen(s, t, b)
  <2>1. ASSUME NEW l \in Listen, l # b
        PROVE  /\ Position(t, l) = Position(s, l)
               /\ \A w : w.at = l => (w \in t.waits <=> w \in s.waits)
               /\ Position(s, l) \in s.listeners => Position(s, l) \in t.listeners
    <3>1. Position(t, l) = Position(s, l)
      BY <2>1, <1>7 DEF Position
    <3>2. Position(s, l).at = l /\ ChildKey.at # l
      BY KeysApart
    <3> QED BY <3>1, <3>2, <2>1, <1>2, <1>4, <1>6 DEF Quiet
  <2>2. b # "join" /\ JoinKey \in s.listeners => JoinKey \in t.listeners
    BY <1>2, <1>4, <1>6, KeysApart DEF Quiet
  <2> QED BY <2>1, <2>2, <1>2, <1>6, <1>7 DEF OthersOpen, Quiet
<1>9. Dones(t) = Dones(u) /\ \A m \in Dones(u) : t.copies[m].expires = u.copies[m].expires
  BY <1>6 DEF Dones
<1>10. ASSUME JoinIsOwn, HeardRow(s) PROVE HeardRow(t)
  <2>1. HeardRow(u)
    BY <1>2, <1>10, HeardOn DEF Quiet, Live
  <2>2. CASE b \in Listen
    <3>1. u.copies[n].type # Done
      <4>1. n \in DOMAIN u.copies /\ CopiesAreSound(u)
        BY <1>3 DEF Takeable, Pending, RowInv, RowCore
      <4>2. u.copies[n].type \in Routes[b] \/ u.copies[n].cloud
        BY <2>2, <1>4, <1>6 DEF Takeable, KeyTypes, Published
      <4>3. u.copies[n].cloud => u.copies[n].type # Done
        BY <4>1, ProgramAssumption DEF CopiesAreSound
      <4> QED BY <2>2, <4>2, <4>3, <1>10 DEF JoinIsOwn
    <3>2. SameDones(u, t)
      BY <3>1, <1>6, <1>9 DEF SameDones, Dones
    <3>3. ChildKey \in u.listeners => ChildKey \in t.listeners
      BY <2>2, <3>1, <1>4, <1>6, KeysApart
    <3>4. t.awaits[Done] = u.awaits[Done]
      BY <2>2, <1>4, <1>6, <1>10 DEF KeyTypes, JoinIsOwn
    <3>5. Taken(t, "join") = Taken(u, "join")
      BY <2>2, <1>2, <1>7, KeysApart DEF Quiet
    <3> QED BY <2>1, <3>2, <3>3, <3>4, <3>5, <1>6, HeardOn DEF Live
  <2>3. CASE b \notin Listen
    <3>1. Taken(t, "join") # 0
      <4>1. b = "join" /\ Taken(s, "join") = 0
        BY <2>3, <1>1, <1>4 DEF BranchOnce
      <4> QED BY <4>1, <1>7
    <3> QED BY <3>1, <2>1, <1>6, <1>9 DEF HeardRow
  <2> QED BY <2>2, <2>3
<1>11. Step(r, b, pcs, t, pc)
  BY <1>5
<1> QED BY <1>1, <1>8, <1>10, <1>11, StepOpen

LEMMA TakeOpen ==
    ASSUME Inv, OnceInv, OpenInv, NEW r \in Run, NEW b \in Branch(r), Take(r, b)
    PROVE  OpenInv'
<1>1. PICK u : u = Expire(row[r])
  OBVIOUS
<1>2. PICK k : k = KeyOf(row[r], b)
  OBVIOUS
<1>3. exec[r][b] \in {"take", "parked"} /\ (b \notin Listen => exec[r][b] = "take")
  BY TakeFrom
<1>4. CASE \E pcs : Step(r, b, pcs, [u EXCEPT !.listeners = @ \cup {k}], "parked")
  BY <1>1, <1>2, <1>3, <1>4, ParkOpen
<1>5. CASE /\ Takeable(u, KeyTypes(k)) # {}
           /\ \E pcs, pc : /\ Step(r, b, pcs, TakeFirst(u, k, KeyTypes(k)), pc)
                           /\ pc \in {"save", "leave", "describe"}
  BY <1>1, <1>2, <1>3, <1>5, TakeFirstOpen
<1> QED BY <1>1, <1>2, <1>4, <1>5, TakeIs

LEMMA StartChildOpen ==
    ASSUME Inv, OnceInv, OpenInv, NEW r \in Run, StartChild(r)
    PROVE  OpenInv'
<1> DEFINE s == row[r]
           a == [y \in Type |-> IF y \in {Done, Waits} /\ s.awaits[y] = None THEN now ELSE s.awaits[y]]
           d == s.listeners \cup {ChildKey}
<1>1. s \in RowType /\ RowOK(s) /\ now \in Nat /\ (JoinIsOwn => HeardRow(s))
  BY OfOpen
<1>2. /\ a \in [Type -> Nat \cup {None}] /\ d \in SUBSET Place /\ a[Done] # None
      /\ \A y \in Type : s.awaits[y] # None => a[y] # None
  <2>1. s.awaits \in [Type -> Nat \cup {None}] /\ s.listeners \in SUBSET Place
    BY <1>1 DEF RowType
  <2>2. ChildKey \in Place
    BY DEF ChildKey, Place
  <2>3. Done \in Type /\ now # None
    BY <1>1, NoticeTypes, ProgramAssumption
  <2> QED BY <1>1, <2>1, <2>2, <2>3
<1>3. PICK w : w = [s EXCEPT !.awaits = a, !.listeners = d]
  OBVIOUS
<1>4. PICK t : t = CASE s.child = "none" -> [w EXCEPT !.child = "running"]
                     [] s.child = "waiting" -> Lifecycle(w, Waits)
                     [] s.child = "ended" -> Lifecycle(w, Done)
                     [] OTHER -> w
  OBVIOUS
<1>5. r \in Parent /\ Step(r, "join", {"start"}, t, "register") /\ Taken(s, "join") = 0
  BY <1>3, <1>4 DEF StartChild
<1>6. s.state = "Running"
  BY <1>5, StepIs
<1> HIDE DEF a, d
<1>7. /\ w \in RowType /\ SameMail(s, w) /\ w.state = s.state /\ w.listeners = d
      /\ w.subscriptions = s.subscriptions /\ w.awaits = a
      /\ w.child = s.child /\ w.over = s.over /\ w.waits = s.waits
  BY <1>1, <1>2, <1>3 DEF RowType, SameMail
<1>8. RowOK(w) /\ RowInv(w)
  BY <1>1, <1>2, <1>6, <1>7, PlainOK DEF d, RowOK
<1>9. SameDones(s, w) /\ \A x : Taken(w, x) = Taken(s, x) /\ Position(w, x) = Position(s, x)
  BY <1>7 DEF SameMail, SameDones, Dones, Taken, Position
<1>10. JoinIsOwn => HeardRow(w)
  <2>1. ChildKey \in w.listeners
    BY <1>7 DEF d
  <2> QED BY <2>1, <1>1, <1>2, <1>7, <1>9, HeardOn DEF Live
<1>11. s.child \in {"none", "running", "waiting", "ended"}
  BY <1>1 DEF RowType
<1>12. \/ s.child = "none" /\ t = [w EXCEPT !.child = "running"]
       \/ s.child = "waiting" /\ t = Notify(w, Waits)
       \/ s.child = "ended" /\ t = Lifecycle(w, Done)
       \/ s.child = "running" /\ t = w
  BY <1>4, <1>11 DEF Lifecycle
<1>13. /\ t.state = w.state /\ t.over = w.over /\ t.waits = w.waits /\ t.listeners = w.listeners
       /\ \A x \in Listen \cup {"join"} : Taken(t, x) = Taken(w, x)
       /\ JoinIsOwn => HeardRow(t)
  <2>1. CASE s.child = "none" /\ t = [w EXCEPT !.child = "running"]
    <3>1. /\ t.state = w.state /\ t.over = w.over /\ t.waits = w.waits /\ t.listeners = w.listeners
          /\ t.copies = w.copies /\ t.records = w.records /\ t.awaits = w.awaits /\ t.child = "running"
      BY <2>1, <1>7 DEF RowType
    <3>2. \A x : Taken(t, x) = Taken(w, x)
      BY <3>1 DEF Taken
    <3>3. JoinIsOwn => Dones(w) = {}
      BY <2>1, <1>7, <1>10 DEF HeardRow
    <3>4. Dones(t) = Dones(w)
      BY <3>1 DEF Dones
    <3>5. ChildKey \in t.listeners /\ t.awaits[Done] # None
      BY <3>1, <1>2, <1>7 DEF d
    <3>6. JoinIsOwn => HeardRow(t)
      BY <3>1, <3>3, <3>4, <3>5 DEF HeardRow
    <3> QED BY <3>1, <3>2, <3>6
  <2>2. CASE ~(s.child = "none")
    <3>1. Quiet(w, t) /\ (JoinIsOwn => SameDones(w, t)) /\ t.awaits[Done] = w.awaits[Done]
      <4>1. CASE s.child = "waiting" /\ t = Notify(w, Waits)
        BY <4>1, <1>1, <1>8, WaitsQuiet
      <4>2. CASE s.child = "ended" /\ t = Lifecycle(w, Done)
        <5>1. Quiet(w, t) /\ t.awaits[Done] = w.awaits[Done] /\ (Dones(w) # {} => SameDones(w, t))
          BY <4>2, <1>1, <1>8, EndIsHeard
        <5>2. JoinIsOwn => Dones(w) # {}
          BY <4>2, <1>5, <1>6, <1>7, <1>9, <1>10 DEF HeardRow, Live
        <5> QED BY <5>1, <5>2
      <4>3. CASE t = w
        BY <4>3 DEF Quiet, SameDones
      <4> QED BY <2>2, <4>1, <4>2, <4>3, <1>12
    <3>2. JoinIsOwn => HeardRow(t)
      BY <3>1, <1>10, HeardOn DEF Quiet, Live
    <3> QED BY <3>1, <3>2 DEF Quiet
  <2> QED BY <2>1, <2>2, <1>12
<1>14. OthersOpen(s, t, "join")
  <2>1. \A l \in Listen : Taken(t, l) = Taken(s, l)
    BY <1>9, <1>13
  <2> QED BY <2>1, <1>7, <1>13 DEF OthersOpen, d
<1>15. "join" \in Branch(r) /\ "join" \notin Listen
  BY <1>5, JoinBranch
<1> QED BY <1>5, <1>13, <1>14, <1>15, StepOpen

\* A run that starts again is at the start of what is not over.
LEMMA EnteredPlaces ==
    ASSUME NEW s, NEW r \in Run
    PROVE  /\ DOMAIN Entered(s, r) = Branch(r)
           /\ \A b \in Branch(r) : Entered(s, r)[b] = IF b \in s.over THEN "over" ELSE "start"
BY DEF Entered

\* A run suspends when each branch that is not over is parked: what a parked branch
\* has is open.
LEMMA FinishWaitingOpen ==
    ASSUME Inv, OnceInv, OpenInv, NEW r \in Run, FinishWaiting(r)
    PROVE  OpenInv'
<1> DEFINE s == row[r]
<1>1. /\ OpenRow(s, exec[r]) /\ (JoinIsOwn => HeardRow(s)) /\ s \in RowType
      /\ exec[r] \in [Branch(r) -> Pc] /\ BranchesAgree(s, exec[r])
  BY OfOpen, OfInv
<1>2. PICK w : row' = [row EXCEPT ![r] = [s EXCEPT !.state = "Waiting", !.wake = w]]
  BY DEF FinishWaiting
<1>3. PICK t : t = [s EXCEPT !.state = "Waiting", !.wake = w]
  OBVIOUS
<1>4. /\ t.state = "Waiting" /\ t.over = s.over /\ t.waits = s.waits /\ t.subscriptions = s.subscriptions
      /\ t.listeners = s.listeners /\ t.child = s.child /\ t.awaits = s.awaits
      /\ t.copies = s.copies /\ t.records = s.records
  BY <1>1, <1>3 DEF RowType
<1>5. PICK a : a = Entered(s, r)
  OBVIOUS
<1>6. /\ row' = [row EXCEPT ![r] = t] /\ exec' = [exec EXCEPT ![r] = a]
      /\ s.state = "Running" /\ \A b \in Branch(r) : exec[r][b] \in {"parked", "over"}
  BY <1>2, <1>3, <1>5 DEF FinishWaiting
<1>7. DOMAIN a = Branch(r) /\ \A b \in Branch(r) : a[b] = IF b \in s.over THEN "over" ELSE "start"
  BY <1>5, EnteredPlaces
<1>8. \A y : Taken(t, y) = Taken(s, y) /\ Position(t, y) = Position(s, y)
  BY <1>4 DEF Taken, Position
<1>9. \A b \in Branch(r) : b \notin s.over => exec[r][b] = "parked"
  BY <1>1, <1>6 DEF OpenRow, Live
<1>10. ASSUME NEW l \in Listen
       PROVE  /\ a[l] \notin {"take", "parked"}
              /\ l \notin t.over => /\ l \in t.subscriptions /\ Position(t, l) \in t.listeners
                                    /\ {x \in t.waits : x.at = l} = {Position(t, l)}
  <2>1. l \in Branch(r)
    BY ListenBranch
  <2>2. ASSUME l \notin s.over
        PROVE  /\ l \in s.subscriptions /\ Position(s, l) \in s.listeners
               /\ {x \in s.waits : x.at = l} = {Position(s, l)}
    <3>1. exec[r][l] = "parked"
      BY <2>1, <2>2, <1>9
    <3> QED BY <3>1, <1>1 DEF OpenRow, BranchesAgree
  <2> QED BY <2>1, <2>2, <1>4, <1>7, <1>8
<1>11. "join" \in Branch(r) => /\ a["join"] # "parked"
                               /\ "join" \notin t.over => JoinKey \in t.listeners /\ Taken(t, "join") = 0
  <2>1. "join" \in Branch(r) /\ "join" \notin s.over => JoinKey \in s.listeners /\ Taken(s, "join") = 0
    BY <1>1, <1>9 DEF OpenRow
  <2> QED BY <2>1, <1>4, <1>7, <1>8
<1>12. OpenRow(t, a)
  BY <1>4, <1>7, <1>10, <1>11 DEF OpenRow
<1>13. JoinIsOwn => HeardRow(t)
  <2>1. SameDones(s, t)
    BY <1>4 DEF SameDones, Dones
  <2> QED BY <2>1, <1>1, <1>4, <1>6, <1>8, HeardOn DEF Live
<1> QED BY <1>6, <1>12, <1>13, OneRunOpen

LEMMA ClaimOpen ==
    ASSUME Inv, OnceInv, OpenInv, NEW r \in Run, Claim(r)
    PROVE  OpenInv'
<1> DEFINE s == row[r]
<1>1. OpenRow(s, exec[r]) /\ (JoinIsOwn => HeardRow(s)) /\ s \in RowType
  BY OfOpen
<1>2. PICK t : t = [s EXCEPT !.state = "Running"]
  OBVIOUS
<1>3. /\ t.state = "Running" /\ t.over = s.over /\ t.listeners = s.listeners /\ t.child = s.child
      /\ t.awaits = s.awaits /\ t.copies = s.copies /\ t.records = s.records
  BY <1>1, <1>2 DEF RowType
<1>4. PICK a : a = Entered(s, r)
  OBVIOUS
<1>5. row' = [row EXCEPT ![r] = t] /\ exec' = [exec EXCEPT ![r] = a] /\ Live(s)
  BY <1>2, <1>4 DEF Claim, Live
<1>6. DOMAIN a = Branch(r) /\ \A b \in Branch(r) : a[b] = IF b \in s.over THEN "over" ELSE "start"
  BY <1>4, EnteredPlaces
<1>7. \A l \in Listen : l \in Branch(r)
  BY ListenBranch
<1>8. OpenRow(t, a)
  BY <1>3, <1>6, <1>7 DEF OpenRow
<1>9. JoinIsOwn => HeardRow(t)
  <2>1. SameDones(s, t) /\ Taken(t, "join") = Taken(s, "join")
    BY <1>3 DEF SameDones, Dones, Taken
  <2> QED BY <2>1, <1>1, <1>3, <1>5, HeardOn
<1> QED BY <1>5, <1>8, <1>9, OneRunOpen

LEMMA SetHoldOpen ==
    ASSUME Inv, OnceInv, OpenInv, NEW r \in Run, SetHold(r)
    PROVE  OpenInv'
<1>1. row[r] \in RowType
  BY OfOpen
<1>2. PICK t : t = [row[r] EXCEPT !.held = ~@]
  OBVIOUS
<1>3. Quiet(row[r], t) /\ SameDones(row[r], t) /\ t.awaits = row[r].awaits
  BY <1>1, <1>2 DEF RowType, Quiet, SameDones, Dones, Taken
<1>4. row' = [row EXCEPT ![r] = t] /\ exec' = exec
  BY <1>2 DEF SetHold
<1> QED BY <1>3, <1>4, UnseenOpen

LEMMA EndOpen ==
    ASSUME Inv, OnceInv, OpenInv, NEW r \in Run, End(r)
    PROVE  OpenInv'
<1> DEFINE s == row[r]
<1>1. (JoinIsOwn => HeardRow(s)) /\ s \in RowType /\ exec[r] \in [Branch(r) -> Pc]
  BY OfOpen
<1>2. PICK t : t = Terminated(s)
  OBVIOUS
<1>3. /\ t.state = "Ended" /\ t.copies = s.copies /\ t.records = s.records
      /\ t.child = IF s.child = "none" THEN s.child ELSE "ended"
  BY <1>1, <1>2 DEF RowType, Terminated
<1>4. PICK a : a = [b \in DOMAIN exec[r] |-> "over"]
  OBVIOUS
<1>5. row' = [row EXCEPT ![r] = t]
  BY <1>2 DEF End
<1>6. exec' = [exec EXCEPT ![r] = a]
  BY <1>4 DEF End
<1>7. OpenRow(t, a)
  <2>1. DOMAIN a = Branch(r) /\ \A b \in Branch(r) : a[b] = "over"
    BY <1>1, <1>4
  <2>2. \A l \in Listen : l \in Branch(r)
    BY ListenBranch
  <2> QED BY <2>1, <2>2, <1>3 DEF OpenRow, Live
<1>8. JoinIsOwn => HeardRow(t)
  <2>1. Dones(t) = Dones(s) /\ Taken(t, "join") = Taken(s, "join")
    BY <1>3 DEF Dones, Taken
  <2> QED BY <2>1, <1>1, <1>3 DEF HeardRow, Live
<1> QED BY <1>5, <1>6, <1>7, <1>8, OneRunOpen

-----------------------------------------------------------------------------
(* The others' steps.                                                      *)

\* A child moves with its notice: until it ends there is no copy of its end, and
\* then, if it is awaited, there is one.
LEMMA ChildOpen ==
    ASSUME Inv, OnceInv, OpenInv, NEW r \in Run, NEW from \in SUBSET {"running", "waiting"},
           NEW to \in {"running", "waiting", "ended"}, NEW u \in RowType,
           Quiet(row[r], u), u.awaits[Done] = row[r].awaits[Done],
           Dones(row[r]) = {} =>
              IF to = "ended"
              THEN /\ Live(row[r]) /\ row[r].awaits[Done] # None => Dones(u) # {}
                   /\ \A n \in Dones(u) : u.copies[n].expires = Never /\ u.copies[n].key = None
              ELSE Dones(u) = {},
           Child(r, from, to, u)
    PROVE  OpenInv'
<1> DEFINE s == row[r]
<1>1. /\ OpenRow(s, exec[r]) /\ (JoinIsOwn => HeardRow(s)) /\ exec = [x \in Run |-> exec[x]]
  BY OfOpen
<1>2. PICK t : t = [u EXCEPT !.child = to]
  OBVIOUS
<1>3. /\ t.state = u.state /\ t.over = u.over /\ t.waits = u.waits /\ t.listeners = u.listeners
      /\ t.subscriptions = u.subscriptions /\ t.copies = u.copies /\ t.records = u.records
      /\ t.awaits = u.awaits /\ t.child = to
  BY <1>2 DEF RowType
<1>4. \A y : Taken(t, y) = Taken(u, y) /\ Position(t, y) = Position(u, y)
  BY <1>3 DEF Taken, Position
<1>5. row' = [row EXCEPT ![r] = t] /\ exec' = exec /\ Live(s) /\ s.child \in {"running", "waiting"}
  BY <1>2 DEF Child
<1>6. PICK a : a = exec[r]
  OBVIOUS
<1>7. exec' = [exec EXCEPT ![r] = a]
  BY <1>1, <1>5, <1>6
<1>8. OpenRow(t, a)
  <2>1. OpenRow(u, a)
    BY <1>1, <1>6, QuietOpen
  <2> QED BY <2>1, <1>3, <1>4 DEF OpenRow, Live
<1>9. ASSUME JoinIsOwn PROVE HeardRow(t)
  <2>1. Dones(s) = {}
    BY <1>1, <1>5, <1>9 DEF HeardRow
  <2>2. Dones(t) = Dones(u)
    BY <1>3 DEF Dones
  <2>3. Taken(t, "join") = Taken(s, "join") /\ t.listeners = s.listeners /\ t.awaits[Done] = s.awaits[Done]
    BY <1>3, <1>4 DEF Quiet
  <2>4. Taken(s, "join") = 0 => s.awaits[Done] # None /\ ChildKey \in s.listeners
    BY <1>1, <1>5, <1>9 DEF HeardRow
  <2>5. CASE to = "ended"
    <3>1. /\ s.awaits[Done] # None => Dones(t) # {}
          /\ \A n \in Dones(t) : t.copies[n].expires = Never /\ t.copies[n].key = None
      BY <2>1, <2>2, <2>5, <1>3, <1>5
    <3> QED BY <3>1, <2>3, <2>4, <2>5, <1>3 DEF HeardRow
  <2>6. CASE to # "ended"
    <3>1. Dones(t) = {}
      BY <2>1, <2>2, <2>6
    <3> QED BY <3>1, <2>3, <2>4, <2>6, <1>3 DEF HeardRow
  <2> QED BY <2>5, <2>6
<1> QED BY <1>5, <1>7, <1>8, <1>9, OneRunOpen

LEMMA ChildStepsOpen ==
    ASSUME Inv, OnceInv, OpenInv, NEW r \in Run, ChildWaits(r) \/ ChildRuns(r) \/ ChildEnds(r)
    PROVE  OpenInv'
<1>1. RowOK(row[r]) /\ RowInv(row[r]) /\ now \in Nat
  BY OfOpen
<1>2. \A u : RowOK(u) => u \in RowType
  BY DEF RowOK, RowInv, RowCore
<1>3. CASE ChildWaits(r)
  <2>1. PICK u : u = Lifecycle(row[r], Waits)
    OBVIOUS
  <2>2. RowOK(u)
    BY <2>1, <1>1, LifecycleOK
  <2>3. Quiet(row[r], u) /\ SameDones(row[r], u) /\ u.awaits = row[r].awaits
    BY <2>1, <1>1, WaitsQuiet DEF Lifecycle
  <2>4. Child(r, {"running"}, "waiting", u)
    BY <2>1, <1>3 DEF ChildWaits
  <2> QED BY <2>2, <2>3, <2>4, <1>2, ChildOpen DEF SameDones
<1>4. CASE ChildRuns(r)
  <2>1. PICK u : u = row[r]
    OBVIOUS
  <2>2. Child(r, {"waiting"}, "running", u)
    BY <2>1, <1>4 DEF ChildRuns
  <2>3. Quiet(row[r], u) /\ Dones(u) = Dones(row[r]) /\ u \in RowType
    BY <2>1, <1>1, <1>2 DEF Quiet
  <2> QED BY <2>1, <2>2, <2>3, ChildOpen
<1>5. CASE ChildEnds(r)
  <2>1. PICK u : u = Lifecycle(row[r], Done)
    OBVIOUS
  <2>2. RowOK(u)
    BY <2>1, <1>1, LifecycleOK
  <2>3. /\ Quiet(row[r], u) /\ u.awaits[Done] = row[r].awaits[Done]
        /\ Dones(row[r]) = {} =>
             /\ Live(row[r]) /\ row[r].awaits[Done] # None => Dones(u) # {}
             /\ \A n \in Dones(u) : u.copies[n].expires = Never /\ u.copies[n].key = None
    BY <2>1, <1>1, EndIsHeard
  <2>4. Child(r, {"running", "waiting"}, "ended", u)
    BY <2>1, <1>5 DEF ChildEnds
  <2> QED BY <2>2, <2>3, <2>4, <1>2, ChildOpen
<1> QED BY <1>3, <1>4, <1>5

\* A copy that a host sends.
LEMMA AcceptOpen ==
    ASSUME Inv, OnceInv, OpenInv, NEW r \in Run, NEW e \in Event, NEW d \in BOOLEAN, NEW x \in Nat,
           row' = [row EXCEPT ![r] = Accept(@, Copy(e, d, x))], exec' = exec
    PROVE  OpenInv'
<1>1. RowOK(row[r]) /\ now \in Nat
  BY OfOpen
<1>2. PICK t : t = Accept(row[r], Copy(e, d, x))
  OBVIOUS
<1>3. Quiet(row[r], t) /\ SameDones(row[r], t) /\ t.awaits = row[r].awaits
  BY <1>1, <1>2, AcceptQuiet
<1>4. row' = [row EXCEPT ![r] = t]
  BY <1>2
<1> QED BY <1>3, <1>4, UnseenOpen

LEMMA DeliveriesOpen ==
    ASSUME Inv, OnceInv, OpenInv, NEW r \in Run, NEW e \in Event,
           Deliver(e, r) \/ PublishTo(e, r)
    PROVE  OpenInv'
<1>1. now + MailboxMs \in Nat
  BY LaterNat, OfOpen
<1>2. CASE Deliver(e, r)
  BY <1>1, <1>2, AcceptOpen DEF Deliver, DeliverTo
<1>3. CASE PublishTo(e, r)
  BY <1>1, <1>3, AcceptOpen DEF PublishTo
<1> QED BY <1>2, <1>3

LEMMA DeliverAnyOpen ==
    ASSUME Inv, OnceInv, OpenInv, NEW e \in Event, DeliverAny(e)
    PROVE  OpenInv'
<1>1. PICK r \in Chosen(e) : DeliverTo(r, e) /\ exec' = exec
  BY DEF DeliverAny
<1>2. r \in Run
  BY DEF Chosen, Recipients
<1>3. now + MailboxMs \in Nat
  BY <1>2, LaterNat, OfOpen
<1> QED BY <1>1, <1>2, <1>3, AcceptOpen DEF DeliverTo

LEMMA RespondOpen ==
    ASSUME Inv, OnceInv, OpenInv, NEW r \in Run, NEW l \in Listen, NEW e \in Event, Respond(r, l, e)
    PROVE  OpenInv'
<1>1. RowOK(row[r]) /\ RowOnce(row[r]) /\ now \in Nat
  BY OfOpen, OfOnce
<1>2. PICK s : s = Accept(row[r], Copy(e, TRUE, now + MailboxMs))
  OBVIOUS
<1>3. /\ Held(s, e) # {} /\ RowOK(s) /\ s \in RowType
      /\ Quiet(row[r], s) /\ SameDones(row[r], s) /\ s.awaits = row[r].awaits
  BY <1>1, <1>2, LaterNat, AcceptCopyOnce, AcceptCopyOK, AcceptQuiet DEF RowOK, RowInv, RowCore
<1>4. PICK n : n = CHOOSE m \in Held(s, e) : TRUE
  OBVIOUS
<1>5. n \in DOMAIN s.copies
  BY <1>3, <1>4 DEF Held
<1>6. PICK u : u = ForWildcard(s, l, n)
  OBVIOUS
<1>7. PICK t : t = [u EXCEPT !.answered = @ \cup {e}]
  OBVIOUS
<1>8. PICK c : c = [s.copies[n] EXCEPT !.delivered = FALSE]
  OBVIOUS
<1>9. PICK q : q = [s.copies EXCEPT ![n] = c]
  OBVIOUS
<1>10. u = s \/ u = [s EXCEPT !.copies = q, !.published = @ + 1, !.wake = Min({@, now})]
  BY <1>6, <1>8, <1>9 DEF ForWildcard
<1>11. /\ t.state = s.state /\ t.child = s.child /\ t.over = s.over /\ t.waits = s.waits
       /\ t.listeners = s.listeners /\ t.subscriptions = s.subscriptions /\ t.records = s.records
       /\ t.awaits = s.awaits /\ (t.copies = s.copies \/ t.copies = q)
  BY <1>3, <1>7, <1>10 DEF RowType
<1>12. /\ DOMAIN t.copies = DOMAIN s.copies
       /\ \A m \in DOMAIN s.copies : /\ t.copies[m].type = s.copies[m].type
                                     /\ t.copies[m].expires = s.copies[m].expires
                                     /\ t.copies[m].key = s.copies[m].key
  <2>1. s.copies[n] \in CopyType
    BY <1>3, <1>5, CopyIsTyped
  <2>2. c.type = s.copies[n].type /\ c.expires = s.copies[n].expires /\ c.key = s.copies[n].key
    BY <2>1, <1>8 DEF CopyType
  <2> QED BY <2>2, <1>5, <1>9, <1>11
<1>13. Quiet(s, t) /\ SameDones(s, t)
  BY <1>11, <1>12 DEF Quiet, SameDones, Dones, Taken
<1>14. Quiet(row[r], t) /\ SameDones(row[r], t) /\ t.awaits = row[r].awaits
  BY <1>3, <1>11, <1>13, QuietOn, SameDonesOn
<1>15. row' = [row EXCEPT ![r] = t] /\ exec' = exec
  BY <1>2, <1>4, <1>6, <1>7 DEF Respond
<1> QED BY <1>14, <1>15, UnseenOpen

\* A step of several runs that no branch sees.
LEMMA RunsOpen ==
    ASSUME exec' = exec,
           \A x \in Run : OpenRow(row'[x], exec[x]) /\ (JoinIsOwn => HeardRow(row'[x]))
    PROVE  OpenInv'
<1>1. \A x \in Run : OpenRow(row[x], exec[x])' /\ (JoinIsOwn => HeardRow(row[x]))'
  BY DEF OpenRow, HeardRow, Live, Position, Taken, Dones, JoinIsOwn
<1> QED BY <1>1 DEF OpenInv

LEMMA PublishOpen ==
    ASSUME Inv, OnceInv, OpenInv, NEW e \in Event, Publish(e)
    PROVE  OpenInv'
<1>1. PICK to : row' = [x \in Run |-> IF x \in to THEN Accept(row[x], Copy(e, FALSE, Never)) ELSE row[x]]
  BY DEF Publish
<1>2. ASSUME NEW x \in Run
      PROVE  OpenRow(row'[x], exec[x]) /\ (JoinIsOwn => HeardRow(row'[x]))
  <2>1. /\ RowOK(row[x]) /\ now \in Nat /\ Never \in Nat
        /\ OpenRow(row[x], exec[x]) /\ (JoinIsOwn => HeardRow(row[x]))
    BY OfOpen, NoticeTypes
  <2>2. PICK t : t = Accept(row[x], Copy(e, FALSE, Never))
    OBVIOUS
  <2>3. Quiet(row[x], t) /\ SameDones(row[x], t) /\ t.awaits = row[x].awaits
    BY <2>1, <2>2, AcceptQuiet
  <2>4. OpenRow(t, exec[x])
    BY <2>1, <2>3, QuietOpen
  <2>5. JoinIsOwn => HeardRow(t)
    BY <2>1, <2>3, HeardOn DEF Quiet, Live
  <2> QED BY <2>1, <2>2, <2>4, <2>5, <1>1
<1>3. exec' = exec
  BY DEF Publish
<1> QED BY <1>2, <1>3, RunsOpen

LEMMA SweepOpen ==
    ASSUME Inv, OnceInv, OpenInv, Sweep
    PROVE  OpenInv'
<1>1. PICK old \in SUBSET {r \in Run : ~Live(row[r])} :
         /\ row' = [r \in Run |-> IF r \in old THEN Forgotten(row[r])
                                  ELSE IF Live(row[r]) THEN Expire(row[r]) ELSE row[r]]
         /\ exec' = exec
  BY DEF Sweep
<1>2. ASSUME NEW x \in Run
      PROVE  OpenRow(row'[x], exec[x]) /\ (JoinIsOwn => HeardRow(row'[x]))
  <2>1. /\ OpenRow(row[x], exec[x]) /\ (JoinIsOwn => HeardRow(row[x])) /\ RowInv(row[x])
        /\ row[x] \in RowType /\ now \in Nat /\ now < Never
        /\ BranchOnce(row[x], exec[x]) /\ exec[x] \in [Branch(x) -> Pc]
    BY OfOpen
  <2>2. PICK t : t = IF x \in old THEN Forgotten(row[x])
                     ELSE IF Live(row[x]) THEN Expire(row[x]) ELSE row[x]
    OBVIOUS
  <2>3. row'[x] = t
    BY <1>1, <2>2
  <2>4. CASE x \in old
    <3>1. ~Live(row[x]) /\ t = Forgotten(row[x])
      BY <2>2, <2>4, <1>1
    <3>2. t.copies = << >> /\ t.state = row[x].state
      BY <3>1, <2>1 DEF Forgotten, RowType
    <3>3. ~Live(t) /\ t.state # "Waiting" /\ Dones(t) = {}
      BY <3>1, <3>2 DEF Live, Dones
    <3>4. \A b \in Branch(x) : exec[x][b] = "over"
      BY <3>1, <2>1 DEF BranchOnce
    <3>5. \A l \in Listen : l \in Branch(x)
      BY ListenBranch
    <3>6. OpenRow(t, exec[x])
      BY <3>3, <3>4, <3>5, <2>1 DEF OpenRow
    <3>7. HeardRow(t)
      BY <3>3 DEF HeardRow
    <3> QED BY <3>6, <3>7, <2>3
  <2>5. CASE x \notin old /\ Live(row[x])
    <3>1. t = Expire(row[x])
      BY <2>2, <2>5
    <3>2. Quiet(row[x], t) /\ t.awaits = row[x].awaits /\ (HeardRow(row[x]) => SameDones(row[x], t))
      BY <3>1, <2>1, ExpireQuiet
    <3>3. OpenRow(t, exec[x])
      BY <3>2, <2>1, QuietOpen
    <3>4. JoinIsOwn => HeardRow(t)
      BY <3>2, <2>1, HeardOn DEF Quiet, Live
    <3> QED BY <3>3, <3>4, <2>3
  <2>6. CASE x \notin old /\ ~Live(row[x])
    BY <2>1, <2>2, <2>3, <2>6
  <2> QED BY <2>4, <2>5, <2>6
<1> QED BY <1>1, <1>2, RunsOpen

LEMMA InitOpen == Init => OpenInv
<1> SUFFICES ASSUME Init PROVE OpenInv
  OBVIOUS
<1>1. PICK s : s = NewRow
  OBVIOUS
<1>2. s.copies = << >> /\ s.state = "Running" /\ s.over = {} /\ s.child = "none"
  BY <1>1 DEF NewRow
<1>3. HeardRow(s)
  BY <1>2 DEF HeardRow, Dones
<1>4. ASSUME NEW r \in Run PROVE OpenRow(s, Entered(s, r))
  <2>1. PICK a : a = Entered(s, r)
    OBVIOUS
  <2>2. DOMAIN a = Branch(r) /\ \A b \in Branch(r) : a[b] = "start"
    BY <2>1, <1>2, EnteredPlaces
  <2>3. \A l \in Listen : l \in Branch(r)
    BY ListenBranch
  <2>4. OpenRow(s, a)
    BY <2>2, <2>3, <1>2 DEF OpenRow
  <2> QED BY <2>1, <2>4
<1>5. row = [r \in Run |-> s] /\ exec = [r \in Run |-> Entered(s, r)]
  BY <1>1 DEF Init
<1> QED BY <1>3, <1>4, <1>5 DEF OpenInv

LEMMA OwnerOpen ==
    ASSUME Inv, OnceInv, OpenInv, NEW r \in Run, Owner(r)
    PROVE  OpenInv'
<1>1. CASE \E l \in Listen : Register(r, l) \/ Subscribe(r, l) \/ Describe(r, l)
                             \/ Unregister(r, l) \/ Unsubscribe(r, l)
  BY <1>1, RegisterOpen, SubscribeOpen, DescribeOpen, UnregisterOpen, UnsubscribeOpen
<1>2. CASE StartChild(r) \/ RegisterJoin(r) \/ FinishWaiting(r)
  BY <1>2, StartChildOpen, RegisterJoinOpen, FinishWaitingOpen
<1>3. CASE \E b \in Branch(r) : Take(r, b) \/ Save(r, b)
  BY <1>3, TakeOpen, SaveOpen
<1> QED BY <1>1, <1>2, <1>3 DEF Owner

LEMMA NextOpen ==
    ASSUME Inv, OnceInv, OpenInv, [Next]_vars
    PROVE  OpenInv'
<1>1. CASE Tick \/ UNCHANGED vars
  <2>1. row' = row /\ exec' = exec
    BY <1>1 DEF Tick, vars
  <2> QED BY <2>1, RunsOpen DEF OpenInv
<1>2. CASE Sweep
  BY <1>2, SweepOpen
<1>3. ASSUME NEW r \in Run,
             \/ Owner(r) \/ Claim(r) \/ SetHold(r) \/ End(r)
             \/ ChildWaits(r) \/ ChildRuns(r) \/ ChildEnds(r)
      PROVE  OpenInv'
  BY <1>3, OwnerOpen, ClaimOpen, SetHoldOpen, EndOpen, ChildStepsOpen
<1>4. ASSUME NEW e \in Event, DeliverAny(e) \/ Publish(e)
      PROVE  OpenInv'
  BY <1>4, DeliverAnyOpen, PublishOpen
<1>5. ASSUME NEW e \in Event, NEW r \in Run,
             Deliver(e, r) \/ PublishTo(e, r) \/ \E l \in Listen : Respond(r, l, e)
      PROVE  OpenInv'
  BY <1>5, DeliveriesOpen, RespondOpen
<1> QED BY <1>1, <1>2, <1>3, <1>4, <1>5 DEF Next

LEMMA OpenStep == Inv /\ OnceInv /\ OpenInv /\ [Next]_vars => Inv' /\ OnceInv' /\ OpenInv'
BY NextInv, NextOnce, NextOpen DEF Kept

\* A run that suspended keeps each of its listens open, however it came there, by
\* takes, timeouts, restarts of its executor or expiry: it is subscribed, an
\* operator finds its wait, and the wait and its one listener are at the position
\* where the next event goes (subscribe, describe_wait, take_event, finish).
THEOREM Suspensions == Spec => []SuspendedIsOpen
<1>1. Inv /\ OnceInv /\ OpenInv => SuspendedIsOpen
  <2> SUFFICES ASSUME Inv, OnceInv, OpenInv, NEW r \in Run, NEW l \in Waiting(r)
               PROVE  /\ l \in row[r].subscriptions
                      /\ {w \in row[r].waits : w.at = l} = {Position(row[r], l)}
                      /\ {k \in row[r].listeners : k.at = l} = {Position(row[r], l)}
    BY DEF SuspendedIsOpen
  <2>1. l \in Listen /\ row[r].state = "Waiting" /\ l \notin row[r].over
    BY DEF Waiting
  <2>2. OpenRow(row[r], exec[r]) /\ RowInv(row[r])
    BY OfOpen
  <2>3. /\ l \in row[r].subscriptions /\ Position(row[r], l) \in row[r].listeners
        /\ {w \in row[r].waits : w.at = l} = {Position(row[r], l)}
    BY <2>1, <2>2 DEF OpenRow
  <2>4. \A k \in row[r].listeners : k.at = l => k = Position(row[r], l)
    <3>1. \A k \in row[r].listeners \ {ChildKey} : k.at \in Listen => k = Position(row[r], k.at)
      BY <2>2 DEF RowInv, ListenersAreOpen
    <3>2. ChildKey.at # l
      BY <2>1, KeysApart
    <3> QED BY <3>1, <3>2, <2>1
  <2>5. Position(row[r], l).at = l
    BY KeysApart
  <2> QED BY <2>3, <2>4, <2>5
<1> QED BY InitInv, InitOnce, InitOpen, OpenStep, <1>1, PTL DEF Spec

\* Where only the join listens for the end of its child, a parent suspended on a
\* child that has ended is due, whenever it ended: before the parent registered,
\* while it restarted or after it suspended (start_child, lifecycle, notify, accept).
THEOREM Joins ==
    ASSUME JoinIsOwn
    PROVE  Spec => []JoinIsWoken
<1>1. Inv /\ OnceInv /\ OpenInv => JoinIsWoken
  <2> SUFFICES ASSUME Inv, OnceInv, OpenInv, NEW r \in Parent,
                      row[r].state = "Waiting", "join" \notin row[r].over, row[r].child = "ended"
               PROVE  row[r].wake <= now
    BY DEF JoinIsWoken
  <2>1. r \in Run /\ "join" \in Branch(r)
    BY JoinBranch, ProgramAssumption
  <2>2. /\ OpenRow(row[r], exec[r]) /\ HeardRow(row[r]) /\ RowOK(row[r])
        /\ now \in Nat /\ now < Never /\ exec[r] \in [Branch(r) -> Pc]
    BY <2>1, OfOpen
  <2>3. JoinKey \in row[r].listeners /\ Taken(row[r], "join") = 0
    BY <2>1, <2>2 DEF OpenRow
  <2>4. PICK n : n \in Dones(row[r])
    BY <2>2, <2>3 DEF HeardRow, Live
  <2>5. row[r].copies[n].expires = Never /\ row[r].copies[n].key = None
    BY <2>2, <2>3, <2>4 DEF HeardRow
  <2>6. n \in Takeable(row[r], KeyTypes(JoinKey))
    <3>1. KeyTypes(JoinKey) = {Done}
      BY KeysApart DEF KeyTypes
    <3> QED BY <3>1, <2>4, <2>5 DEF Takeable, Pending, Dones
  <2>7. ~Expired(row[r].copies[n])
    BY <2>2, <2>5, NoticeTypes DEF Expired
  <2>8. JoinKey \in row[r].listeners \ {ChildKey}
    BY <2>3, KeysApart
  <2> QED BY <2>2, <2>6, <2>7, <2>8 DEF RowOK, Woken
<1> QED BY InitInv, InitOnce, InitOpen, OpenStep, <1>1, PTL DEF Spec

=============================================================================
