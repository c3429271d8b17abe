------------------------- MODULE AlertDelivery_proofs -------------------------
(***************************************************************************)
(* AlertDelivery for any events, channels, providers and processes, and    *)
(* however often a process dies.                                           *)
(***************************************************************************)
EXTENDS AlertDelivery, FiniteSetTheorems, SequenceTheorems, TLAPS

LEMMA ChannelNames == Channels \in Seq(ToSet(Channels))
BY ChannelsAssumption

------------------------------------------------------------------------------
\* Sequences without repetition, and their elements.

LEMMA Elements ==
    ASSUME NEW S, NEW s \in Seq(S)
    PROVE  /\ Len(s) \in Nat /\ DOMAIN s = 1..Len(s)
           /\ \A i \in 1..Len(s) : s[i] \in S
           /\ ToSet(s) = {s[i] : i \in 1..Len(s)} /\ ToSet(s) \subseteq S
BY DEF ToSet

LEMMA FiniteElements == ASSUME NEW S, NEW s \in Seq(S) PROVE IsFiniteSet(ToSet(s))
<1>1. s \in Surjection(1..Len(s), ToSet(s))
  BY Elements DEF Surjection, ToSet
<1>2. IsFiniteSet(1..Len(s))
  BY Elements, FS_Interval
<1> QED
  BY <1>1, <1>2, FS_Surjection

LEMMA Distinct ==
    ASSUME NEW S, NEW s \in Seq(S), IsInjective(s), NEW i \in 1..Len(s), NEW j \in 1..Len(s),
           s[i] = s[j]
    PROVE  i = j
BY Elements DEF IsInjective

LEMMA Prefix ==
    ASSUME NEW S, NEW s \in Seq(S), NEW n \in 0..Len(s)
    PROVE  ToSet(SubSeq(s, 1, n)) = {s[i] : i \in 1..n}
<1>1. \A i \in 1..n : s[i] \in S
  BY Elements
<1>2. n \in Nat
  BY Elements
<1>3. /\ SubSeq(s, 1, n) \in Seq(S) /\ Len(SubSeq(s, 1, n)) = n
      /\ \A i \in 1..n : SubSeq(s, 1, n)[i] = s[i]
  BY <1>1, <1>2, SubSeqProperties
<1> DEFINE t == SubSeq(s, 1, n)
<1>4. ToSet(t) = {t[i] : i \in 1..n}
  BY <1>3, Elements
<1> QED
  BY <1>3, <1>4

\* What is left of a list lacks its first element and nothing else.
LEMMA RestOfList ==
    ASSUME NEW S, NEW s \in Seq(S), s # <<>>, IsInjective(s)
    PROVE  /\ Head(s) \in ToSet(s) /\ Tail(s) \in Seq(S) /\ IsInjective(Tail(s))
           /\ ToSet(Tail(s)) \subseteq ToSet(s) \ {Head(s)}
<1>1. /\ Head(s) = s[1] /\ Len(s) \in Nat \ {0} /\ Tail(s) \in Seq(S)
      /\ Len(Tail(s)) = Len(s) - 1 /\ DOMAIN Tail(s) = 1..Len(s) - 1
      /\ \A i \in 1..Len(s) - 1 : Tail(s)[i] = s[i + 1]
  OBVIOUS
<1>2. \A i \in 1..Len(s) - 1 : i + 1 \in 1..Len(s) /\ i + 1 # 1
  BY <1>1
<1>3. IsInjective(Tail(s))
  <2> SUFFICES ASSUME NEW i \in 1..Len(s) - 1, NEW j \in 1..Len(s) - 1,
                      Tail(s)[i] = Tail(s)[j]
               PROVE  i = j
    BY <1>1 DEF IsInjective
  <2>1. i + 1 = j + 1
    BY <1>1, <1>2, Distinct
  <2> QED
    BY <1>1, <2>1
<1>4. ASSUME NEW x \in ToSet(Tail(s)) PROVE x \in ToSet(s) /\ x # Head(s)
  <2>1. PICK i \in 1..Len(s) - 1 : x = s[i + 1]
    BY <1>1 DEF ToSet
  <2>2. 1 \in 1..Len(s) /\ i + 1 \in 1..Len(s) /\ i + 1 # 1
    BY <1>1
  <2>3. s[i + 1] # s[1]
    BY <2>2, Distinct
  <2> QED
    BY <1>1, <2>1, <2>2, <2>3, Elements
<1>5. Head(s) \in ToSet(s)
  BY <1>1, Elements
<1> QED
  BY <1>1, <1>3, <1>4, <1>5

LEMMA Inserted ==
    ASSUME NEW S, NEW s \in Seq(S), NEW e \in S, NEW i \in 1..Len(s) + 1,
           NEW t, t = InsertAt(s, i, e)
    PROVE  /\ t \in Seq(S) /\ Len(t) = Len(s) + 1
           /\ \A k \in 1..Len(s) + 1 :
                 t[k] = IF k < i THEN s[k] ELSE IF k = i THEN e ELSE s[k - 1]
<1> DEFINE before == SubSeq(s, 1, i - 1)
           after == SubSeq(s, i, Len(s))
<1>0. Len(s) \in Nat /\ i \in Nat /\ i >= 1 /\ i <= Len(s) + 1 /\ \A k \in 1..Len(s) : s[k] \in S
  BY Elements
<1>1. /\ before \in Seq(S) /\ Len(before) = i - 1
      /\ \A k \in 1..i - 1 : before[k] = s[k]
  <2>1. \A k \in 1..i - 1 : s[k] \in S
    BY <1>0
  <2>2. /\ before \in Seq(S) /\ Len(before) = IF 1 <= i - 1 THEN i - 1 - 1 + 1 ELSE 0
        /\ \A k \in 1..i - 1 - 1 + 1 : before[k] = s[1 + k - 1]
    BY <1>0, <2>1, SubSeqProperties
  <2> HIDE DEF before
  <2> QED
    BY <1>0, <2>2
<1>2. /\ after \in Seq(S) /\ Len(after) = Len(s) - i + 1
      /\ \A k \in 1..Len(s) - i + 1 : after[k] = s[i + k - 1]
  <2>1. \A k \in i..Len(s) : s[k] \in S
    BY <1>0
  <2>2. /\ after \in Seq(S) /\ Len(after) = IF i <= Len(s) THEN Len(s) - i + 1 ELSE 0
        /\ \A k \in 1..Len(s) - i + 1 : after[k] = s[i + k - 1]
    BY <1>0, <2>1, SubSeqProperties
  <2> HIDE DEF after
  <2> QED
    BY <1>0, <2>2
<1> HIDE DEF before, after
<1>3. <<e>> \in Seq(S) /\ Len(<<e>>) = 1 /\ <<e>>[1] = e
  OBVIOUS
<1>4. /\ before \o <<e>> \in Seq(S) /\ Len(before \o <<e>>) = i
      /\ \A k \in 1..i : (before \o <<e>>)[k] = IF k < i THEN s[k] ELSE e
  <2>1. /\ before \o <<e>> \in Seq(S) /\ Len(before \o <<e>>) = i - 1 + 1
        /\ \A k \in 1..i - 1 + 1 :
              (before \o <<e>>)[k] = IF k <= i - 1 THEN before[k] ELSE <<e>>[k - (i - 1)]
    BY <1>1, <1>3, ConcatProperties
  <2>2. i - 1 + 1 = i /\ i - (i - 1) = 1
    BY <1>0
  <2>3. ASSUME NEW k \in 1..i PROVE (before \o <<e>>)[k] = IF k < i THEN s[k] ELSE e
    <3>1. CASE k < i
      <4>1. k <= i - 1 /\ k \in 1..i - 1
        BY <1>0, <3>1
      <4> QED
        BY <1>1, <2>1, <2>2, <3>1, <4>1
    <3>2. CASE ~(k < i)
      <4>1. k = i /\ ~(k <= i - 1)
        BY <1>0, <3>2
      <4> QED
        BY <1>3, <2>1, <2>2, <3>2, <4>1
    <3> QED
      BY <3>1, <3>2
  <2> QED
    BY <2>1, <2>2, <2>3
<1>5. t = (before \o <<e>>) \o after
  BY DEF InsertAt, before, after
<1>6. /\ t \in Seq(S)
      /\ Len(t) = i + (Len(s) - i + 1)
      /\ \A k \in 1..i + (Len(s) - i + 1) :
            t[k] = IF k <= i THEN (before \o <<e>>)[k] ELSE after[k - i]
  <2> DEFINE upTo == before \o <<e>>
  <2>1. upTo \in Seq(S) /\ Len(upTo) = i
    BY <1>4
  <2> HIDE DEF upTo
  <2>2. /\ upTo \o after \in Seq(S)
        /\ Len(upTo \o after) = i + (Len(s) - i + 1)
        /\ \A k \in 1..i + (Len(s) - i + 1) :
              (upTo \o after)[k] = IF k <= i THEN upTo[k] ELSE after[k - i]
    <3>1. /\ upTo \o after \in Seq(S)
          /\ Len(upTo \o after) = Len(upTo) + Len(after)
          /\ \A k \in 1..Len(upTo) + Len(after) :
                (upTo \o after)[k] = IF k <= Len(upTo) THEN upTo[k] ELSE after[k - Len(upTo)]
      BY <1>2, <2>1, ConcatProperties, Zenon
    <3>2. Len(upTo) = i /\ Len(after) = Len(s) - i + 1
      BY <1>2, <2>1
    <3> QED
      BY <3>1, <3>2, Zenon
  <2>3. t = upTo \o after
    BY <1>5 DEF upTo
  <2>4. /\ t \in Seq(S)
        /\ Len(t) = i + (Len(s) - i + 1)
        /\ \A k \in 1..i + (Len(s) - i + 1) :
              t[k] = IF k <= i THEN upTo[k] ELSE after[k - i]
    BY <2>2, <2>3, Zenon
  <2> QED
    BY <2>4, Zenon DEF upTo
<1>7. i + (Len(s) - i + 1) = Len(s) + 1
  BY <1>0
<1>8. ASSUME NEW k \in 1..Len(s) + 1
      PROVE  t[k] = IF k < i THEN s[k] ELSE IF k = i THEN e ELSE s[k - 1]
  <2>1. CASE k <= i
    <3>1. k \in 1..i
      BY <1>0, <2>1
    <3> QED
      BY <1>0, <1>4, <1>6, <1>7, <2>1, <3>1
  <2>2. CASE ~(k <= i)
    <3>1. k - i \in 1..Len(s) - i + 1 /\ i + (k - i) - 1 = k - 1 /\ ~(k < i) /\ k # i
      BY <1>0, <2>2
    <3> QED
      BY <1>2, <1>6, <1>7, <2>2, <3>1
  <2> QED
    BY <2>1, <2>2
<1> QED
  BY <1>6, <1>7, <1>8

LEMMA InsertedElements ==
    ASSUME NEW S, NEW s \in Seq(S), NEW e \in S, NEW i \in 1..Len(s) + 1,
           NEW t, t = InsertAt(s, i, e)
    PROVE  /\ ToSet(t) = ToSet(s) \cup {e}
           /\ \A k \in 1..i - 1 : t[k] = s[k]
           /\ IsInjective(s) /\ e \notin ToSet(s) => IsInjective(t)
<1>0. Len(s) \in Nat /\ i \in 1..Len(s) + 1 /\ ToSet(s) = {s[k] : k \in 1..Len(s)}
  BY Elements
<1>1. /\ t \in Seq(S) /\ Len(t) = Len(s) + 1
      /\ \A k \in 1..Len(s) + 1 :
            t[k] = IF k < i THEN s[k] ELSE IF k = i THEN e ELSE s[k - 1]
  BY Inserted
<1>2. ToSet(t) = {t[k] : k \in 1..Len(s) + 1} /\ DOMAIN t = 1..Len(s) + 1
  BY <1>1, Elements
<1>3. ToSet(t) = ToSet(s) \cup {e}
  <2>1. ASSUME NEW x \in ToSet(t) PROVE x \in ToSet(s) \cup {e}
    <3>1. PICK k \in 1..Len(s) + 1 : x = t[k]
      BY <1>2, <2>1
    <3>2. (k < i => k \in 1..Len(s)) /\ (k > i => k - 1 \in 1..Len(s))
      BY <1>0
    <3> QED
      BY <1>0, <1>1, <3>1, <3>2
  <2>2. ASSUME NEW x \in ToSet(s) PROVE x \in ToSet(t)
    <3>1. PICK k \in 1..Len(s) : x = s[k]
      BY <1>0, <2>2
    <3>2. CASE k < i
      BY <1>0, <1>1, <1>2, <3>1, <3>2
    <3>3. CASE ~(k < i)
      <4>1. k + 1 \in 1..Len(s) + 1 /\ ~(k + 1 < i) /\ k + 1 # i /\ k + 1 - 1 = k
        BY <1>0, <3>3
      <4>2. t[k + 1] = s[k]
        BY <1>1, <4>1
      <4> QED
        BY <1>2, <3>1, <4>1, <4>2
    <3> QED
      BY <3>2, <3>3
  <2>3. e \in ToSet(t)
    BY <1>0, <1>1, <1>2
  <2> QED
    BY <2>1, <2>2, <2>3
<1>4. ASSUME NEW k \in 1..i - 1 PROVE t[k] = s[k]
  BY <1>0, <1>1
<1>5. ASSUME IsInjective(s), e \notin ToSet(s) PROVE IsInjective(t)
  <2> SUFFICES ASSUME NEW a \in 1..Len(s) + 1, NEW b \in 1..Len(s) + 1, t[a] = t[b], a < b
               PROVE  FALSE
    BY <1>0, <1>2 DEF IsInjective
  <2>1. ASSUME NEW k \in 1..Len(s) + 1
        PROVE  /\ k < i => t[k] = s[k] /\ k \in 1..Len(s)
               /\ k > i => t[k] = s[k - 1] /\ k - 1 \in 1..Len(s)
               /\ k = i => t[k] = e
    BY <1>0, <1>1
  <2>2. a # i /\ b # i
    BY <1>0, <1>5, <2>1
  <2>3. CASE b < i
    <3>1. s[a] = s[b] /\ a \in 1..Len(s) /\ b \in 1..Len(s)
      BY <1>0, <2>1, <2>3
    <3> QED
      BY <1>5, <3>1, Distinct
  <2>4. CASE a < i /\ b > i
    <3>1. s[a] = s[b - 1] /\ a \in 1..Len(s) /\ b - 1 \in 1..Len(s)
      BY <2>1, <2>4
    <3>2. a # b - 1
      BY <1>0, <2>4
    <3> QED
      BY <1>5, <3>1, <3>2, Distinct
  <2>5. CASE a > i
    <3>1. s[a - 1] = s[b - 1] /\ a - 1 \in 1..Len(s) /\ b - 1 \in 1..Len(s)
      BY <1>0, <2>1, <2>5
    <3>2. a - 1 # b - 1
      OBVIOUS
    <3> QED
      BY <1>5, <3>1, <3>2, Distinct
  <2> QED
    BY <1>0, <2>2, <2>3, <2>4, <2>5
<1> QED
  BY <1>3, <1>4, <1>5

\* A list in order has every delivery of its set, once.
LEMMA Ordered ==
    ASSUME NEW S, IsFiniteSet(S), NEW list \in InOrder(S)
    PROVE  list \in Seq(S) /\ IsInjective(list) /\ ToSet(list) = S
<1>1. Cardinality(S) \in Nat
  BY FS_CardinalityType
<1>2. list \in [1..Cardinality(S) -> S] /\ IsInjective(list)
  BY Zenon DEF InOrder, Bijection, Injection
<1>3. \A x \in S : \E i \in 1..Cardinality(S) : list[i] = x
  BY Zenon DEF InOrder, Bijection, Surjection
<1> QED
  BY <1>1, <1>2, <1>3 DEF ToSet

------------------------------------------------------------------------------
\* No event is stored twice; what a call has still to do is due, was not known to
\* be sent, and names nothing twice; and an answer of success waiting to be
\* recorded is one the provider has given for the delivery in hand.
Placed == IsInjective(queue)

Listed ==
    \A w \in Workers :
        /\ IsInjective(pending[w])
        /\ ToSet(pending[w]) \subseteq Ripe \X ToSet(Channels)
        /\ ToSet(pending[w]) \cap known[w] = {}
        /\ pc[w] = "answered" => pending[w] # <<>>
        /\ answer[w] = "sent" => pc[w] = "answered" /\ Current(w) \in acknowledged

IInv == TypeOK /\ Placed /\ Listed

LEMMA QueuedIs ==
    ASSUME TypeOK
    PROVE  /\ Len(queue) \in Nat /\ \A i \in 1..Len(queue) : queue[i] \in Events
           /\ Queued = {queue[i] : i \in 1..Len(queue)} /\ Queued \subseteq Events
           /\ Ripe = {queue[i] : i \in 1..ripe} /\ Ripe \subseteq Queued
<1>1. queue \in Seq(Events) /\ ripe \in 0..Len(queue)
  BY DEF TypeOK
<1>2. Ripe = {queue[i] : i \in 1..ripe}
  BY <1>1, Prefix DEF Ripe
<1>3. /\ Len(queue) \in Nat /\ \A i \in 1..Len(queue) : queue[i] \in Events
      /\ Queued = {queue[i] : i \in 1..Len(queue)} /\ Queued \subseteq Events
  BY <1>1, Elements DEF Queued
<1>4. 1..ripe \subseteq 1..Len(queue)
  BY <1>1, <1>3
<1> QED
  BY <1>2, <1>3, <1>4

LEMMA UnsentFinite == ASSUME TypeOK PROVE IsFiniteSet(Unsent) /\ Unsent \subseteq Deliveries
<1>1. IsFiniteSet(Queued)
  BY FiniteElements DEF TypeOK, Queued
<1>2. IsFiniteSet(Ripe)
  BY <1>1, QueuedIs, FS_Subset
<1>3. IsFiniteSet(ToSet(Channels))
  BY ChannelNames, FiniteElements
<1>4. IsFiniteSet(Ripe \X ToSet(Channels))
  BY <1>2, <1>3, FS_Product
<1> QED
  BY <1>4, FS_Difference, QueuedIs DEF Unsent, Deliveries

LEMMA InitInv == Init => IInv
<1> SUFFICES ASSUME Init PROVE IInv
  OBVIOUS
<1>1. /\ <<>> \in Seq(Events) /\ <<>> \in Seq(Deliveries) /\ Len(<<>>) = 0
      /\ IsInjective(<<>>) /\ ToSet(<<>>) = {}
  BY DEF IsInjective, ToSet
<1>2. TypeOK
  BY <1>1 DEF Init, TypeOK
<1>3. Placed /\ Listed
  BY <1>1 DEF Init, Placed, Listed
<1> QED
  BY <1>2, <1>3 DEF IInv

\* Leaving a call leaves nothing to do.
LEMMA LeaveInv == ASSUME IInv, NEW w \in Workers, Leave(w) PROVE IInv'
<1>1. /\ <<>> \in Seq(Deliveries) /\ IsInjective(<<>>) /\ ToSet(<<>>) = {}
  BY DEF IsInjective, ToSet
<1>2. TypeOK'
  BY <1>1 DEF Leave, IInv, TypeOK
<1>3. Placed' /\ Ripe' = Ripe
  BY DEF Leave, IInv, Placed, Ripe
<1>4. ASSUME NEW v \in Workers
      PROVE  /\ pending'[v] = IF v = w THEN <<>> ELSE pending[v]
             /\ known'[v] = IF v = w THEN {} ELSE known[v]
             /\ pc'[v] = IF v = w THEN "idle" ELSE pc[v]
             /\ answer'[v] = IF v = w THEN "none" ELSE answer[v]
             /\ acknowledged' = acknowledged
  BY DEF Leave, IInv, TypeOK
<1>5. Listed'
  BY <1>1, <1>3, <1>4 DEF IInv, Listed, Current
<1> QED
  BY <1>2, <1>3, <1>5 DEF IInv

\* What a delivery in hand is, and what is left after it.
LEMMA InHand ==
    ASSUME IInv, NEW w \in Workers, pending[w] # <<>>
    PROVE  /\ Current(w) \in Deliveries /\ Current(w)[1] \in Ripe
           /\ Current(w) \notin known[w]
           /\ Rest(w) \in Seq(Deliveries) /\ IsInjective(Rest(w))
           /\ ToSet(Rest(w)) \subseteq Ripe \X ToSet(Channels)
           /\ ToSet(Rest(w)) \cap known[w] = {}
           /\ Current(w) \notin ToSet(Rest(w))
<1>1. pending[w] \in Seq(Deliveries) /\ IsInjective(pending[w])
  BY DEF IInv, TypeOK, Listed
<1>2. /\ Current(w) \in ToSet(pending[w]) /\ Rest(w) \in Seq(Deliveries)
      /\ IsInjective(Rest(w)) /\ ToSet(Rest(w)) \subseteq ToSet(pending[w]) \ {Current(w)}
  BY <1>1, RestOfList DEF Current, Rest
<1>3. ToSet(pending[w]) \subseteq Deliveries
  BY <1>1, Elements
<1> QED
  BY <1>2, <1>3 DEF IInv, Listed

LEMMA NextInv == IInv /\ [Next]_vars => IInv'
<1> SUFFICES ASSUME IInv, [Next]_vars PROVE IInv'
  OBVIOUS
<1>0. TypeOK /\ Placed /\ Listed
  BY DEF IInv
<1>1. ASSUME NEW e \in Events, Store(e) PROVE IInv'
  <2>1. PICK i \in ripe + 1..Len(queue) + 1 : queue' = InsertAt(queue, i, e)
    BY <1>1 DEF Store
  <2>2. /\ queue \in Seq(Events) /\ Len(queue) \in Nat /\ ripe \in 0..Len(queue)
        /\ i \in 1..Len(queue) + 1 /\ ripe \in 0..i - 1
    BY <1>0, QueuedIs DEF TypeOK
  <2>3. /\ queue' \in Seq(Events) /\ Len(queue') = Len(queue) + 1
    BY <2>1, <2>2, Inserted
  <2>4. /\ IsInjective(queue')
        /\ {queue'[k] : k \in 1..ripe} = {queue[k] : k \in 1..ripe}
    <3>1. IsInjective(queue) /\ e \notin ToSet(queue)
      BY <1>0, <1>1 DEF Store, Queued, Placed
    <3>2. /\ IsInjective(queue) /\ e \notin ToSet(queue) => IsInjective(queue')
          /\ \A k \in 1..i - 1 : queue'[k] = queue[k]
      BY <2>1, <2>2, InsertedElements
    <3>3. 1..ripe \subseteq 1..i - 1
      BY <2>2
    <3> QED
      BY <3>1, <3>2, <3>3
  <2>5. TypeOK'
    BY <1>0, <1>1, <2>2, <2>3 DEF Store, TypeOK
  <2>6. Ripe' = Ripe
    <3>1. Ripe' = {queue'[k] : k \in 1..ripe}
      BY <1>1, <2>2, <2>3, Prefix DEF Ripe, Store
    <3> QED
      BY <1>0, <2>4, <3>1, QueuedIs
  <2> QED
    BY <1>0, <1>1, <2>4, <2>5, <2>6 DEF IInv, Placed, Listed, Current, Store
<1>2. CASE Ripen
  <2>1. ripe' \in 0..Len(queue) /\ ripe \in 0..ripe' /\ Len(queue) \in Nat
    BY <1>0, <1>2, QueuedIs DEF Ripen, TypeOK
  <2>2. TypeOK'
    BY <1>0, <1>2, <2>1 DEF Ripen, TypeOK
  <2>3. Ripe \subseteq Ripe'
    <3>1. Ripe' = {queue[k] : k \in 1..ripe'}
      BY <1>0, <1>2, <2>1, Prefix DEF Ripe, Ripen, TypeOK
    <3>2. 1..ripe \subseteq 1..ripe'
      BY <2>1
    <3> QED
      BY <1>0, <3>1, <3>2, QueuedIs
  <2> QED
    BY <1>0, <1>2, <2>2, <2>3 DEF IInv, Placed, Listed, Current, Ripen
<1>3. ASSUME NEW w \in Workers, ReadPending(w) PROVE IInv'
  <2>1. PICK list \in InOrder(Unsent) : pending' = [pending EXCEPT ![w] = list]
    BY <1>3 DEF ReadPending
  <2>2. list \in Seq(Unsent) /\ IsInjective(list) /\ ToSet(list) = Unsent
    BY <1>0, UnsentFinite, Ordered
  <2>3. list \in Seq(Deliveries)
    BY <1>0, <2>2, UnsentFinite, SeqMonotonic
  <2>4. TypeOK'
    BY <1>0, <1>3, <2>1, <2>3 DEF ReadPending, TypeOK
  <2>5. Placed' /\ Ripe' = Ripe
    BY <1>0, <1>3 DEF ReadPending, Placed, Ripe
  <2>6. ASSUME NEW v \in Workers
        PROVE  /\ pending'[v] = IF v = w THEN list ELSE pending[v]
               /\ known'[v] = IF v = w THEN recorded ELSE known[v]
               /\ pc'[v] = IF v = w THEN "working" ELSE pc[v]
               /\ answer'[v] = answer[v] /\ acknowledged' = acknowledged
               /\ pc[w] = "idle"
    BY <1>0, <1>3, <2>1 DEF ReadPending, TypeOK
  <2>7. Listed'
    BY <1>0, <2>2, <2>5, <2>6 DEF Listed, Unsent, Current
  <2> QED
    BY <2>4, <2>5, <2>7 DEF IInv
<1>4. ASSUME NEW w \in Workers, Unconfigured(w) PROVE IInv'
  <2>1. pending[w] # <<>> /\ pc[w] = "working"
    BY <1>4 DEF Unconfigured, HasCurrent
  <2>2. TypeOK'
    BY <1>0, <1>4, <2>1, InHand DEF Unconfigured, TypeOK
  <2>3. Placed' /\ Ripe' = Ripe
    BY <1>0, <1>4 DEF Unconfigured, Placed, Ripe
  <2>4. \A v \in Workers : pending'[v] = IF v = w THEN Rest(w) ELSE pending[v]
    BY <1>0, <1>4 DEF Unconfigured, TypeOK
  <2>5. Listed'
    BY <1>0, <1>4, <2>1, <2>3, <2>4, InHand DEF Unconfigured, Listed, Current
  <2> QED
    BY <2>2, <2>3, <2>5 DEF IInv
<1>5. ASSUME NEW w \in Workers, Ask(w) PROVE IInv'
  <2>1. pending[w] # <<>> /\ pc[w] = "working" /\ Current(w) \in Deliveries
    BY <1>5, InHand DEF Ask, SendSucceeds, SendFails, HasCurrent
  <2>2. /\ UNCHANGED <<queue, ripe, recorded, pending, known>>
        /\ pc' = [pc EXCEPT ![w] = "answered"]
        /\ taken' \in {taken, taken \cup {Current(w)}}
        /\ \/ /\ answer' = [answer EXCEPT ![w] = "sent"]
              /\ acknowledged' = acknowledged \cup {Current(w)}
           \/ answer' = [answer EXCEPT ![w] = "failed"] /\ acknowledged' = acknowledged
    BY <1>5 DEF Ask, SendSucceeds, SendFails, Answered
  <2>3. TypeOK'
    BY <1>0, <2>1, <2>2 DEF TypeOK
  <2>4. Placed' /\ Ripe' = Ripe
    BY <1>0, <2>2 DEF Placed, Ripe
  <2>5. \A v \in Workers : /\ pc'[v] = IF v = w THEN "answered" ELSE pc[v]
                           /\ v # w => answer'[v] = answer[v]
    BY <1>0, <2>2 DEF TypeOK
  <2>6. acknowledged \subseteq acknowledged' /\ (answer'[w] = "sent" => Current(w) \in acknowledged')
    BY <1>0, <2>2 DEF TypeOK
  <2>7. Listed'
    BY <1>0, <2>1, <2>2, <2>4, <2>5, <2>6 DEF Listed, Current
  <2> QED
    BY <2>3, <2>4, <2>7 DEF IInv
<1>6. ASSUME NEW w \in Workers, Record(w) PROVE IInv'
  <2>1. pending[w] # <<>> /\ pc[w] = "answered"
    BY <1>0, <1>6 DEF Record, Listed
  <2>2. recorded \subseteq recorded' /\ recorded' \subseteq recorded \cup {Current(w)}
    BY <1>6 DEF Record, RecordedAfter
  <2>3. TypeOK'
    BY <1>0, <1>6, <2>1, <2>2, InHand DEF Record, TypeOK
  <2>4. Placed' /\ Ripe' = Ripe
    BY <1>0, <1>6 DEF Record, Placed, Ripe
  <2>5. ASSUME NEW v \in Workers
        PROVE  /\ pending'[v] = IF v = w THEN Rest(w) ELSE pending[v]
               /\ v # w => known'[v] = known[v]
               /\ known'[w] \subseteq known[w] \cup {Current(w)}
               /\ pc'[v] = IF v = w THEN "working" ELSE pc[v]
               /\ answer'[v] = IF v = w THEN "none" ELSE answer[v]
               /\ acknowledged' = acknowledged
    BY <1>0, <1>6, <2>2 DEF Record, TypeOK
  <2>6. Listed'
    BY <1>0, <2>1, <2>4, <2>5, InHand DEF Listed, Current
  <2> QED
    BY <2>3, <2>4, <2>6 DEF IInv
<1>7. ASSUME NEW w \in Workers, RecordRefused(w) \/ Return(w) \/ Crash(w) PROVE IInv'
  BY <1>7, LeaveInv DEF RecordRefused, Return, Crash
<1>8. CASE UNCHANGED vars
  BY <1>0, <1>8 DEF vars, IInv, TypeOK, Placed, Listed, Ripe, Current
<1> QED
  BY <1>1, <1>2, <1>3, <1>4, <1>5, <1>6, <1>7, <1>8 DEF Next, Proceed

LEMMA InvAlways == Spec => []IInv
BY InitInv, NextInv, PTL DEF Spec

\* Types of the queue, the attempts and every call's list.
THEOREM DeliveryTyped == Spec => []TypeOK
<1>1. IInv => TypeOK
  BY DEF IInv
<1> QED
  BY <1>1, InvAlways, PTL

\* A call asks for nothing that had been recorded when it read its list
\* (_read_pending_deliveries), nor twice for what it has recorded itself.
THEOREM RecordedStaysFinal == Spec => RecordedIsFinal
<1>1. ASSUME IInv, [Next]_vars, NEW w \in Workers, Asks(w) PROVE Current(w) \notin known[w]
  <2>1. pc[w] = "working" /\ pc'[w] = "answered" /\ pc \in [Workers -> {"idle", "working", "answered"}]
    BY <1>1 DEF Asks, IInv, TypeOK
  <2>2. pending[w] # <<>>
    <3>1. ASSUME NEW v \in Workers, Proceed(v) \/ Crash(v) PROVE pending[w] # <<>>
      <4>1. CASE v = w
        BY <2>1, <3>1, <4>1
           DEF Proceed, ReadPending, Unconfigured, Ask, SendSucceeds, SendFails, HasCurrent,
               Record, RecordRefused, Return, Crash, Leave
      <4>2. CASE v # w
        BY <2>1, <3>1, <4>2
           DEF Proceed, ReadPending, Unconfigured, Ask, SendSucceeds, SendFails, Answered,
               Record, RecordRefused, Return, Crash, Leave
      <4> QED
        BY <4>1, <4>2
    <3>2. (\E v \in Workers : Proceed(v) \/ Crash(v)) \/ pc' = pc
      BY <1>1 DEF Next, Store, Ripen, vars
    <3> QED
      BY <2>1, <3>1, <3>2
  <2> QED
    BY <1>1, <2>2, InHand
<1>2. IInv /\ [Next]_vars => [\A w \in Workers : Asks(w) => Current(w) \notin known[w]]_vars
  BY <1>1
<1> QED
  BY <1>2, InvAlways, PTL DEF Spec, RecordedIsFinal

------------------------------------------------------------------------------
(***************************************************************************)
(* The order of the query is a total one: by deliver_after, and of one     *)
(* event by channel, of which none is named twice.  So whatever is unsent, *)
(* there is a list of it for a call to work on.                            *)
(***************************************************************************)
LEMMA PrecedesOrders ==
    ASSUME NEW S, NEW s \in Seq(S), IsInjective(s)
    PROVE  /\ \A a, b \in ToSet(s) : a = b \/ Precedes(s, a, b) \/ Precedes(s, b, a)
           /\ \A a, b, c : Precedes(s, a, b) /\ Precedes(s, b, c) => Precedes(s, a, c)
           /\ \A a : ~Precedes(s, a, a)
<1>1. DOMAIN s = 1..Len(s) /\ Len(s) \in Nat /\ ToSet(s) = {s[i] : i \in 1..Len(s)}
  BY Elements
<1>2. ASSUME NEW a \in ToSet(s), NEW b \in ToSet(s)
      PROVE  a = b \/ Precedes(s, a, b) \/ Precedes(s, b, a)
  <2>1. PICK i \in 1..Len(s), j \in 1..Len(s) : s[i] = a /\ s[j] = b
    BY <1>1, <1>2
  <2>2. i < j \/ i = j \/ j < i
    BY <1>1
  <2> QED
    BY <1>1, <2>1, <2>2 DEF Precedes
<1>3. ASSUME NEW a, NEW b, NEW c, Precedes(s, a, b), Precedes(s, b, c)
      PROVE  Precedes(s, a, c)
  <2>1. PICK i \in 1..Len(s), j \in 1..Len(s) : i < j /\ s[i] = a /\ s[j] = b
    BY <1>1, <1>3 DEF Precedes
  <2>2. PICK k \in 1..Len(s), l \in 1..Len(s) : k < l /\ s[k] = b /\ s[l] = c
    BY <1>1, <1>3 DEF Precedes
  <2>3. j = k
    BY <2>1, <2>2, Distinct
  <2>4. i < l
    BY <1>1, <2>1, <2>2, <2>3
  <2> QED
    BY <1>1, <2>1, <2>2, <2>4 DEF Precedes
<1>4. ASSUME NEW a, Precedes(s, a, a) PROVE FALSE
  <2>1. PICK i \in 1..Len(s), j \in 1..Len(s) : i < j /\ s[i] = a /\ s[j] = a
    BY <1>1, <1>4 DEF Precedes
  <2>2. i = j
    BY <2>1, Distinct
  <2> QED
    BY <1>1, <2>1, <2>2
<1> QED
  BY <1>2, <1>3, <1>4

LEMMA BeforeOrders ==
    ASSUME IInv
    PROVE  /\ \A d, e \in Queued \X ToSet(Channels) : d = e \/ Before(d, e) \/ Before(e, d)
           /\ \A d, e, f : Before(d, e) /\ Before(e, f) => Before(d, f)
           /\ \A d : ~Before(d, d)
<1>1. queue \in Seq(Events) /\ IsInjective(queue) /\ Queued = ToSet(queue)
  BY DEF IInv, TypeOK, Placed, Queued
<1>2. Channels \in Seq(ToSet(Channels)) /\ IsInjective(Channels)
  BY ChannelsAssumption
<1>3. /\ \A a, b \in Queued : a = b \/ Precedes(queue, a, b) \/ Precedes(queue, b, a)
      /\ \A a, b, c : Precedes(queue, a, b) /\ Precedes(queue, b, c) => Precedes(queue, a, c)
      /\ \A a : ~Precedes(queue, a, a)
  BY <1>1, PrecedesOrders
<1>4. /\ \A a, b \in ToSet(Channels) :
            a = b \/ Precedes(Channels, a, b) \/ Precedes(Channels, b, a)
      /\ \A a, b, c : Precedes(Channels, a, b) /\ Precedes(Channels, b, c)
                         => Precedes(Channels, a, c)
      /\ \A a : ~Precedes(Channels, a, a)
  BY <1>2, PrecedesOrders
<1>5. ASSUME NEW d \in Queued \X ToSet(Channels), NEW e \in Queued \X ToSet(Channels)
      PROVE  d = e \/ Before(d, e) \/ Before(e, d)
  BY <1>3, <1>4 DEF Before
<1>6. ASSUME NEW d, NEW e, NEW f, Before(d, e), Before(e, f) PROVE Before(d, f)
  BY <1>3, <1>4, <1>6 DEF Before
<1> QED
  BY <1>3, <1>4, <1>5, <1>6 DEF Before

LEMMA LastOne ==
    ASSUME IInv, NEW S, S \subseteq Queued \X ToSet(Channels), IsFiniteSet(S), S # {}
    PROVE  \E m \in S : \A d \in S \ {m} : Before(d, m)
<1> DEFINE After(d) == {e \in S : Before(d, e)}
           T == {After(d) : d \in S}
           R == StrictSubsetOrdering(S)
<1>1. IsWellFoundedOn(R, SUBSET S)
  <2>1. FiniteSubsetsOf(S) = SUBSET S
    BY FS_FiniteSubsetsOfFinite
  <2> QED
    BY <2>1, FS_StrictSubsetOrderingWellFounded
<1>2. T \subseteq SUBSET S /\ T # {}
  OBVIOUS
<1>3. PICK x \in T : \A y \in T : ~(<<y, x>> \in R)
  <2> HIDE DEF T, R
  <2> QED
    BY <1>1, <1>2, WFMin
<1>4. PICK m \in S : x = After(m)
  BY <1>3
<1>5. ASSUME NEW d \in S \ {m}, ~Before(d, m) PROVE FALSE
  <2>1. Before(m, d)
    BY <1>5, BeforeOrders
  <2>2. After(d) \subseteq After(m) /\ d \in After(m) /\ d \notin After(d)
    BY <2>1, BeforeOrders
  <2>3. <<After(d), After(m)>> \in R
    BY <2>2 DEF StrictSubsetOrdering
  <2> QED
    BY <1>3, <1>4, <2>3
<1> QED
  BY <1>5

LEMMA OneMore ==
    ASSUME NEW S, IsFiniteSet(S), NEW m \in S, NEW list \in InOrder(S \ {m}),
           \A d \in S \ {m} : Before(d, m)
    PROVE  InOrder(S) # {}
<1> DEFINE n == Cardinality(S)
           longer == [i \in 1..n |-> IF i = n THEN m ELSE list[i]]
<1>1. /\ n \in Nat \ {0} /\ IsFiniteSet(S \ {m}) /\ Cardinality(S \ {m}) = n - 1
  BY FS_RemoveElement, FS_CardinalityType, FS_EmptySet
<1>2. /\ list \in [1..n - 1 -> S \ {m}]
      /\ \A i, j \in 1..n - 1 : list[i] = list[j] => i = j
      /\ \A d \in S \ {m} : \E i \in 1..n - 1 : list[i] = d
      /\ \A i, j \in 1..n - 1 : i < j => Before(list[i], list[j])
  <2>1. list \in Bijection(1..n - 1, S \ {m})
    BY <1>1 DEF InOrder
  <2>2. list \in [1..n - 1 -> S \ {m}] /\ IsInjective(list)
    BY <2>1, Zenon DEF Bijection, Injection
  <2>3. \A d \in S \ {m} : \E i \in 1..n - 1 : list[i] = d
    BY <2>1, Zenon DEF Bijection, Surjection
  <2> QED
    BY <2>2, <2>3 DEF InOrder, IsInjective
<1>3. \A i \in 1..n : i = n \/ i \in 1..n - 1
  BY <1>1
<1>4. longer \in [1..n -> S]
  BY <1>2, <1>3
<1>5. \A i, j \in 1..n : longer[i] = longer[j] => i = j
  BY <1>2, <1>3
<1>6. \A d \in S : \E i \in 1..n : longer[i] = d
  <2> SUFFICES ASSUME NEW d \in S, d # m PROVE \E i \in 1..n : longer[i] = d
    BY <1>1
  <2>1. PICK i \in 1..n - 1 : list[i] = d
    BY <1>2
  <2>2. i \in 1..n /\ i # n
    BY <1>1
  <2> QED
    BY <2>1, <2>2
<1>7. \A i, j \in 1..n : i < j => Before(longer[i], longer[j])
  <2> SUFFICES ASSUME NEW i \in 1..n, NEW j \in 1..n, i < j
               PROVE  Before(longer[i], longer[j])
    OBVIOUS
  <2>1. i \in 1..n - 1
    BY <1>1
  <2>2. CASE j = n
    BY <1>2, <2>1, <2>2
  <2>3. CASE j \in 1..n - 1
    BY <1>1, <1>2, <2>1, <2>3
  <2> QED
    BY <1>3, <2>2, <2>3
<1>8. longer \in Bijection(1..n, S)
  <2> HIDE DEF longer, n
  <2>1. longer \in Injection(1..n, S)
    BY <1>4, <1>5, Zenon DEF Injection, IsInjective
  <2>2. longer \in Surjection(1..n, S)
    BY <1>4, <1>6, Zenon DEF Surjection
  <2> QED
    BY <2>1, <2>2 DEF Bijection
<1> QED
  BY <1>7, <1>8 DEF InOrder

LEMMA ListOf ==
    ASSUME IInv, NEW S, S \subseteq Queued \X ToSet(Channels), IsFiniteSet(S)
    PROVE  InOrder(S) # {}
<1> DEFINE T == {U \in SUBSET S : InOrder(U) = {}}
           R == StrictSubsetOrdering(S)
<1> SUFFICES ASSUME InOrder(S) = {} PROVE FALSE
  OBVIOUS
<1>1. IsWellFoundedOn(R, SUBSET S)
  <2>1. FiniteSubsetsOf(S) = SUBSET S
    BY FS_FiniteSubsetsOfFinite
  <2> QED
    BY <2>1, FS_StrictSubsetOrderingWellFounded
<1>2. T \subseteq SUBSET S /\ T # {}
  OBVIOUS
<1>3. PICK U \in T : \A V \in T : ~(<<V, U>> \in R)
  <2> HIDE DEF T, R
  <2> QED
    BY <1>1, <1>2, WFMin
<1>4. U \subseteq S /\ InOrder(U) = {} /\ IsFiniteSet(U)
  BY <1>3, FS_Subset
<1>5. U # {}
  <2> SUFFICES ASSUME U = {} PROVE <<>> \in InOrder(U)
    BY <1>4
  <2>1. Cardinality(U) = 0 /\ 1..0 = {} /\ DOMAIN <<>> = {}
    BY FS_EmptySet
  <2>2. <<>> \in [1..0 -> U]
    BY <2>1
  <2> QED
    BY <2>1, <2>2 DEF InOrder, Bijection, Injection, Surjection, IsInjective
<1>6. PICK m \in U : \A d \in U \ {m} : Before(d, m)
  BY <1>4, <1>5, LastOne
<1>7. <<U \ {m}, U>> \in R
  BY <1>4, <1>6 DEF StrictSubsetOrdering
<1>8. InOrder(U \ {m}) # {}
  BY <1>3, <1>4, <1>7
<1> QED
  BY <1>4, <1>6, <1>8, OneMore

\* Whatever is due and unsent, a call finds a list of it (_read_pending_deliveries):
\* ReadPending is stopped by nothing but its guards.
THEOREM ListIsFound == Spec => [](InOrder(Unsent) # {})
<1>1. IInv => InOrder(Unsent) # {}
  <2> SUFFICES ASSUME IInv PROVE InOrder(Unsent) # {}
    OBVIOUS
  <2>1. IsFiniteSet(Unsent) /\ Ripe \subseteq Queued
    BY UnsentFinite, QueuedIs DEF IInv
  <2>2. Unsent \subseteq Queued \X ToSet(Channels)
    BY <2>1 DEF Unsent
  <2> QED
    BY <2>1, <2>2, ListOf
<1> QED
  BY <1>1, InvAlways, PTL

------------------------------------------------------------------------------
\* The refinement of AlertOutbox, step by step.

LEMMA InitOutbox == Init => Outbox!Init
<1> SUFFICES ASSUME Init PROVE Outbox!Init
  OBVIOUS
<1>1. queue = <<>> /\ Len(queue) = 0 /\ ripe = 0 /\ TypeOK
  BY InitInv DEF Init, IInv
<1>2. Queued = {} /\ Ripe = {}
  BY <1>1, QueuedIs
<1> QED
  BY <1>2 DEF Init, Outbox!Init

LEMMA StorePromises == ASSUME IInv, NEW e \in Events, Store(e) PROVE Outbox!Promise(e)
<1>1. PICK i \in ripe + 1..Len(queue) + 1 : queue' = InsertAt(queue, i, e)
  BY DEF Store
<1>2. /\ queue \in Seq(Events) /\ Len(queue) \in Nat /\ ripe \in 0..Len(queue)
      /\ i \in 1..Len(queue) + 1 /\ 1..ripe \subseteq 1..i - 1
  BY QueuedIs DEF IInv, TypeOK
<1>3. /\ queue' \in Seq(Events) /\ Len(queue') = Len(queue) + 1
  BY <1>1, <1>2, Inserted
<1>4. /\ ToSet(queue') = ToSet(queue) \cup {e}
      /\ \A k \in 1..i - 1 : queue'[k] = queue[k]
  BY <1>1, <1>2, InsertedElements
<1>5. Ripe' = {queue'[k] : k \in 1..ripe}
  BY <1>2, <1>3, Prefix DEF Ripe, Store
<1>6. Ripe' = Ripe
  BY <1>2, <1>4, <1>5, QueuedIs DEF IInv
<1> QED
  BY <1>4, <1>6 DEF Store, Outbox!Promise, Queued

LEMMA RipenFallsDue == ASSUME IInv, Ripen PROVE \E e \in Events : Outbox!FallDue(e)
<1> DEFINE e == queue[ripe + 1]
<1>1. /\ queue \in Seq(Events) /\ Len(queue) \in Nat /\ ripe \in 0..Len(queue)
      /\ ripe + 1 \in 1..Len(queue) /\ ripe + 1 \in 0..Len(queue) /\ IsInjective(queue)
      /\ 1..ripe \subseteq 1..Len(queue) /\ ripe + 1 \notin 1..ripe
      /\ 1..ripe + 1 = 1..ripe \cup {ripe + 1}
  BY QueuedIs DEF IInv, TypeOK, Placed, Ripen
<1>2. Ripe = {queue[k] : k \in 1..ripe} /\ e \in Queued /\ e \in Events
  BY <1>1, QueuedIs DEF IInv
<1>3. Ripe' = {queue[k] : k \in 1..ripe + 1}
  BY <1>1, Prefix DEF Ripe, Ripen
<1>4. e \notin Ripe
  BY <1>1, <1>2, Distinct
<1>5. Ripe' = Ripe \cup {e}
  BY <1>1, <1>2, <1>3
<1> QED
  BY <1>2, <1>4, <1>5 DEF Ripen, Outbox!FallDue, Queued

LEMMA AskDelivers ==
    ASSUME IInv, NEW w \in Workers, Ask(w)
    PROVE  (\E told \in BOOLEAN : Outbox!Deliver(Current(w), told)) \/ UNCHANGED Outbox!vars
<1>1. pending[w] # <<>> /\ Current(w)[1] \in Ripe /\ UNCHANGED <<queue, ripe, recorded>>
  BY InHand DEF Ask, SendSucceeds, SendFails, HasCurrent
<1>2. Queued' = Queued /\ Ripe' = Ripe
  BY <1>1 DEF Queued, Ripe
<1>3. CASE SendSucceeds(w)
  BY <1>1, <1>2, <1>3 DEF SendSucceeds, Outbox!Deliver
<1>4. ASSUME NEW took \in BOOLEAN, SendFails(w, took)
      PROVE  Outbox!Deliver(Current(w), FALSE) \/ UNCHANGED Outbox!vars
  BY <1>1, <1>2, <1>4 DEF SendFails, Outbox!Deliver, Outbox!vars
<1> QED
  BY <1>3, <1>4 DEF Ask

LEMMA RecordConfirms ==
    ASSUME IInv, NEW w \in Workers, Record(w)
    PROVE  Outbox!Confirm(Current(w)) \/ UNCHANGED Outbox!vars
<1>1. Queued' = Queued /\ Ripe' = Ripe
  BY DEF Record, Queued, Ripe
<1>2. CASE answer[w] = "sent"
  <2>1. Current(w) \in acknowledged \ recorded
    BY <1>2 DEF Record, Recordable, IInv, Listed
  <2> QED
    BY <1>1, <1>2, <2>1 DEF Record, RecordedAfter, Outbox!Confirm
<1>3. CASE answer[w] # "sent"
  BY <1>1, <1>3 DEF Record, RecordedAfter, Outbox!vars
<1> QED
  BY <1>2, <1>3

LEMMA StepOutbox == IInv /\ [Next]_vars => [Outbox!Next]_(Outbox!vars)
<1> SUFFICES ASSUME IInv, [Next]_vars PROVE Outbox!Next \/ UNCHANGED Outbox!vars
  OBVIOUS
<1>1. ASSUME NEW e \in Events, Store(e) PROVE Outbox!Next
  BY <1>1, StorePromises DEF Outbox!Next
<1>2. CASE Ripen
  BY <1>2, RipenFallsDue DEF Outbox!Next
<1>3. ASSUME NEW w \in Workers, Ask(w) PROVE Outbox!Next \/ UNCHANGED Outbox!vars
  <2>1. Current(w) \in Deliveries
    BY <1>3, InHand DEF Ask, SendSucceeds, SendFails, HasCurrent
  <2> QED
    BY <1>3, <2>1, AskDelivers DEF Outbox!Next
<1>4. ASSUME NEW w \in Workers, Record(w) PROVE Outbox!Next \/ UNCHANGED Outbox!vars
  <2>1. Current(w) \in Deliveries
    BY <1>4, InHand DEF Record, IInv, Listed
  <2> QED
    BY <1>4, <2>1, RecordConfirms DEF Outbox!Next
<1>5. ASSUME NEW w \in Workers,
             ReadPending(w) \/ Unconfigured(w) \/ RecordRefused(w) \/ Return(w) \/ Crash(w)
      PROVE  UNCHANGED Outbox!vars
  BY <1>5 DEF ReadPending, Unconfigured, RecordRefused, Return, Crash, Leave,
              Outbox!vars, Queued, Ripe
<1>6. CASE UNCHANGED vars
  BY <1>6 DEF vars, Outbox!vars, Queued, Ripe
<1> QED
  BY <1>1, <1>2, <1>3, <1>4, <1>5, <1>6 DEF Next, Proceed

\* The queue, the attempts and what the provider has taken implement AlertOutbox,
\* whatever number of processes deliver and wherever they die.
THEOREM DeliveryKeepsOutbox == Spec => KeepsOutbox
BY InitOutbox, StepOutbox, InvAlways, PTL DEF Spec, KeepsOutbox, Outbox!Spec

\* What AlertOutbox comes to: what is recorded as sent has been acknowledged, what
\* is acknowledged was taken, and of what was taken the event was due.
Confirmed ==
    /\ recorded \subseteq acknowledged
    /\ acknowledged \subseteq taken
    /\ \A d \in taken : d[1] \in Ripe

LEMMA OutboxConfirms == KeepsOutbox => []Confirmed
<1>1. Outbox!Init => Confirmed
  BY DEF Outbox!Init, Confirmed
<1>2. Confirmed /\ [Outbox!Next]_(Outbox!vars) => Confirmed'
  BY DEF Confirmed, Outbox!Next, Outbox!vars, Outbox!Promise, Outbox!FallDue,
         Outbox!Deliver, Outbox!Confirm
<1> QED
  BY <1>1, <1>2, PTL DEF KeepsOutbox, Outbox!Spec

\* An attempt of status 'sent' (_record_attempt) stands for a message that its
\* provider took, and took no earlier than deliver_after.
THEOREM SentWasTaken == Spec => []Confirmed
BY DeliveryKeepsOutbox, OutboxConfirms, PTL
==============================================================================
