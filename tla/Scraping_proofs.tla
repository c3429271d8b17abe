---------------------------- MODULE Scraping_proofs ----------------------------
(***************************************************************************)
(* The two sides of a scrape: what it searches (ScrapeSplit, for any site, *)
(* scope, cap and size of a page, and however often the site changes while *)
(* it is read) and how it asks for a page (SearchClient, for any interval, *)
(* jitter, timeout, back-off and budgets).                                 *)
(***************************************************************************)
EXTENDS ScrapeSplit, SearchClient, FiniteSetTheorems, SequenceTheorems, TLAPS

LEMMA Site ==
    /\ Listings \subseteq Nat /\ IsFiniteSet(Listings)
    /\ Earlier \subseteq SUBSET Listings
    /\ IsFiniteSet(Places) /\ IsFiniteSet(Lengths) /\ Lengths # {}
    /\ \A p \in Places : p = <<p[1], p[2], p[3]>>
    /\ LengthSets \subseteq SUBSET Lengths
    /\ Roots \subseteq Filters
    /\ Cap \in Nat \ {0} /\ PageSize \in Nat \ {0} /\ MaxChanges \in Nat
BY SiteAssumption

------------------------------------------------------------------------------
\* Sequences and their elements.

LEMMA PopElements ==
    ASSUME NEW S, NEW s \in Seq(S), s # <<>>
    PROVE  /\ Head(s) \in S /\ Tail(s) \in Seq(S)
           /\ ToSet(s) = {Head(s)} \cup ToSet(Tail(s))
<1>1. /\ Len(s) \in Nat \ {0} /\ DOMAIN s = 1..Len(s) /\ Head(s) = s[1] /\ Head(s) \in S
      /\ Tail(s) \in Seq(S) /\ Len(Tail(s)) = Len(s) - 1
      /\ DOMAIN Tail(s) = 1..Len(s) - 1
      /\ \A i \in 1..Len(s) - 1 : Tail(s)[i] = s[i + 1]
  OBVIOUS
<1>2. ASSUME NEW x \in ToSet(s) PROVE x = Head(s) \/ x \in ToSet(Tail(s))
  <2>1. PICK i \in 1..Len(s) : x = s[i]
    BY <1>1 DEF ToSet
  <2>2. CASE i > 1
    <3>1. i - 1 \in DOMAIN Tail(s) /\ Tail(s)[i - 1] = s[i]
      BY <1>1, <2>1, <2>2
    <3> QED
      BY <2>1, <3>1 DEF ToSet
  <2> QED
    BY <1>1, <2>1, <2>2
<1>3. Head(s) \in ToSet(s)
  BY <1>1 DEF ToSet
<1>4. ToSet(Tail(s)) \subseteq ToSet(s)
  BY <1>1 DEF ToSet
<1> QED
  BY <1>1, <1>2, <1>3, <1>4

LEMMA ConcatElements ==
    ASSUME NEW S, NEW s \in Seq(S), NEW t \in Seq(S)
    PROVE  /\ s \o t \in Seq(S)
           /\ ToSet(s \o t) = ToSet(s) \cup ToSet(t)
<1>1. /\ s \o t \in Seq(S) /\ DOMAIN (s \o t) = 1..Len(s) + Len(t)
      /\ Len(s) \in Nat /\ Len(t) \in Nat
      /\ DOMAIN s = 1..Len(s) /\ DOMAIN t = 1..Len(t)
      /\ \A i \in 1..Len(s) + Len(t) :
            (s \o t)[i] = IF i <= Len(s) THEN s[i] ELSE t[i - Len(s)]
  BY ConcatProperties, LenProperties
<1>2. ASSUME NEW x \in ToSet(s \o t) PROVE x \in ToSet(s) \cup ToSet(t)
  BY <1>1 DEF ToSet
<1>3. ASSUME NEW x \in ToSet(s) PROVE x \in ToSet(s \o t)
  <2>1. PICK i \in 1..Len(s) : x = s[i]
    BY <1>1 DEF ToSet
  <2> QED
    BY <1>1, <2>1 DEF ToSet
<1>4. ASSUME NEW x \in ToSet(t) PROVE x \in ToSet(s \o t)
  <2>1. PICK i \in 1..Len(t) : x = t[i]
    BY <1>1 DEF ToSet
  <2>2. /\ i + Len(s) \in 1..Len(s) + Len(t) /\ ~(i + Len(s) <= Len(s))
        /\ i + Len(s) - Len(s) = i
    BY <1>1
  <2>3. (s \o t)[i + Len(s)] = t[i]
    BY <1>1, <2>2
  <2> QED
    BY <1>1, <2>1, <2>2, <2>3 DEF ToSet
<1> QED
  BY <1>1, <1>2, <1>3, <1>4

LEMMA SetToSeqElements ==
    ASSUME NEW S, IsFiniteSet(S)
    PROVE  SetToSeq(S) \in Seq(S) /\ ToSet(SetToSeq(S)) = S
<1> DEFINE n == Cardinality(S)
<1>1. n \in Nat /\ ExistsBijection(1..n, S)
  BY FS_CardinalityType
<1>2. \E f \in [1..n -> S] : IsInjective(f)
  BY <1>1, Zenon DEF ExistsBijection, Bijection, Injection
<1>3. SetToSeq(S) \in [1..n -> S] /\ IsInjective(SetToSeq(S))
  BY <1>2, Zenon DEF SetToSeq
<1> DEFINE f == SetToSeq(S)
<1>4. f \in Injection(1..n, S)
  BY <1>3 DEF Injection
<1>5. IsFiniteSet(1..n) /\ Cardinality(1..n) = n
  BY <1>1, FS_Interval
<1>6. f \in Surjection(1..n, S)
  BY <1>4, <1>5, FS_Injection
<1>7. f \in Seq(S)
  BY <1>1, <1>3
<1>8. \A x \in S : \E i \in 1..n : f[i] = x
  BY <1>6, Zenon DEF Surjection
<1> QED
  BY <1>3, <1>7, <1>8 DEF ToSet

------------------------------------------------------------------------------
\* Filters and their children.

Values == (UNION {{p[1], p[2], p[3]} : p \in Places}) \cup Lengths

LEMMA TripleShape ==
    ASSUME NEW V, NEW a \in V, NEW b \in V, NEW c \in V
    PROVE  <<a, b, c>> \in Seq(V) /\ Len(<<a, b, c>>) = 3 /\ DOMAIN <<a, b, c>> = 1..3
OBVIOUS

LEMMA PlaceShape ==
    ASSUME NEW p \in Places
    PROVE  p \in Seq(Values) /\ Len(p) = 3 /\ DOMAIN p = 1..3
<1>1. p = <<p[1], p[2], p[3]>> /\ p[1] \in Values /\ p[2] \in Values /\ p[3] \in Values
  BY Site DEF Values
<1>2. PICK a \in Values, b \in Values, c \in Values : p = <<a, b, c>>
  BY <1>1, Zenon
<1> QED
  BY <1>2, TripleShape

LEMMA PrefixShape ==
    ASSUME NEW p \in Places, NEW n \in 0..3
    PROVE  /\ SubSeq(p, 1, n) \in Seq(Values) /\ Len(SubSeq(p, 1, n)) = n
           /\ \A i \in 1..n : SubSeq(p, 1, n)[i] = p[i]
<1>1. \A i \in 1..n : p[i] \in Values
  BY PlaceShape, ElementOfSeq
<1> QED
  BY <1>1, SubSeqProperties

LEMMA WithLength ==
    ASSUME NEW p \in Places, NEW n \in Lengths
    PROVE  /\ Append(p, n) \in Seq(Values) /\ Len(Append(p, n)) = 4
           /\ Append(p, n)[4] = n /\ \A i \in 1..3 : Append(p, n)[i] = p[i]
<1>1. n \in Values
  BY DEF Values
<1> QED
  BY <1>1, PlaceShape, AppendProperties

LEMMA FilterShape ==
    ASSUME NEW f \in Filters
    PROVE  /\ f \in Seq(Values) /\ Len(f) \in 0..4
           /\ Len(f) < 4 => \E p \in Places : f = SubSeq(p, 1, Len(f))
           /\ Len(f) = 4 => \E p \in Places, n \in Lengths : f = Append(p, n)
<1>1. CASE \E p \in Places, n \in 0..3 : f = SubSeq(p, 1, n)
  BY <1>1, PrefixShape
<1>2. CASE \E p \in Places, n \in Lengths : f = Append(p, n)
  BY <1>2, WithLength
<1> QED
  BY <1>1, <1>2 DEF Filters

LEMMA RegionShape ==
    ASSUME NEW f \in Filters, Len(f) = 3
    PROVE  f \in Places
<1>0. Len(f) < 4
  OBVIOUS
<1>1. PICK p \in Places : f = SubSeq(p, 1, Len(f))
  BY <1>0, FilterShape, Zenon
<1>2. SubSeq(p, 1, Len(p)) = p
  BY PlaceShape, SubSeqFull
<1> QED
  BY <1>1, <1>2, PlaceShape

LEMMA Depths ==
    \A n \in 0..4 : /\ n < 3 \/ n = 3 \/ n = 4
                    /\ n < 3 => n # 3 /\ n # 4 /\ n \in 0..2 /\ n + 1 \in 0..3
                    /\ n = 3 => n # 4
                    /\ n # 4 => n \in 0..3
OBVIOUS

LEMMA FilterDepth ==
    ASSUME NEW f \in Filters
    PROVE  /\ Len(f) < 3 \/ Len(f) = 3 \/ Len(f) = 4
           /\ Len(f) < 3 => /\ Len(f) # 3 /\ Len(f) # 4
                            /\ Len(f) \in 0..2 /\ Len(f) + 1 \in 0..3
           /\ Len(f) = 3 => Len(f) # 4
           /\ Len(f) # 4 => Len(f) \in 0..3
<1>1. Len(f) \in 0..4
  BY FilterShape
<1> QED
  BY <1>1, Depths, Zenon

LEMMA ChildrenOf ==
    ASSUME NEW f \in Filters
    PROVE  /\ Len(f) = 4 => Children(f) = {}
           /\ Len(f) = 3 => Children(f) = {Append(f, n) : n \in Lengths}
           /\ Len(f) < 3 => Children(f) = Below(f)
BY FilterDepth, Zenon DEF Children

LEMMA BelowShape ==
    ASSUME NEW f \in Filters, Len(f) < 3, NEW c \in Below(f)
    PROVE  /\ c \in Filters /\ Len(c) = Len(f) + 1
           /\ \A i \in 1..Len(f) : c[i] = f[i]
<1>1. PICK q \in Places : SubSeq(q, 1, Len(f)) = f /\ c = SubSeq(q, 1, Len(f) + 1)
  BY DEF Below
<1>2. Len(f) \in 0..2 /\ Len(f) + 1 \in 0..3
  BY FilterDepth, Zenon
<1>3. /\ Len(c) = Len(f) + 1 /\ \A i \in 1..Len(f) + 1 : c[i] = q[i]
      /\ \A i \in 1..Len(f) : f[i] = q[i]
  BY <1>1, <1>2, PrefixShape
<1>4. c \in Filters
  <2>1. PICK n \in 0..3 : n = Len(f) + 1
    BY <1>2
  <2>2. c = SubSeq(q, 1, n)
    BY <1>1, <2>1
  <2> QED
    BY <2>2 DEF Filters
<1>5. \A i \in 1..Len(f) : i \in 1..Len(f) + 1
  BY <1>2
<1> QED
  BY <1>3, <1>4, <1>5, Zenon

\* What a child selects its parent selects.
LEMMA ChildrenNarrow ==
    ASSUME NEW f \in Filters, NEW c \in Children(f)
    PROVE  c \in Filters /\ \A l \in Listings : Matches(c, l) => Matches(f, l)
<1>0. Len(f) < 3 \/ Len(f) = 3 \/ Len(f) = 4
  BY FilterDepth, Zenon
<1>1. CASE Len(f) < 3
  <2>1. c \in Filters /\ Len(c) = Len(f) + 1 /\ \A i \in 1..Len(f) : c[i] = f[i]
    BY <1>0, <1>1, BelowShape, ChildrenOf
  <2> QED
    BY <1>0, <1>1, <2>1 DEF Matches
<1>2. CASE Len(f) = 3
  <2>1. f \in Places /\ \E n \in Lengths : c = Append(f, n)
    BY <1>2, RegionShape, ChildrenOf
  <2>2. c \in Filters
    BY <2>1 DEF Filters
  <2>3. Len(c) = 4 /\ \A i \in 1..3 : c[i] = f[i]
    BY <2>1, WithLength
  <2> QED
    BY <1>2, <2>2, <2>3 DEF Matches
<1>3. CASE Len(f) = 4
  BY <1>3, ChildrenOf
<1> QED
  BY <1>0, <1>1, <1>2, <1>3

\* Only a sit length has no children.
LEMMA OnlyLengthsEnd ==
    ASSUME NEW f \in Filters, Children(f) = {}
    PROVE  Len(f) = 4
<1>0. Len(f) < 3 \/ Len(f) = 3 \/ Len(f) = 4
  BY FilterDepth, Zenon
<1>1. CASE Len(f) < 3
  <2>1. PICK p \in Places : f = SubSeq(p, 1, Len(f))
    BY <1>1, FilterShape
  <2> QED
    BY <1>0, <1>1, <2>1, ChildrenOf DEF Below
<1>2. CASE Len(f) = 3
  <2>1. PICK n \in Lengths : TRUE
    BY Site
  <2> QED
    BY <1>2, <2>1, ChildrenOf, Zenon
<1> QED
  BY <1>0, <1>1, <1>2, Zenon

\* The children of a search have between them what it has, if every listing is
\* found under some sit length.
LEMMA ChildrenCover ==
    ASSUME NEW f \in Filters, Children(f) # {}, NEW l \in Listings,
           place[l] \in Places, lengths[l] \subseteq Lengths, lengths[l] # {},
           Matches(f, l)
    PROVE  \E c \in Children(f) : Matches(c, l)
<1>0. /\ Len(f) \in 0..3 /\ f \in Seq(Values)
      /\ Len(f) < 3 \/ Len(f) = 3
  <2>1. Len(f) # 4
    BY ChildrenOf
  <2> QED
    BY <2>1, FilterShape, FilterDepth, Zenon
<1>1. CASE Len(f) < 3
  <2> DEFINE c == SubSeq(place[l], 1, Len(f) + 1)
  <2>1. /\ Len(c) = Len(f) + 1 /\ \A i \in 1..Len(f) + 1 : c[i] = place[l][i]
    BY <1>0, <1>1, PrefixShape
  <2>2. /\ SubSeq(place[l], 1, Len(f)) \in Seq(Values)
        /\ Len(SubSeq(place[l], 1, Len(f))) = Len(f)
        /\ \A i \in 1..Len(f) : SubSeq(place[l], 1, Len(f))[i] = place[l][i]
    BY <1>0, PrefixShape
  <2>3. \A i \in 1..Len(f) : f[i] = place[l][i]
    BY <1>0, <1>1 DEF Matches
  <2>4. SubSeq(place[l], 1, Len(f)) = f
    BY <1>0, <2>2, <2>3, SeqEqual
  <2>5. c \in Children(f)
    BY <1>0, <1>1, <2>4, ChildrenOf DEF Below
  <2>6. Matches(c, l)
    BY <1>0, <1>1, <2>1 DEF Matches
  <2> QED
    BY <2>5, <2>6
<1>2. CASE Len(f) = 3
  <2>1. PICK n \in lengths[l] : n \in Lengths
    OBVIOUS
  <2>2. /\ f \in Places /\ Len(Append(f, n)) = 4 /\ Append(f, n)[4] = n
        /\ \A i \in 1..3 : Append(f, n)[i] = f[i]
    BY <1>2, <2>1, RegionShape, WithLength
  <2>3. \A i \in 1..3 : f[i] = place[l][i]
    BY <1>2 DEF Matches
  <2>4. Matches(Append(f, n), l)
    BY <2>1, <2>2, <2>3 DEF Matches
  <2> QED
    BY <1>2, <2>1, <2>4, ChildrenOf
<1> QED
  BY <1>0, <1>1, <1>2, Zenon

LEMMA ChildrenFinite ==
    ASSUME NEW f \in Filters
    PROVE  IsFiniteSet(Children(f))
<1>1. CASE Len(f) = 4
  BY <1>1, FS_EmptySet, ChildrenOf
<1>2. CASE Len(f) = 3
  <2>1. [n \in Lengths |-> Append(f, n)] \in Surjection(Lengths, {Append(f, n) : n \in Lengths})
    BY DEF Surjection
  <2>2. IsFiniteSet({Append(f, n) : n \in Lengths})
    BY <2>1, Site, FS_Surjection
  <2> QED
    BY <1>2, <2>2, ChildrenOf
<1>3. CASE Len(f) < 3
  <2> DEFINE Q == {q \in Places : SubSeq(q, 1, Len(f)) = f}
  <2>1. IsFiniteSet(Q)
    BY Site, FS_Subset
  <2>2. [q \in Q |-> SubSeq(q, 1, Len(f) + 1)] \in Surjection(Q, Below(f))
    BY DEF Surjection, Below
  <2>3. IsFiniteSet(Below(f))
    BY <2>1, <2>2, FS_Surjection
  <2> QED
    BY <1>3, <2>3, ChildrenOf
<1> QED
  BY <1>1, <1>2, <1>3, FilterDepth, Zenon

------------------------------------------------------------------------------
\* Pages.

LEMMA HitsFinite ==
    ASSUME TypeOK, NEW f
    PROVE  /\ Hits(f) \subseteq Listings /\ IsFiniteSet(Hits(f)) /\ Count(f) \in Nat
           /\ \A l : Rank(f, l) \in Nat /\ Rank(f, l) <= Count(f)
<1>1. Hits(f) \subseteq Listings
  BY DEF Hits, TypeOK
<1>2. IsFiniteSet(Hits(f))
  BY <1>1, Site, FS_Subset
<1>3. Count(f) \in Nat
  BY <1>2, FS_CardinalityType DEF Count
<1>4. ASSUME NEW l PROVE Rank(f, l) \in Nat /\ Rank(f, l) <= Count(f)
  <2>1. {m \in Hits(f) : m >= l} \in SUBSET Hits(f)
    OBVIOUS
  <2>2. /\ IsFiniteSet({m \in Hits(f) : m >= l})
        /\ Cardinality({m \in Hits(f) : m >= l}) <= Cardinality(Hits(f))
    BY <1>2, <2>1, FS_Subset
  <2> QED
    BY <2>2, FS_CardinalityType DEF Rank, Count
<1> QED
  BY <1>1, <1>2, <1>3, <1>4

\* No two results of a search have the same rank.
LEMMA RankIsInjective ==
    ASSUME TypeOK, NEW f, NEW l \in Hits(f), NEW m \in Hits(f), Rank(f, l) = Rank(f, m)
    PROVE  l = m
<1>0. IsFiniteSet(Hits(f)) /\ Hits(f) \subseteq Nat
  BY HitsFinite, Site
<1>1. ASSUME NEW a \in Hits(f), NEW b \in Hits(f), a < b PROVE Rank(f, a) # Rank(f, b)
  <2> DEFINE A == {m_1 \in Hits(f) : m_1 >= a}
             B == {m_1 \in Hits(f) : m_1 >= b}
  <2>1. IsFiniteSet(A) /\ B \in SUBSET A /\ a \in A /\ a \notin B
    BY <1>0, <1>1, FS_Subset
  <2>2. Cardinality(A) # Cardinality(B)
    BY <2>1, FS_Subset
  <2> QED
    BY <2>2 DEF Rank
<1> QED
  BY <1>0, <1>1

\* A page that has been read without the notice leaves what it does not show to a
\* next one.
LEMMA PageReads ==
    ASSUME TypeOK, NEW f, NEW n \in Nat, FALSE \in Notices(f, n),
           NEW l \in Hits(f), Rank(f, l) > (n - 1) * PageSize
    PROVE  l \in Page(f, n) \/ (HasNext(f, n) /\ Rank(f, l) > n * PageSize)
<1> DEFINE N == n * PageSize
<1>0. /\ Rank(f, l) \in Nat /\ Count(f) \in Nat /\ Rank(f, l) <= Count(f)
      /\ N \in Nat /\ Cap \in Nat
  BY HitsFinite, Site
<1>1. HasNext(f, n) <=> (N < Count(f) /\ N < Cap)
  BY <1>0 DEF HasNext, Shown
<1>2. Count(f) <= Cap \/ HasNext(f, n)
  BY DEF Notices
<1>3. l \in Page(f, n) <=> (Rank(f, l) <= N /\ Rank(f, l) <= Cap)
  BY DEF Page
<1> QED
  BY <1>0, <1>1, <1>2, <1>3

LEMMA FirstRank ==
    ASSUME TypeOK, NEW f, NEW l \in Hits(f)
    PROVE  Rank(f, l) > (1 - 1) * PageSize
<1>1. l \in {m \in Hits(f) : m >= l} /\ IsFiniteSet({m \in Hits(f) : m >= l})
  BY HitsFinite, Site, FS_Subset
<1>2. Rank(f, l) # 0 /\ Rank(f, l) \in Nat
  BY <1>1, FS_EmptySet, FS_CardinalityType DEF Rank
<1> QED
  BY <1>2, Site

\* A capped search without pages to come says so.
LEMMA NoticeIsTrue ==
    ASSUME TypeOK, NEW f, NEW n, TRUE \in Notices(f, n)
    PROVE  Count(f) > Cap
<1>1. ~(Count(f) <= Cap)
  BY Zenon DEF Notices
<1> QED
  BY <1>1, HitsFinite, Site

LEMMA NextInRange ==
    ASSUME TypeOK, NEW f, NEW n \in Nat, HasNext(f, n)
    PROVE  n + 1 \in 1..Cap + 1
<1>1. n <= n * PageSize
  BY Site
<1>2. n * PageSize < Cap
  BY HitsFinite, Site DEF HasNext, Shown
<1> QED
  BY <1>1, <1>2, Site

------------------------------------------------------------------------------
\* Types, and the steps.

LEMMA SplitGives ==
    ASSUME NEW f \in Filters, NEW rest \in Seq(Filters), Split(f, rest)
    PROVE  /\ todo' \in Seq(Filters)
           /\ \/ /\ Children(f) = {} /\ status' = "overcap"
                 /\ ToSet(todo') = ToSet(rest)
              \/ /\ Children(f) # {} /\ status' = status
                 /\ ToSet(todo') = Children(f) \cup ToSet(rest)
<1>1. CASE Children(f) = {}
  BY <1>1 DEF Split
<1>2. CASE Children(f) # {}
  <2>1. Children(f) \subseteq Filters /\ IsFiniteSet(Children(f))
    BY ChildrenNarrow, ChildrenFinite
  <2>2. /\ SetToSeq(Children(f)) \in Seq(Children(f))
        /\ ToSet(SetToSeq(Children(f))) = Children(f)
    BY <2>1, SetToSeqElements
  <2>3. SetToSeq(Children(f)) \in Seq(Filters)
    BY <2>1, <2>2, SeqMonotonic
  <2>4. status' = status /\ todo' = SetToSeq(Children(f)) \o rest
    BY <1>2 DEF Split
  <2> QED
    BY <1>2, <2>2, <2>3, <2>4, ConcatElements
<1> QED
  BY <1>1, <1>2

LEMMA SameSite ==
    ASSUME UNCHANGED site
    PROVE  /\ \A f, l : /\ Matches(f, l)' <=> Matches(f, l)
                        /\ Rank(f, l)' = Rank(f, l)
           /\ \A f : Hits(f)' = Hits(f)
           /\ Ever' = Ever
BY DEF site, Matches, Rank, Hits, Ever

\* What FirstPage does with the search f it takes.
LEMMA FirstPageSteps ==
    ASSUME TypeOK, FirstPage
    PROVE  LET f == Head(todo) IN
           /\ status = "running" /\ leaf = <<>> /\ f \in Filters /\ f # <<>>
           /\ Tail(todo) \in Seq(Filters)
           /\ ToSet(todo) = {f} \cup ToSet(Tail(todo))
           /\ UNCHANGED <<site, collected>>
           /\ \/ /\ FALSE \in Notices(f, 1)
                 /\ leaf' = f /\ todo' = Tail(todo) /\ status' = status
                 /\ page' = IF HasNext(f, 1) THEN 2 ELSE 1
                 /\ gathered' = Page(f, 1)
              \/ /\ Len(f) = 4 => TRUE \in Notices(f, 1)
                 /\ Split(f, Tail(todo))
                 /\ UNCHANGED <<leaf, page, gathered>>
<1> DEFINE f == Head(todo)
<1>1. /\ f \in Filters /\ Tail(todo) \in Seq(Filters)
      /\ ToSet(todo) = {f} \cup ToSet(Tail(todo))
  BY PopElements DEF FirstPage, TypeOK
<1>2. PICK estimate \in Estimates(f), notice \in Notices(f, 1) :
          IF IsSafe(f, estimate, notice)
          THEN /\ leaf' = f
               /\ todo' = Tail(todo)
               /\ page' = IF HasNext(leaf', 1) THEN 2 ELSE 1
               /\ gathered' = Page(leaf', 1)
               /\ UNCHANGED status
          ELSE /\ Split(f, Tail(todo))
               /\ UNCHANGED <<leaf, page, gathered>>
  BY Zenon DEF FirstPage
<1>3. notice = TRUE \/ notice = FALSE
  BY Zenon DEF Notices
<1>4. CASE IsSafe(f, estimate, notice)
  <2>1. notice = FALSE
    BY <1>3, <1>4, Zenon DEF IsSafe
  <2>2. FALSE \in Notices(f, 1)
    BY <1>2, <2>1, Zenon
  <2>3. /\ leaf' = f /\ todo' = Tail(todo) /\ status' = status
        /\ page' = IF HasNext(leaf', 1) THEN 2 ELSE 1
        /\ gathered' = Page(leaf', 1)
    BY <1>2, <1>4, Zenon
  <2>4. page' = (IF HasNext(f, 1) THEN 2 ELSE 1) /\ gathered' = Page(f, 1)
    BY <2>3
  <2> QED
    BY <1>1, <2>2, <2>3, <2>4 DEF FirstPage
<1>5. CASE ~IsSafe(f, estimate, notice)
  <2>1. Len(f) = 4 => TRUE \in Notices(f, 1)
    BY <1>2, <1>3, <1>5, Zenon DEF IsSafe
  <2>2. Split(f, Tail(todo)) /\ UNCHANGED <<leaf, page, gathered>>
    BY <1>2, <1>5, Zenon
  <2> QED
    BY <1>1, <2>1, <2>2 DEF FirstPage
<1> QED
  BY <1>4, <1>5

\* What NextPage does with the search it is reading.
LEMMA NextPageSteps ==
    ASSUME NextPage
    PROVE  /\ status = "running" /\ page > 1 /\ UNCHANGED <<site, collected>>
           /\ \/ TRUE \in Notices(leaf, page) /\ Split(leaf, todo) /\ NoLeaf
              \/ /\ FALSE \in Notices(leaf, page)
                 /\ gathered' = gathered \cup Page(leaf, page)
                 /\ page' = IF HasNext(leaf, page) THEN page + 1 ELSE 1
                 /\ UNCHANGED <<todo, leaf, status>>
<1>1. PICK notice \in Notices(leaf, page) :
          IF IsCapped(leaf, notice)
          THEN Split(leaf, todo) /\ NoLeaf
          ELSE /\ gathered' = gathered \cup Page(leaf, page)
               /\ page' = IF HasNext(leaf, page) THEN page + 1 ELSE 1
               /\ UNCHANGED <<todo, leaf, status>>
  BY Zenon DEF NextPage
<1>2. notice = TRUE \/ notice = FALSE
  BY Zenon DEF Notices
<1>3. CASE notice = TRUE
  BY <1>1, <1>3, Zenon DEF IsCapped, NextPage
<1>4. CASE notice = FALSE
  BY <1>1, <1>4, Zenon DEF IsCapped, NextPage
<1> QED
  BY <1>2, <1>3, <1>4

LEMMA TypeInit == Init => TypeOK
<1> SUFFICES ASSUME Init PROVE TypeOK
  OBVIOUS
<1>1. root \in Filters
  BY Site DEF Init
<1>2. PICK p \in Places : TRUE
  BY <1>1 DEF Filters
<1>3. SubSeq(p, 1, 0) = <<>> /\ 0 \in 0..3
  BY SubSeqEmpty
<1>4. <<>> \in Filters
  BY <1>3 DEF Filters
<1>5. todo \in Seq(Filters)
  BY <1>1 DEF Init
<1> QED
  BY <1>4, <1>5, Site DEF Init, TypeOK

LEMMA TypeNext == TypeOK /\ [Next]_vars => TypeOK'
<1> SUFFICES ASSUME TypeOK, [Next]_vars PROVE TypeOK'
  OBVIOUS
<1>0. <<>> \in Filters
  <2>1. root \in Filters
    BY Site DEF TypeOK
  <2>2. PICK p \in Places : TRUE
    BY <2>1 DEF Filters
  <2>3. SubSeq(p, 1, 0) = <<>> /\ 0 \in 0..3
    BY SubSeqEmpty
  <2> QED
    BY <2>3 DEF Filters
<1>1. CASE SplitCountry
  <2>1. Head(todo) = <<>> /\ Tail(todo) \in Seq(Filters)
    BY <1>1, PopElements DEF SplitCountry, TypeOK
  <2>2. todo' \in Seq(Filters) /\ status' \in {status, "overcap"}
    BY <1>0, <1>1, <2>1, SplitGives DEF SplitCountry
  <2> QED
    BY <1>1, <2>2 DEF SplitCountry, TypeOK, site
<1>2. CASE FirstPage
  <2> DEFINE f == Head(todo)
  <2>0. /\ f \in Filters /\ Tail(todo) \in Seq(Filters)
        /\ UNCHANGED <<site, collected>>
    BY <1>2, FirstPageSteps, Zenon
  <2>1. CASE /\ leaf' = f /\ todo' = Tail(todo) /\ status' = status
             /\ page' = (IF HasNext(f, 1) THEN 2 ELSE 1)
             /\ gathered' = Page(f, 1)
    <3>1. page' \in 1..Cap + 1
      BY <2>1, NextInRange, Site
    <3>2. gathered' \subseteq Listings
      BY <2>1, HitsFinite DEF Page
    <3> QED
      BY <2>0, <2>1, <3>1, <3>2 DEF TypeOK, site
  <2>2. CASE Split(f, Tail(todo)) /\ UNCHANGED <<leaf, page, gathered>>
    <3>1. todo' \in Seq(Filters) /\ status' \in {status, "overcap"}
      BY <2>0, <2>2, SplitGives
    <3> QED
      BY <2>0, <2>2, <3>1 DEF TypeOK, site
  <2> QED
    BY <1>2, <2>1, <2>2, FirstPageSteps, Zenon
<1>3. CASE NextPage
  <2>0. UNCHANGED <<site, collected>>
    BY <1>3, NextPageSteps
  <2>1. CASE Split(leaf, todo) /\ NoLeaf
    <3>1. todo' \in Seq(Filters) /\ status' \in {status, "overcap"}
      BY <2>1, SplitGives DEF TypeOK
    <3> QED
      BY <1>0, <2>0, <2>1, <3>1, Site DEF TypeOK, site, NoLeaf
  <2>2. CASE /\ gathered' = gathered \cup Page(leaf, page)
             /\ page' = (IF HasNext(leaf, page) THEN page + 1 ELSE 1)
             /\ UNCHANGED <<todo, leaf, status>>
    <3>1. page \in Nat
      BY Site DEF TypeOK
    <3>2. page' \in 1..Cap + 1
      BY <2>2, <3>1, NextInRange, Site
    <3>3. gathered' \subseteq Listings
      BY <2>2, HitsFinite DEF Page, TypeOK
    <3> QED
      BY <2>0, <2>2, <3>2, <3>3 DEF TypeOK, site
  <2> QED
    BY <1>3, <2>1, <2>2, NextPageSteps, Zenon
<1>4. CASE LeafEnds
  BY <1>0, <1>4, Site DEF LeafEnds, TypeOK, site, NoLeaf
<1>5. CASE RequestFails
  BY <1>5 DEF RequestFails, TypeOK, site
<1>6. CASE Return
  BY <1>6 DEF Return, TypeOK, site
<1>7. ASSUME NEW l \in Listings, Publish(l) PROVE TypeOK'
  <2>1. \A m \in Ever : m # l
    BY <1>7, Site DEF Publish, Ever, TypeOK
  <2> QED
    BY <1>7, <2>1 DEF Publish, TypeOK, scrape, Ever
<1>8. ASSUME NEW l \in Listings, Withdraw(l) PROVE TypeOK'
  BY <1>8 DEF Withdraw, TypeOK, scrape
<1>9. CASE UNCHANGED vars
  BY <1>9 DEF vars, site, scrape, TypeOK
<1> QED
  BY <1>1, <1>2, <1>3, <1>4, <1>5, <1>6, <1>7, <1>8, <1>9 DEF Next, Step

\* The state is typed: pages stay within the cap, filters within the map.
THEOREM TypeCorrect == Spec => []TypeOK
BY TypeInit, TypeNext, PTL DEF Spec

------------------------------------------------------------------------------
\* What a scrape holds and has still to search is of its scope.
WithinScope ==
    /\ leaf = <<>> => page = 1 /\ gathered = {}
    /\ \A f \in ToSet(todo) : \A l \in Listings : Matches(f, l) => Matches(root, l)
    /\ leaf # <<>> => \A l \in Listings : Matches(leaf, l) => Matches(root, l)
    /\ \A l \in gathered : l \in Ever /\ Matches(leaf, l)
    /\ \A l \in collected : l \in Ever /\ Matches(root, l)
    /\ status = "done" => todo = <<>> /\ leaf = <<>>

LEMMA ToSetOne == \A f : ToSet(<<f>>) = {f}
BY DEF ToSet

LEMMA ScopeInit == Init => WithinScope
BY ToSetOne DEF Init, WithinScope

LEMMA ScopeNext == TypeOK /\ WithinScope /\ [Next]_vars => WithinScope'
<1> SUFFICES ASSUME TypeOK, WithinScope, [Next]_vars PROVE WithinScope'
  OBVIOUS
<1> USE DEF WithinScope
\* A search that is split hands its scope on.
<1>0. ASSUME NEW f \in Filters, NEW rest \in Seq(Filters), Split(f, rest), UNCHANGED site,
             \A l \in Listings : Matches(f, l) => Matches(root, l),
             \A g \in ToSet(rest) : \A l \in Listings : Matches(g, l) => Matches(root, l)
      PROVE  \A g \in ToSet(todo') : \A l \in Listings : Matches(g, l)' => Matches(root, l)'
  <2>1. ToSet(todo') \subseteq Children(f) \cup ToSet(rest)
    BY <1>0, SplitGives
  <2>2. \A g \in Children(f) : \A l \in Listings : Matches(g, l) => Matches(root, l)
    BY <1>0, ChildrenNarrow
  <2>3. root' = root
    BY <1>0 DEF site
  <2> QED
    BY <1>0, <2>1, <2>2, <2>3, SameSite
<1>1. CASE SplitCountry
  <2>0. /\ Head(todo) = <<>> /\ <<>> \in Filters /\ Tail(todo) \in Seq(Filters)
        /\ ToSet(todo) = {<<>>} \cup ToSet(Tail(todo))
    BY <1>1, PopElements DEF SplitCountry, TypeOK
  <2>1. \A g \in ToSet(todo') : \A l \in Listings : Matches(g, l)' => Matches(root, l)'
    BY <1>0, <1>1, <2>0 DEF SplitCountry
  <2>2. status' # "done"
    BY <1>1, <2>0, SplitGives DEF SplitCountry
  <2> QED
    BY <1>1, <2>1, <2>2, SameSite DEF SplitCountry, site
<1>2. CASE FirstPage
  <2> DEFINE f == Head(todo)
  <2>0. /\ status = "running" /\ leaf = <<>> /\ f \in Filters /\ f # <<>>
        /\ Tail(todo) \in Seq(Filters) /\ ToSet(todo) = {f} \cup ToSet(Tail(todo))
        /\ UNCHANGED <<site, collected>>
    BY <1>2, FirstPageSteps, Zenon
  <2>1. CASE /\ leaf' = f /\ todo' = Tail(todo) /\ status' = status
             /\ gathered' = Page(f, 1)
    <3>1. \A l \in Page(f, 1) : l \in Ever /\ Matches(f, l)
      BY DEF Page, Hits, Ever
    <3>2. root' = root
      BY <2>0 DEF site
    <3> QED
      BY <2>0, <2>1, <3>1, <3>2, SameSite
  <2>2. CASE Split(f, Tail(todo)) /\ UNCHANGED <<leaf, page, gathered>>
    <3>1. \A g \in ToSet(todo') : \A l \in Listings : Matches(g, l)' => Matches(root, l)'
      BY <1>0, <2>0, <2>2
    <3>2. status' # "done"
      BY <2>0, <2>2, SplitGives
    <3> QED
      BY <2>0, <2>2, <3>1, <3>2, SameSite DEF site
  <2> QED
    BY <1>2, <2>1, <2>2, FirstPageSteps, Zenon
<1>3. CASE NextPage
  <2>0. /\ status = "running" /\ leaf # <<>> /\ leaf \in Filters /\ todo \in Seq(Filters)
        /\ UNCHANGED <<site, collected>>
    BY <1>3, NextPageSteps DEF TypeOK
  <2>1. CASE Split(leaf, todo) /\ NoLeaf
    <3>1. \A g \in ToSet(todo') : \A l \in Listings : Matches(g, l)' => Matches(root, l)'
      BY <1>0, <2>0, <2>1
    <3>2. status' # "done"
      BY <2>0, <2>1, SplitGives
    <3> QED
      BY <2>0, <2>1, <3>1, <3>2, SameSite DEF site, NoLeaf
  <2>2. CASE /\ gathered' = gathered \cup Page(leaf, page)
             /\ UNCHANGED <<todo, leaf, status>>
    <3>1. \A l \in Page(leaf, page) : l \in Ever /\ Matches(leaf, l)
      BY DEF Page, Hits, Ever
    <3>2. root' = root
      BY <2>0 DEF site
    <3> QED
      BY <2>0, <2>2, <3>1, <3>2, SameSite
  <2> QED
    BY <1>3, <2>1, <2>2, NextPageSteps, Zenon
<1>4. CASE LeafEnds
  <2>1. \A l \in collected' : l \in Ever /\ Matches(root, l)
    BY <1>4 DEF LeafEnds, TypeOK
  <2> QED
    BY <1>4, <2>1, SameSite DEF LeafEnds, NoLeaf, site
<1>5. CASE RequestFails
  BY <1>5, SameSite DEF RequestFails, site
<1>6. CASE Return
  BY <1>6, SameSite DEF Return, site
<1>7. ASSUME NEW l \in Listings, Publish(l) PROVE WithinScope'
  <2>1. /\ Ever \subseteq Ever' /\ UNCHANGED <<root, scrape>>
        /\ \A f, m : Matches(f, m)' <=> Matches(f, m)
    BY <1>7 DEF Publish, Ever, Matches
  <2> QED
    BY <2>1 DEF scrape
<1>8. ASSUME NEW l \in Listings, Withdraw(l) PROVE WithinScope'
  <2>1. /\ Ever \subseteq Ever' /\ UNCHANGED <<root, scrape>>
        /\ \A f, m : Matches(f, m)' <=> Matches(f, m)
    BY <1>8 DEF Withdraw, Ever, Matches
  <2> QED
    BY <2>1 DEF scrape
<1>9. CASE UNCHANGED vars
  BY <1>9, SameSite DEF vars, site, scrape
<1> QED
  BY <1>1, <1>2, <1>3, <1>4, <1>5, <1>6, <1>7, <1>8, <1>9 DEF Next, Step

------------------------------------------------------------------------------
\* What the scrape has missed: listings that were there all the time, are not
\* collected, and are in no search and on no page still to come.
Awaited(l) == \E f \in ToSet(todo) : Matches(f, l)
StillRead(l) ==
    /\ leaf # <<>> /\ Matches(leaf, l)
    /\ l \in gathered \/ (page > 1 /\ Rank(leaf, l) > (page - 1) * PageSize)
Missed ==
    {l \in Hits(root) : l \notin published /\ l \notin collected /\ ~Awaited(l) /\ ~StillRead(l)}

WithdrawnHere == {l \in withdrawn : Matches(root, l)}

\* One withdrawal at most for each, as long as the scrape may still return.
FewMissed ==
    status \in {"running", "done"} => Cardinality(Missed) <= Cardinality(WithdrawnHere)

LEMMA MissedFinite ==
    ASSUME TypeOK
    PROVE  /\ IsFiniteSet(Missed) /\ Cardinality(Missed) \in Nat
           /\ IsFiniteSet(WithdrawnHere) /\ Cardinality(WithdrawnHere) \in Nat
<1>1. Missed \in SUBSET Listings /\ WithdrawnHere \in SUBSET Listings
  BY HitsFinite DEF Missed, WithdrawnHere, TypeOK
<1> QED
  BY <1>1, Site, FS_Subset, FS_CardinalityType

LEMMA FewInit == Init => FewMissed
<1> SUFFICES ASSUME Init PROVE FewMissed
  OBVIOUS
<1>1. Missed = {}
  BY ToSetOne DEF Init, Missed, Awaited, Hits
<1>2. WithdrawnHere = {}
  BY DEF Init, WithdrawnHere
<1> QED
  BY <1>1, <1>2, FS_EmptySet DEF FewMissed

\* A step that misses nothing more.
LEMMA NoMoreMissed ==
    ASSUME TypeOK, FewMissed, status = "running", Missed' \subseteq Missed,
           WithdrawnHere' = WithdrawnHere
    PROVE  FewMissed'
<1>1. Cardinality(Missed') <= Cardinality(Missed)
  BY MissedFinite, FS_Subset
<1>2. Cardinality(Missed') \in Nat
  BY MissedFinite, FS_Subset, FS_CardinalityType
<1> QED
  BY <1>1, <1>2, MissedFinite DEF FewMissed

LEMMA SameWithdrawn ==
    ASSUME UNCHANGED site
    PROVE  WithdrawnHere' = WithdrawnHere
BY SameSite DEF WithdrawnHere, site

\* A search that is split, with what was read of it, if every listing is found
\* under some sit length.
LEMMA SplitMissesNothing ==
    ASSUME TypeOK, {} \notin LengthSets, NEW f \in Filters, Children(f) # {},
           NEW rest \in Seq(Filters), Split(f, rest), UNCHANGED site,
           NEW l \in Listings, Matches(f, l) \/ \E g \in ToSet(rest) : Matches(g, l)
    PROVE  Awaited(l)'
<1>1. ToSet(todo') = Children(f) \cup ToSet(rest)
  BY SplitGives
<1>2. place[l] \in Places /\ lengths[l] \subseteq Lengths /\ lengths[l] # {}
  <2>1. place[l] \in Places /\ lengths[l] \in LengthSets
    BY DEF TypeOK
  <2> QED
    BY <2>1, Site
<1>3. \E g \in ToSet(todo') : Matches(g, l)
  BY <1>1, <1>2, ChildrenCover
<1> QED
  BY <1>3, SameSite DEF Awaited

\* A page that is read: what it does not show it leaves to a next one.
LEMMA ReadingMissesNothing ==
    ASSUME TypeOK, NEW f \in Filters, NEW n \in Nat \ {0}, FALSE \in Notices(f, n), f # <<>>,
           UNCHANGED site, leaf' = f, Page(f, n) \subseteq gathered',
           page' = IF HasNext(f, n) THEN n + 1 ELSE 1,
           NEW l \in Hits(f), Rank(f, l) > (n - 1) * PageSize
    PROVE  StillRead(l)'
<1>1. l \in Page(f, n) \/ (HasNext(f, n) /\ Rank(f, l) > n * PageSize)
  BY PageReads
<1>2. Matches(f, l)
  BY DEF Hits
<1>3. CASE l \in Page(f, n)
  BY <1>2, <1>3, SameSite DEF StillRead
<1>4. CASE HasNext(f, n) /\ Rank(f, l) > n * PageSize
  <2>1. page' = n + 1 /\ page' > 1 /\ page' - 1 = n
    BY <1>4
  <2>2. Rank(leaf, l)' = Rank(f, l) /\ Matches(leaf, l)'
    BY <1>2, SameSite
  <2>3. Rank(leaf, l)' > (page' - 1) * PageSize
    BY <1>4, <2>1, <2>2
  <2> QED
    BY <2>1, <2>2, <2>3 DEF StillRead
<1> QED
  BY <1>1, <1>3, <1>4

LEMMA FirstReadingMissesNothing ==
    ASSUME TypeOK, NEW f \in Filters, FALSE \in Notices(f, 1), f # <<>>,
           UNCHANGED site, leaf' = f, gathered' = Page(f, 1),
           page' = IF HasNext(f, 1) THEN 2 ELSE 1,
           NEW l \in Hits(f)
    PROVE  StillRead(l)'
<1>1. PICK n \in Nat \ {0} : n = 1
  OBVIOUS
<1>2. FALSE \in Notices(f, n) /\ Page(f, n) \subseteq gathered' /\ (HasNext(f, n) <=> HasNext(f, 1))
  BY <1>1, Zenon
<1>3. n + 1 = 2
  BY <1>1
<1>4. page' = IF HasNext(f, n) THEN n + 1 ELSE 1
  BY <1>2, <1>3, Zenon
<1>5. Rank(f, l) > (n - 1) * PageSize
  BY <1>1, FirstRank
<1> QED
  BY <1>2, <1>4, <1>5, ReadingMissesNothing

LEMMA FewNext ==
    ASSUME {} \notin LengthSets
    PROVE  TypeOK /\ WithinScope /\ FewMissed /\ [Next]_vars => FewMissed'
<1> SUFFICES ASSUME TypeOK, WithinScope, FewMissed, [Next]_vars PROVE FewMissed'
  OBVIOUS
<1>0. ASSUME UNCHANGED site, status = "running",
             \A l \in Hits(root) : l \in collected \/ Awaited(l) \/ StillRead(l)
                => l \in collected' \/ Awaited(l)' \/ StillRead(l)'
      PROVE  FewMissed'
  <2>1. Hits(root)' = Hits(root) /\ published' = published
    BY <1>0 DEF site, Hits, Matches
  <2>2. Missed' \subseteq Missed
    BY <1>0, <2>1 DEF Missed
  <2> QED
    BY <1>0, <2>2, NoMoreMissed, SameWithdrawn
<1>a. ASSUME status' \in {"overcap", "http"} PROVE FewMissed'
  BY <1>a DEF FewMissed
<1>b. Hits(root) \subseteq Listings
  BY HitsFinite
<1>1. CASE SplitCountry
  <2>0. /\ Head(todo) = <<>> /\ <<>> \in Filters /\ Tail(todo) \in Seq(Filters)
        /\ ToSet(todo) = {<<>>} \cup ToSet(Tail(todo))
        /\ status = "running" /\ UNCHANGED <<site, leaf, page, gathered, collected>>
        /\ Split(<<>>, Tail(todo)) /\ leaf = <<>>
    BY <1>1, PopElements DEF SplitCountry, TypeOK
  <2>1. CASE Children(<<>>) = {}
    BY <1>a, <2>0, <2>1, SplitGives
  <2>2. CASE Children(<<>>) # {}
    <3>1. ASSUME NEW l \in Hits(root), Awaited(l) PROVE Awaited(l)'
      BY <1>b, <2>0, <2>2, <3>1, SplitMissesNothing DEF Awaited
    <3> QED
      BY <1>0, <2>0, <3>1 DEF StillRead
  <2> QED
    BY <2>1, <2>2
<1>2. CASE FirstPage
  <2> DEFINE f == Head(todo)
  <2>0. /\ status = "running" /\ leaf = <<>> /\ f \in Filters /\ f # <<>>
        /\ Tail(todo) \in Seq(Filters) /\ ToSet(todo) = {f} \cup ToSet(Tail(todo))
        /\ UNCHANGED <<site, collected>>
    BY <1>2, FirstPageSteps, Zenon
  <2>1. CASE /\ FALSE \in Notices(f, 1)
             /\ leaf' = f /\ todo' = Tail(todo) /\ status' = status
             /\ page' = (IF HasNext(f, 1) THEN 2 ELSE 1)
             /\ gathered' = Page(f, 1)
    <3>1. ASSUME NEW l \in Hits(root), Awaited(l), ~Awaited(l)' PROVE StillRead(l)'
      <4>1. Matches(f, l)
        BY <2>0, <2>1, <3>1, SameSite DEF Awaited
      <4>2. l \in Hits(f)
        BY <4>1 DEF Hits
      <4> QED
        BY <2>0, <2>1, <4>2, FirstReadingMissesNothing
    <3> QED
      BY <1>0, <2>0, <3>1 DEF StillRead
  <2>2. CASE Split(f, Tail(todo)) /\ UNCHANGED <<leaf, page, gathered>>
    <3>1. CASE Children(f) = {}
      BY <1>a, <2>0, <2>2, <3>1, SplitGives
    <3>2. CASE Children(f) # {}
      <4>1. ASSUME NEW l \in Hits(root), Awaited(l) PROVE Awaited(l)'
        BY <1>b, <2>0, <2>2, <3>2, <4>1, SplitMissesNothing DEF Awaited
      <4> QED
        BY <1>0, <2>0, <4>1 DEF StillRead
    <3> QED
      BY <3>1, <3>2
  <2> QED
    BY <1>2, <2>1, <2>2, FirstPageSteps, Zenon
<1>3. CASE NextPage
  <2>0. /\ status = "running" /\ leaf # <<>> /\ leaf \in Filters /\ todo \in Seq(Filters)
        /\ page \in Nat \ {0} /\ page > 1 /\ UNCHANGED <<site, collected>>
    BY <1>3, NextPageSteps, Site DEF TypeOK, WithinScope
  <2>1. CASE Split(leaf, todo) /\ NoLeaf
    <3>1. CASE Children(leaf) = {}
      BY <1>a, <2>0, <2>1, <3>1, SplitGives
    <3>2. CASE Children(leaf) # {}
      <4>1. ASSUME NEW l \in Hits(root), Awaited(l) \/ StillRead(l) PROVE Awaited(l)'
        BY <1>b, <2>0, <2>1, <3>2, <4>1, SplitMissesNothing DEF Awaited, StillRead
      <4> QED
        BY <1>0, <2>0, <4>1
    <3> QED
      BY <3>1, <3>2
  <2>2. CASE /\ FALSE \in Notices(leaf, page)
             /\ gathered' = gathered \cup Page(leaf, page)
             /\ page' = (IF HasNext(leaf, page) THEN page + 1 ELSE 1)
             /\ UNCHANGED <<todo, leaf, status>>
    <3>1. ASSUME NEW l \in Hits(root), StillRead(l) PROVE StillRead(l)'
      <4>1. CASE l \in gathered
        BY <2>0, <2>2, <3>1, <4>1, SameSite DEF StillRead
      <4>2. CASE l \notin gathered
        <5>1. l \in Hits(leaf) /\ Rank(leaf, l) > (page - 1) * PageSize
          BY <3>1, <4>2 DEF StillRead, Hits
        <5> QED
          BY <2>0, <2>2, <5>1, ReadingMissesNothing
      <4> QED
        BY <4>1, <4>2
    <3>2. ASSUME NEW l \in Hits(root), Awaited(l) PROVE Awaited(l)'
      BY <2>0, <2>2, <3>2, SameSite DEF Awaited
    <3> QED
      BY <1>0, <2>0, <3>1, <3>2
  <2> QED
    BY <1>3, <2>1, <2>2, NextPageSteps, Zenon
<1>4. CASE LeafEnds
  <2>0. /\ status = "running" /\ page = 1 /\ UNCHANGED <<site, todo>>
        /\ collected' = collected \cup gathered
    BY <1>4 DEF LeafEnds
  <2>1. ASSUME NEW l \in Hits(root), StillRead(l) PROVE l \in collected'
    BY <2>0, <2>1 DEF StillRead
  <2>2. ASSUME NEW l \in Hits(root), Awaited(l) PROVE Awaited(l)'
    BY <2>0, <2>2, SameSite DEF Awaited
  <2> QED
    BY <1>0, <2>0, <2>1, <2>2
<1>5. CASE RequestFails
  BY <1>a, <1>5 DEF RequestFails
<1>6. CASE Return
  <2>0. status = "running" /\ UNCHANGED <<site, todo, leaf, page, gathered, collected>>
    BY <1>6 DEF Return
  <2>1. \A l : (Awaited(l)' <=> Awaited(l)) /\ (StillRead(l)' <=> StillRead(l))
    BY <2>0, SameSite DEF Awaited, StillRead
  <2> QED
    BY <1>0, <2>0, <2>1
<1>7. ASSUME NEW w \in Listings, Publish(w) PROVE FewMissed'
  <2>0. /\ status = "running" /\ online' = online \cup {w} /\ published' = published \cup {w}
        /\ UNCHANGED <<place, lengths, withdrawn, root, todo, leaf, page, gathered, collected>>
    BY <1>7 DEF Publish, MayChange, scrape
  <2>1. /\ \A f, l : Matches(f, l)' <=> Matches(f, l)
        /\ Hits(leaf) \subseteq Hits(leaf)'
    BY <2>0 DEF Matches, Hits
  <2>2. TypeOK'
    BY <1>7, TypeNext DEF Next
  <2>3. ASSUME NEW l PROVE Rank(leaf, l) \in Nat /\ Rank(leaf, l)' \in Nat
                          /\ Rank(leaf, l) <= Rank(leaf, l)'
    <3>1. {m \in Hits(leaf) : m >= l} \in SUBSET {m \in Hits(leaf)' : m >= l}
      BY <2>1
    <3>2. IsFiniteSet(Hits(leaf)')
      BY <2>2, Site, FS_Subset DEF Hits, TypeOK
    <3>3. {m \in Hits(leaf)' : m >= l} \in SUBSET Hits(leaf)'
      OBVIOUS
    <3>4. IsFiniteSet({m \in Hits(leaf)' : m >= l})
      BY <3>2, <3>3, FS_Subset
    <3>5. Cardinality({m \in Hits(leaf) : m >= l}) <= Cardinality({m \in Hits(leaf)' : m >= l})
      BY <3>1, <3>4, FS_Subset
    <3>6. Rank(leaf, l)' = Cardinality({m \in Hits(leaf)' : m >= l})
      BY <2>0 DEF Rank
    <3>7. Rank(leaf, l)' \in Nat
      BY <3>4, <3>6, FS_CardinalityType
    <3> QED
      BY <3>5, <3>6, <3>7, HitsFinite DEF Rank
  <2>4. \A l : Awaited(l) => Awaited(l)'
    BY <2>0, <2>1 DEF Awaited
  <2>5. ASSUME NEW l, StillRead(l) PROVE StillRead(l)'
    <3>1. page \in Nat /\ PageSize \in Nat
      BY Site DEF TypeOK
    <3>2. (page - 1) * PageSize \in Int
      BY <3>1
    <3>3. Rank(leaf, l) > (page - 1) * PageSize => Rank(leaf, l)' > (page - 1) * PageSize
      BY <2>3, <3>2
    <3>4. Matches(leaf, l)' <=> Matches(leaf, l)
      BY <2>0 DEF Matches
    <3> QED
      BY <2>0, <2>5, <3>3, <3>4 DEF StillRead
  <2>6. Missed' \subseteq Missed
    <3> SUFFICES ASSUME NEW l \in Missed' PROVE l \in Missed
      OBVIOUS
    <3>1. l \in Hits(root)' /\ l \notin published' /\ l \notin collected' /\ ~Awaited(l)' /\ ~StillRead(l)'
      BY DEF Missed
    <3>2. l \in Hits(root)
      BY <2>0, <3>1 DEF Hits, Matches
    <3> QED
      BY <2>0, <2>4, <2>5, <3>1, <3>2 DEF Missed
  <2>7. WithdrawnHere' = WithdrawnHere
    BY <2>0 DEF WithdrawnHere, Matches
  <2> QED
    BY <2>0, <2>6, <2>7, NoMoreMissed
<1>8. ASSUME NEW w \in Listings, Withdraw(w) PROVE FewMissed'
  <2>0. /\ status = "running" /\ w \in online /\ online' = online \ {w}
        /\ published' = published \ {w} /\ withdrawn' = withdrawn \cup {w}
        /\ UNCHANGED <<place, lengths, root, todo, leaf, page, gathered, collected, status>>
    BY <1>8 DEF Withdraw, MayChange, scrape
  <2>1. /\ \A f, l : Matches(f, l)' <=> Matches(f, l)
        /\ Hits(leaf)' = Hits(leaf) \ {w}
    BY <2>0 DEF Matches, Hits
  <2>2. w \notin withdrawn
    BY <2>0 DEF TypeOK
  <2>3. ASSUME NEW l
        PROVE  /\ Rank(leaf, l) \in Nat /\ Rank(leaf, l)' \in Nat
               /\ Rank(leaf, l)' >= Rank(leaf, l) - 1
               /\ w \notin Hits(leaf) => Rank(leaf, l)' = Rank(leaf, l)
    <3> DEFINE B == {m \in Hits(leaf) : m >= l}
    <3>1. IsFiniteSet(B)
      BY HitsFinite, FS_Subset
    <3>2. Rank(leaf, l)' = Cardinality(B \ {w})
      <4>1. Rank(leaf, l)' = Cardinality({m \in Hits(leaf)' : m >= l})
        BY <2>0 DEF Rank
      <4>2. {m \in Hits(leaf)' : m >= l} = B \ {w}
        BY <2>1
      <4> QED
        BY <4>1, <4>2
    <3>3. /\ Cardinality(B) \in Nat /\ Cardinality(B \ {w}) \in Nat
          /\ Cardinality(B \ {w}) = IF w \in B THEN Cardinality(B) - 1 ELSE Cardinality(B)
      BY <3>1, FS_RemoveElement, FS_CardinalityType
    <3>4. Rank(leaf, l) = Cardinality(B)
      BY DEF Rank
    <3> QED
      BY <3>2, <3>3, <3>4
  <2>4. \A l : Awaited(l) => Awaited(l)'
    BY <2>0, <2>1 DEF Awaited
  <2> DEFINE Behind == (page - 1) * PageSize + 1
             Slipped == {l \in Hits(leaf) : leaf # <<>> /\ w \in Hits(leaf) /\ Rank(leaf, l) = Behind}
  \* Only the first listing behind the pages that have been read may slip onto them.
  <2>5. ASSUME NEW l \in Hits(root), StillRead(l), ~StillRead(l)' PROVE l \in Slipped
    <3>1. /\ leaf # <<>> /\ Matches(leaf, l) /\ l \notin gathered /\ page > 1
          /\ Rank(leaf, l) > (page - 1) * PageSize
      BY <2>0, <2>1, <2>5 DEF StillRead
    <3>2. ~(Rank(leaf, l)' > (page - 1) * PageSize)
      BY <2>0, <2>1, <2>5, <3>1 DEF StillRead
    <3>3. (page - 1) * PageSize \in Int
      BY Site DEF TypeOK
    <3>4. Rank(leaf, l) = Behind /\ w \in Hits(leaf)
      BY <2>3, <3>1, <3>2, <3>3
    <3>5. l \in Hits(leaf)
      BY <3>1 DEF Hits
    <3> QED
      BY <3>1, <3>4, <3>5
  <2>6. Missed' \subseteq Missed \cup Slipped
    <3> SUFFICES ASSUME NEW l \in Missed', l \notin Slipped PROVE l \in Missed
      OBVIOUS
    <3>1. /\ l \in Hits(root)' /\ l \notin published' /\ l \notin collected'
          /\ ~Awaited(l)' /\ ~StillRead(l)'
      BY DEF Missed
    <3>2. l \in Hits(root) /\ l # w
      BY <2>0, <3>1 DEF Hits, Matches
    <3> QED
      BY <2>0, <2>4, <2>5, <3>1, <3>2 DEF Missed
  <2>7. \A l, m \in Slipped : l = m
    BY RankIsInjective
  <2>8. Slipped # {} => Matches(root, w)
    BY DEF WithinScope, Hits
  <2>9. /\ Matches(root, w) => WithdrawnHere' = WithdrawnHere \cup {w}
        /\ ~Matches(root, w) => WithdrawnHere' = WithdrawnHere
        /\ w \notin WithdrawnHere
    BY <2>0, <2>1, <2>2 DEF WithdrawnHere, Matches
  <2>10. /\ Cardinality(WithdrawnHere) \in Nat /\ Cardinality(WithdrawnHere') \in Nat
         /\ Cardinality(WithdrawnHere') >= Cardinality(WithdrawnHere)
         /\ Slipped # {} => Cardinality(WithdrawnHere') = Cardinality(WithdrawnHere) + 1
    <3>0. IsFiniteSet(WithdrawnHere) /\ Cardinality(WithdrawnHere) \in Nat
      BY MissedFinite
    <3>1. CASE Matches(root, w)
      <4>1. Cardinality(WithdrawnHere \cup {w}) = Cardinality(WithdrawnHere) + 1
        BY <2>9, <3>0, FS_AddElement
      <4>2. Cardinality(WithdrawnHere') = Cardinality(WithdrawnHere) + 1
        BY <2>9, <3>1, <4>1
      <4> QED
        BY <3>0, <4>2
    <3>2. CASE ~Matches(root, w)
      <4>1. Cardinality(WithdrawnHere') = Cardinality(WithdrawnHere)
        BY <2>9, <3>2
      <4> QED
        BY <2>8, <3>0, <3>2, <4>1
    <3> QED
      BY <3>1, <3>2
  <2>11. /\ Cardinality(Missed) \in Nat /\ Cardinality(Missed') \in Nat
         /\ Slipped = {} => Cardinality(Missed') <= Cardinality(Missed)
         /\ Slipped # {} => Cardinality(Missed') <= Cardinality(Missed) + 1
    <3>1. CASE Slipped = {}
      BY <2>6, <3>1, MissedFinite, FS_Subset, FS_CardinalityType
    <3>2. CASE Slipped # {}
      <4>1. PICK x : Slipped = {x}
        BY <2>7, <3>2
      <4>0. IsFiniteSet(Missed) /\ Cardinality(Missed) \in Nat
        BY MissedFinite
      <4>a. /\ IsFiniteSet(Missed \cup {x})
            /\ Cardinality(Missed \cup {x}) =
                  IF x \in Missed THEN Cardinality(Missed) ELSE Cardinality(Missed) + 1
        BY <4>0, FS_AddElement
      <4>2. /\ IsFiniteSet(Missed \cup {x})
            /\ Cardinality(Missed \cup {x}) <= Cardinality(Missed) + 1
        BY <4>0, <4>a
      <4>3. Missed' \in SUBSET (Missed \cup {x})
        BY <2>6, <4>1
      <4>4. /\ Cardinality(Missed') <= Cardinality(Missed \cup {x})
            /\ Cardinality(Missed') \in Nat /\ Cardinality(Missed \cup {x}) \in Nat
        BY <4>2, <4>3, FS_Subset, FS_CardinalityType
      <4> QED
        BY <3>2, <4>2, <4>4, MissedFinite
    <3> QED
      BY <3>1, <3>2
  <2> QED
    BY <2>0, <2>10, <2>11 DEF FewMissed
<1>9. CASE UNCHANGED vars
  <2>1. Missed' = Missed /\ WithdrawnHere' = WithdrawnHere /\ status' = status
    BY <1>9
       DEF vars, site, scrape, Missed, WithdrawnHere, Awaited, StillRead, Hits, Matches,
           Rank
  <2> QED
    BY <2>1 DEF FewMissed
<1> QED
  BY <1>1, <1>2, <1>3, <1>4, <1>5, <1>6, <1>7, <1>8, <1>9 DEF Next, Step
\* Whatever is over the cap, however the site changes, and whichever pages tell
\* of the cap: a scrape that returns has nothing of another scope, and lacks at
\* most one listing of its own for each that was withdrawn meanwhile.  It needs
\* every listing to be found under some sit length.
THEOREM WholeScopeReturned ==
    ASSUME {} \notin LengthSets
    PROVE  Spec => []ReturnsWholeScope
<1> DEFINE Inv == TypeOK /\ WithinScope /\ FewMissed
<1>1. Init => Inv
  BY TypeInit, ScopeInit, FewInit
<1>2. Inv /\ [Next]_vars => Inv'
  BY TypeNext, ScopeNext, FewNext
<1>3. Inv => ReturnsWholeScope
  <2> SUFFICES ASSUME TypeOK, WithinScope, FewMissed, status = "done" PROVE ReturnsWholeScope
    BY DEF ReturnsWholeScope
  <2>1. \A l \in collected : l \in Ever /\ Matches(root, l)
    BY DEF WithinScope
  <2>2. todo = <<>> /\ leaf = <<>>
    BY DEF WithinScope
  <2>3. ToSet(todo) = {}
    BY <2>2 DEF ToSet
  <2>4. Missed = (Hits(root) \ published) \ collected
    BY <2>2, <2>3 DEF Missed, Awaited, StillRead
  <2>5. Cardinality(Missed) <= Cardinality(WithdrawnHere)
    BY DEF FewMissed
  <2> QED
    BY <2>1, <2>4, <2>5 DEF ReturnsWholeScope, WithdrawnHere
<1> QED
  BY <1>1, <1>2, <1>3, PTL DEF Spec

------------------------------------------------------------------------------
\* Giving up.

OverTheCap ==
    \E p \in Places, n \in Lengths :
        Cardinality({l \in Ever : Matches(Append(p, n), l)}) > Cap

\* A search over the cap that cannot be split is one sit length of one subregion.
LEMMA TheEndIsOverTheCap ==
    ASSUME TypeOK, NEW f \in Filters, Children(f) = {}, Count(f) > Cap
    PROVE  OverTheCap
<1>1. PICK p \in Places, n \in Lengths : f = Append(p, n)
  BY OnlyLengthsEnd, FilterShape, Zenon
<1> DEFINE E == {l \in Ever : Matches(f, l)}
<1>2. Hits(f) \in SUBSET E /\ E \in SUBSET Listings
  BY DEF Hits, Ever, TypeOK
<1>3. IsFiniteSet(E)
  BY <1>2, Site, FS_Subset
<1>4. Cardinality(Hits(f)) <= Cardinality(E) /\ Cardinality(E) \in Nat
  BY <1>2, <1>3, FS_Subset, FS_CardinalityType
<1>5. Cardinality(E) > Cap
  BY <1>4, HitsFinite, Site DEF Count
<1> QED
  BY <1>1, <1>5 DEF OverTheCap

LEMMA SameCap == UNCHANGED site => (OverTheCap' <=> OverTheCap)
BY SameSite DEF OverTheCap

LEMMA GivesUpNext ==
    TypeOK /\ GivesUpOnlyAtTheEnd /\ [Next]_vars => GivesUpOnlyAtTheEnd'
<1> SUFFICES ASSUME TypeOK, GivesUpOnlyAtTheEnd, [Next]_vars, status' = "overcap"
             PROVE  OverTheCap'
  BY DEF GivesUpOnlyAtTheEnd, OverTheCap
<1>0. ASSUME NEW f \in Filters, NEW rest \in Seq(Filters), Split(f, rest), status = "running",
             UNCHANGED site, Len(f) = 4 => Count(f) > Cap
      PROVE  OverTheCap'
  <2>1. Children(f) = {}
    BY <1>0, SplitGives
  <2>2. OverTheCap
    BY <1>0, <2>1, OnlyLengthsEnd, TheEndIsOverTheCap
  <2> QED
    BY <1>0, <2>2, SameCap
<1>1. CASE SplitCountry
  <2>1. /\ <<>> \in Filters /\ Tail(todo) \in Seq(Filters) /\ Split(<<>>, Tail(todo))
        /\ status = "running" /\ UNCHANGED site
    BY <1>1, PopElements DEF SplitCountry, TypeOK
  <2>2. Len(<<>>) # 4
    OBVIOUS
  <2> QED
    BY <1>0, <2>1, <2>2
<1>2. CASE FirstPage
  <2> DEFINE f == Head(todo)
  <2>0. /\ f \in Filters /\ Tail(todo) \in Seq(Filters) /\ status = "running"
        /\ UNCHANGED <<site, collected>>
    BY <1>2, FirstPageSteps, Zenon
  <2>1. CASE status' = status
    BY <2>0, <2>1
  <2>2. CASE (Len(f) = 4 => TRUE \in Notices(f, 1)) /\ Split(f, Tail(todo))
    <3>1. Len(f) = 4 => Count(f) > Cap
      BY <2>2, NoticeIsTrue
    <3> QED
      BY <1>0, <2>0, <2>2, <3>1
  <2> QED
    BY <1>2, <2>1, <2>2, FirstPageSteps, Zenon
<1>3. CASE NextPage
  <2>0. leaf \in Filters /\ todo \in Seq(Filters) /\ status = "running" /\ UNCHANGED site
    BY <1>3, NextPageSteps DEF TypeOK
  <2>1. CASE TRUE \in Notices(leaf, page) /\ Split(leaf, todo)
    <3>1. Count(leaf) > Cap
      BY <2>1, NoticeIsTrue
    <3> QED
      BY <1>0, <2>0, <2>1, <3>1
  <2>2. CASE status' = status
    BY <2>0, <2>2
  <2> QED
    BY <1>3, <2>1, <2>2, NextPageSteps, Zenon
<1>4. CASE LeafEnds
  BY <1>4 DEF LeafEnds
<1>5. CASE RequestFails
  BY <1>5 DEF RequestFails
<1>6. CASE Return
  BY <1>6 DEF Return
<1>7. ASSUME NEW l \in Listings, Publish(l) \/ Withdraw(l) PROVE OverTheCap'
  BY <1>7 DEF Publish, Withdraw, MayChange, scrape
<1>8. CASE UNCHANGED vars
  <2>1. OverTheCap /\ UNCHANGED site
    BY <1>8 DEF vars, scrape, GivesUpOnlyAtTheEnd, OverTheCap
  <2> QED
    BY <2>1, SameCap
<1> QED
  BY <1>1, <1>2, <1>3, <1>4, <1>5, <1>6, <1>7, <1>8 DEF Next, Step

\* A scrape raises on the cap only where no filter is left that could split the
\* search, and only if the site really had more than the cap there.
THEOREM GivesUpRightly == Spec => []GivesUpOnlyAtTheEnd
<1>1. Init => GivesUpOnlyAtTheEnd
  BY DEF Init, GivesUpOnlyAtTheEnd
<1> QED
  BY <1>1, TypeInit, TypeNext, GivesUpNext, PTL DEF Spec

------------------------------------------------------------------------------
(***************************************************************************)
(* The client.                                                             *)
(***************************************************************************)

LEMMA Settled ==
    /\ Interval \in Nat /\ MaxJitter \in Nat /\ Attempts \in Nat /\ Backoff \in Nat
    /\ Timeout \in Nat \ {0} /\ Budgets \subseteq Nat /\ None \notin Nat
    /\ Enough \in Nat /\ Interval <= Enough /\ 0 \in Nat
BY ClientAssumption DEF Enough

\* 2^n counts the subsets of a set of n, of which there are more the larger it is.
LEMMA Power ==
    ASSUME NEW n \in Nat
    PROVE  /\ 2^n \in Nat /\ IsFiniteSet(SUBSET (1..n))
           /\ Cardinality(SUBSET (1..n)) = 2^n
<1>1. IsFiniteSet(1..n) /\ Cardinality(1..n) = n
  BY FS_Interval
<1>2. IsFiniteSet(SUBSET (1..n)) /\ Cardinality(SUBSET (1..n)) = 2^n
  BY <1>1, FS_SUBSET
<1> QED
  BY <1>2, FS_CardinalityType

LEMMA PowerGrows == ASSUME NEW n \in Nat, NEW m \in 0..n PROVE 2^m <= 2^n
<1>1. SUBSET (1..m) \in SUBSET SUBSET (1..n) /\ m \in Nat
  OBVIOUS
<1>2. Cardinality(SUBSET (1..m)) <= Cardinality(SUBSET (1..n))
  BY <1>1, Power, FS_Subset
<1>3. Cardinality(SUBSET (1..m)) = 2^m /\ Cardinality(SUBSET (1..n)) = 2^n
  BY <1>1, Power
<1> QED
  BY <1>2, <1>3

\* No pause is longer than the longest.
LEMMA LongestIsLongest ==
    /\ LongestPause \in Nat /\ Enough <= LongestPause
    /\ \A n \in 0..Attempts - 1 : Backoff * 2^n \in 0..LongestPause
<1> DEFINE last == IF Attempts = 0 THEN 0 ELSE Backoff * 2^(Attempts - 1)
<1>0. Attempts \in Nat /\ Backoff \in Nat /\ Enough \in Nat
  BY Settled
<1>1. last \in Nat
  <2>1. CASE Attempts # 0
    <3>1. Attempts - 1 \in Nat
      BY <1>0, <2>1
    <3>2. 2^(Attempts - 1) \in Nat
      BY <3>1, Power
    <3> QED
      BY <1>0, <3>2
  <2> QED
    BY <2>1
<1>2. ASSUME NEW n \in 0..Attempts - 1 PROVE Backoff * 2^n \in 0..last
  <2>1. Attempts # 0 /\ Attempts - 1 \in Nat /\ n \in Nat /\ n \in 0..Attempts - 1
    BY <1>0
  <2>2. 2^n \in Nat /\ 2^(Attempts - 1) \in Nat /\ 2^n <= 2^(Attempts - 1)
    BY <2>1, Power, PowerGrows
  <2>3. \A a, b, c \in Nat : b <= c => a * b \in 0..a * c
    OBVIOUS
  <2> QED
    BY <1>0, <2>1, <2>2, <2>3
<1>3. LongestPause = IF last > Enough THEN last ELSE Enough
  BY DEF LongestPause
<1> HIDE DEF last
<1> QED
  BY <1>0, <1>1, <1>2, <1>3

\* What has been waited for since the last request, and is still to be.
ClientPaced ==
    /\ since # None => gap >= since
    /\ pc = "pausing" => since # None /\ since + pause >= Interval

ClientInv == ClientTypeOK /\ NothingOutlastsTheDeadline /\ ClientPaced

LEMMA ClientBeginsInv == ClientInit => ClientInv
BY Settled, LongestIsLongest
   DEF ClientInit, ClientInv, ClientTypeOK, NothingOutlastsTheDeadline, ClientPaced,
       Asleep

------------------------------------------------------------------------------
\* The ways in which a step of a call can end.

LEMMA ClientRaises ==
    ASSUME ClientInv, NoClient, gap' = gap
    PROVE  ClientInv'
BY Settled, LongestIsLongest
   DEF ClientInv, ClientTypeOK, NothingOutlastsTheDeadline, ClientPaced, NoClient,
       Asleep

LEMMA ClientSleeps ==
    ASSUME ClientInv, NEW delay \in 0..LongestPause, NEW how \in Asleep,
           SleepOrRaise(delay, how),
           retry' \in 0..Attempts, gap' = gap,
           how = "pausing" => since # None /\ since + delay >= Interval
    PROVE  ClientInv'
<1>1. CASE left # None /\ delay >= left
  BY <1>1, ClientRaises DEF SleepOrRaise
<1>2. CASE ~(left # None /\ delay >= left)
  <2>1. /\ pc' = how /\ pause' = delay /\ requestLeft' = 0
        /\ left' = left /\ since' = since
    BY <1>2 DEF SleepOrRaise
  <2>2. left # None => delay < left
    BY <1>2, Settled DEF ClientInv, ClientTypeOK
  <2> QED
    BY <2>1, <2>2, Settled
       DEF ClientInv, ClientTypeOK, NothingOutlastsTheDeadline, ClientPaced, Asleep
<1> QED
  BY <1>1, <1>2

LEMMA ClientBegins == ASSUME ClientInv, BeginRequest PROVE ClientInv'
<1>1. CASE left = 0
  BY <1>1, ClientRaises DEF BeginRequest
<1>2. CASE left # 0
  <2>1. RequestTimeout \in 0..Timeout /\ (left # None => RequestTimeout <= left)
    BY Settled DEF RequestTimeout, ClientInv, ClientTypeOK
  <2> QED
    BY <1>2, <2>1, Settled, LongestIsLongest
       DEF BeginRequest, Noted, ClientInv, ClientTypeOK, NothingOutlastsTheDeadline,
           ClientPaced, Asleep
<1> QED
  BY <1>1, <1>2

LEMMA ClientKeepsInv == ClientInv /\ [ClientNext]_clientVars => ClientInv'
<1> SUFFICES ASSUME ClientInv, [ClientNext]_clientVars PROVE ClientInv'
  OBVIOUS
<1>1. ASSUME NEW deadline \in Budgets \cup {None}, NewClient(deadline) PROVE ClientInv'
  BY <1>1, Settled
     DEF NewClient, ClientInv, ClientTypeOK, NothingOutlastsTheDeadline, ClientPaced,
         Asleep
<1>2. CASE Call
  BY <1>2, Settled
     DEF Call, ClientInv, ClientTypeOK, NothingOutlastsTheDeadline, ClientPaced, Asleep
<1>3. CASE EndScrape
  BY <1>3, ClientRaises DEF EndScrape
<1>4. ASSUME NEW jitter \in 0..MaxJitter, TakeSlot(jitter) PROVE ClientInv'
  <2>1. CASE since # None /\ since < Interval + jitter
    <3>1. /\ SleepOrRaise(Interval + jitter - since, "pausing")
          /\ retry' \in 0..Attempts /\ gap' = gap
      BY <1>4, <2>1, Settled DEF TakeSlot, ClientInv, ClientTypeOK
    <3>2. since \in Nat /\ jitter \in Nat
      BY <2>1, Settled DEF ClientInv, ClientTypeOK
    <3>3. /\ Interval + jitter - since \in 0..Enough
          /\ since + (Interval + jitter - since) >= Interval
      BY <2>1, <3>2, Settled DEF ClientInv, Enough
    <3>4. Interval + jitter - since \in 0..LongestPause
      BY <3>3, Settled, LongestIsLongest DEF ClientInv
    <3> QED
      BY <2>1, <3>1, <3>3, <3>4, ClientSleeps DEF Asleep
  <2>2. CASE ~(since # None /\ since < Interval + jitter)
    BY <1>4, <2>2, ClientBegins DEF TakeSlot
  <2> QED
    BY <2>1, <2>2
<1>5. CASE PauseEnds
  BY <1>5, ClientBegins DEF PauseEnds
<1>6. CASE BackoffEnds
  BY <1>6, Settled
     DEF BackoffEnds, ClientInv, ClientTypeOK, NothingOutlastsTheDeadline, ClientPaced,
         Asleep
<1>7. ASSUME NEW answer \in Answers, Answer(answer) PROVE ClientInv'
  <2>1. CASE answer = "ok"
    <3>1. /\ pc' = "ready" /\ requestLeft' = 0
          /\ UNCHANGED <<left, since, pause, retry, gap>>
      BY <1>7, <2>1, Zenon DEF Answer, TriedAgain
    <3> QED
      BY <3>1, Settled
         DEF ClientInv, ClientTypeOK, NothingOutlastsTheDeadline, ClientPaced, Asleep
  <2>2. CASE answer # "ok" /\ TriedAgain(answer) /\ retry < Attempts
    <3>1. /\ SleepOrRaise(RetryBackoff, "backoff")
          /\ retry' \in 0..Attempts /\ gap' = gap
      BY <1>7, <2>2, Settled DEF Answer, ClientInv, ClientTypeOK, NextRetry
    <3>2. RetryBackoff \in 0..LongestPause
      <4>1. retry \in 0..Attempts - 1
        BY <2>2, Settled DEF ClientInv, ClientTypeOK
      <4> QED
        BY <4>1, LongestIsLongest DEF ClientInv, RetryBackoff
    <3> QED
      BY <3>1, <3>2, ClientSleeps DEF Asleep
  <2>3. CASE answer # "ok" /\ ~(TriedAgain(answer) /\ retry < Attempts)
    BY <1>7, <2>3, ClientRaises DEF Answer
  <2> QED
    BY <2>1, <2>2, <2>3
<1>8. CASE Pass
  <2>1. ClientTypeOK'
    BY <1>8, Settled, LongestIsLongest DEF Pass, Later, Older, ClientInv, ClientTypeOK
  <2>2. NothingOutlastsTheDeadline'
    BY <1>8, Settled
       DEF Pass, Later, ClientInv, ClientTypeOK, NothingOutlastsTheDeadline, Asleep
  <2>3. ClientPaced'
    BY <1>8, Settled
       DEF Pass, Later, Older, ClientInv, ClientTypeOK, ClientPaced, Asleep, Enough
  <2> QED
    BY <2>1, <2>2, <2>3 DEF ClientInv
<1>9. CASE UNCHANGED clientVars
  BY <1>9, Settled
     DEF clientVars, ClientInv, ClientTypeOK, NothingOutlastsTheDeadline, ClientPaced
<1> QED
  BY <1>1, <1>2, <1>3, <1>4, <1>5, <1>6, <1>7, <1>8, <1>9 DEF ClientNext, Proceed

LEMMA ClientAlways == ClientSpec => []ClientInv
BY ClientBeginsInv, ClientKeepsInv, PTL DEF ClientSpec

------------------------------------------------------------------------------
\* Every timer of the client stays in its range, and no pause is longer than the
\* interval with its jitter and the last doubling of the back-off.
THEOREM ClientTyped == ClientSpec => []ClientTypeOK
<1>1. ClientInv => ClientTypeOK
  BY DEF ClientInv
<1> QED
  BY <1>1, ClientAlways, PTL

\* Neither a sleep (_sleep_with_deadline) nor a request
\* (_request_timeout_seconds) ends after the deadline of its client.
THEOREM DeadlineKept == ClientSpec => []NothingOutlastsTheDeadline
<1>1. ClientInv => NothingOutlastsTheDeadline
  BY DEF ClientInv
<1> QED
  BY <1>1, ClientAlways, PTL

\* Every request but a client's first leaves the site the interval
\* (_wait_for_request_slot), retries and back-offs included.
THEOREM Pacing == ClientSpec => ClientIsPaced
<1>1. ClientInv /\ [ClientNext]_clientVars =>
          [pc # "requesting" /\ pc' = "requesting" => since = None \/ gap >= Interval]_clientVars
  <2> SUFFICES ASSUME ClientInv, ClientNext, pc # "requesting", pc' = "requesting", since # None
               PROVE  gap >= Interval
    OBVIOUS
  <2>0. /\ since \in Nat /\ gap \in Nat /\ gap >= since
    BY Settled DEF ClientInv, ClientTypeOK, ClientPaced
  <2>1. ASSUME NEW jitter \in 0..MaxJitter, TakeSlot(jitter) PROVE gap >= Interval
    <3>1. ~(since < Interval + jitter)
      BY <2>1 DEF TakeSlot, SleepOrRaise, NoClient
    <3> QED
      BY <2>0, <3>1, Settled DEF ClientInv
  <2>2. CASE PauseEnds
    BY <2>0, <2>2, Settled DEF PauseEnds, ClientInv, ClientPaced
  <2>3. CASE ~PauseEnds /\ ~\E jitter \in 0..MaxJitter : TakeSlot(jitter)
    <3>1. ASSUME NEW deadline \in Budgets \cup {None}, NewClient(deadline) PROVE FALSE
      BY <3>1 DEF NewClient
    <3>2. ASSUME NEW answer \in Answers, Answer(answer) PROVE FALSE
      BY <3>2 DEF Answer
    <3>3. ~(Call \/ EndScrape \/ BackoffEnds \/ Pass)
      BY DEF Call, EndScrape, NoClient, BackoffEnds, Pass
    <3> QED
      BY <2>3, <3>1, <3>2, <3>3 DEF ClientNext, Proceed
  <2> QED
    BY <2>1, <2>2, <2>3
<1> QED
  BY <1>1, ClientAlways, PTL DEF ClientSpec, ClientIsPaced
==============================================================================
