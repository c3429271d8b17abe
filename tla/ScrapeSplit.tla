----------------------------- MODULE ScrapeSplit -----------------------------
(***************************************************************************)
(* One scrape of a scope (kiwihousesitters/scraper.py).  The site shows at *)
(* most Cap results of a search and tells, on one page or another, when    *)
(* there are more, so a search over the cap is replaced by its children:   *)
(* islands, regions, subregions and, last, sit lengths.                    *)
(*                                                                         *)
(* A site filter is the sequence of its values, from the island down.  The *)
(* code recurses depth first; what is left to do of it is a sequence here. *)
(* The site is external.  It lists what it has in the order of newentries, *)
(* the latest first, and changes while a search is read page by page: a    *)
(* new listing moves the others towards later pages, a withdrawn one lets  *)
(* those behind it slip into a page that has been read.                    *)
(***************************************************************************)
EXTENDS Integers, SequencesExt

CONSTANTS
    Listings,       \* external ids, the higher the newer
    Earlier,        \* what the site may show when the scrape begins
    Places,         \* <<island, region, subregion>>: location_map.py
    Lengths,        \* SIT_LENGTH_IDS
    LengthSets,     \* the sit lengths a listing may be found under
    Roots,          \* the site filters of scopes and campaign leaves
    Cap,            \* SEARCH_RESULT_CAP
    PageSize,       \* results on a page of the site
    MaxChanges      \* bound: changes of the site during a scrape

Filters ==
    {SubSeq(p, 1, n) : p \in Places, n \in 0..3} \cup {Append(p, n) : p \in Places, n \in Lengths}

ASSUME SiteAssumption ==
    /\ Listings \subseteq Nat /\ IsFiniteSet(Listings)
    /\ IsFiniteSet(Places) /\ \A p \in Places : p = <<p[1], p[2], p[3]>>
    /\ IsFiniteSet(Lengths) /\ Lengths # {}
    /\ Roots \subseteq Filters
    /\ Earlier \subseteq SUBSET Listings
    /\ LengthSets \subseteq SUBSET Lengths
    /\ Cap \in Nat \ {0} /\ PageSize \in Nat \ {0} /\ MaxChanges \in Nat

VARIABLES
    place, lengths, \* the site: where a listing is, and under which sit lengths
    online,         \* the listings it shows
    published,      \* those of them it did not show when the scrape began
    withdrawn,      \* those it has shown since then and shows no more
    root,           \* the filter the scrape was called with
    todo,           \* filters still to be searched, the next one first
    leaf,           \* the search that is paginated, or <<>>
    page,           \* the page of it that is read next
    gathered,       \* leaf_listings
    collected,      \* listings_by_external_id
    status          \* "running", "done", or how the scrape failed

site == <<place, lengths, online, published, withdrawn, root>>
scrape == <<todo, leaf, page, gathered, collected, status>>
vars == <<site, scrape>>

TypeOK ==
    /\ place \in [Listings -> Places]
    /\ lengths \in [Listings -> LengthSets]
    /\ published \subseteq online /\ online \subseteq Listings
    /\ withdrawn \subseteq Listings \ online
    /\ root \in Roots
    /\ todo \in Seq(Filters)
    /\ leaf \in Filters
    /\ page \in 1..Cap + 1
    /\ gathered \subseteq Listings
    /\ collected \subseteq Listings
    /\ status \in {"running", "done", "overcap", "http"}
------------------------------------------------------------------------------
\* What the site has for a filter, and what of it a page shows.
Matches(f, l) ==
    /\ \A i \in 1..Len(f) \cap 1..3 : f[i] = place[l][i]
    /\ Len(f) = 4 => f[4] \in lengths[l]

Hits(f) == {l \in online : Matches(f, l)}
Count(f) == Cardinality(Hits(f))
Shown(f) == LET n == Count(f) IN IF n < Cap THEN n ELSE Cap
Rank(f, l) == Cardinality({m \in Hits(f) : m >= l})
Page(f, n) ==
    {l \in Hits(f) : /\ Rank(f, l) > (n - 1) * PageSize
                     /\ Rank(f, l) <= n * PageSize
                     /\ Rank(f, l) <= Cap}
HasNext(f, n) == n * PageSize < Shown(f)

\* A capped search says so on one of its pages, at the latest on its last.
Notices(f, n) ==
    IF Count(f) <= Cap THEN {FALSE} ELSE IF HasNext(f, n) THEN BOOLEAN ELSE {TRUE}

\* The house-type counts of a page, if it has any; with a sit length selected
\* they may still be those of all lengths.
Estimates(f) ==
    IF Len(f) = 4 THEN {-1, Count(f), Count(Front(f))} ELSE {-1, Count(f)}
------------------------------------------------------------------------------
Below(f) == {SubSeq(p, 1, Len(f) + 1) : p \in {q \in Places : SubSeq(q, 1, Len(f)) = f}}

\* Mutant: a search with a sit length is tried again as it is.
ItselfAgain(f) ==
    IF Len(f) = 4 THEN {f}
    ELSE IF Len(f) = 3 THEN {Append(f, n) : n \in Lengths}
    ELSE Below(f)
Children(f) ==
    IF Len(f) = 4 THEN {}
    ELSE IF Len(f) = 3 THEN {Append(f, n) : n \in Lengths}
    ELSE Below(f)

\* Mutant: the estimate counts whatever the filter.
SafeByEstimate(f, estimate, notice) == ~notice /\ estimate <= Cap
IsSafe(f, estimate, notice) == ~notice /\ (Len(f) = 4 \/ estimate <= Cap)

Init ==
    /\ place \in [Listings -> Places]
    /\ lengths \in [Listings -> LengthSets]
    /\ online \in Earlier
    /\ published = {}
    /\ withdrawn = {}
    /\ root \in Roots
    /\ todo = <<root>>
    /\ leaf = <<>>
    /\ page = 1
    /\ gathered = {}
    /\ collected = {}
    /\ status = "running"

NoLeaf == leaf' = <<>> /\ page' = 1 /\ gathered' = {}

\* f gives way to its children; a sit length has none, and the scrape raises.
Split(f, rest) ==
    IF Children(f) = {}
    THEN status' = "overcap" /\ todo' = rest
    ELSE status' = status /\ todo' = SetToSeq(Children(f)) \o rest

\* The whole country is not searched but split.
SplitCountry ==
    /\ status = "running"
    /\ leaf = <<>>
    /\ todo # <<>>
    /\ Head(todo) = <<>>
    /\ Split(<<>>, Tail(todo))
    /\ UNCHANGED <<site, leaf, page, gathered, collected>>

\* The first page of the next search: it is paginated or split.
FirstPage ==
    /\ status = "running"
    /\ leaf = <<>>
    /\ todo # <<>>
    /\ Head(todo) # <<>>
    /\ \E estimate \in Estimates(Head(todo)), notice \in Notices(Head(todo), 1) :
          IF IsSafe(Head(todo), estimate, notice)
          THEN /\ leaf' = Head(todo)
               /\ todo' = Tail(todo)
               /\ page' = IF HasNext(leaf', 1) THEN 2 ELSE 1
               /\ gathered' = Page(leaf', 1)
               /\ UNCHANGED status
          ELSE /\ Split(Head(todo), Tail(todo))
               /\ UNCHANGED <<leaf, page, gathered>>
    /\ UNCHANGED <<site, collected>>

\* Mutant: the notice counts only where the search can be split.
IsCappedAbove(f, notice) == notice /\ Len(f) < 4
IsCapped(f, notice) == notice

\* A later page.  If it says that there are more results the pages before it
\* are given up and the search is split after all.
NextPage ==
    /\ status = "running"
    /\ page > 1
    /\ \E notice \in Notices(leaf, page) :
          IF IsCapped(leaf, notice)
          THEN Split(leaf, todo) /\ NoLeaf
          ELSE /\ gathered' = gathered \cup Page(leaf, page)
               /\ page' = IF HasNext(leaf, page) THEN page + 1 ELSE 1
               /\ UNCHANGED <<todo, leaf, status>>
    /\ UNCHANGED <<site, collected>>

\* There is no further page.
LeafEnds ==
    /\ status = "running"
    /\ leaf # <<>>
    /\ page = 1
    /\ collected' = collected \cup gathered
    /\ NoLeaf
    /\ UNCHANGED <<site, todo, status>>

\* A request fails (SearchClient), and with it the scrape.
RequestFails ==
    /\ status = "running"
    /\ (leaf = <<>> /\ todo # <<>> /\ Head(todo) # <<>>) \/ page > 1
    /\ status' = "http"
    /\ UNCHANGED <<site, todo, leaf, page, gathered, collected>>

Return ==
    /\ status = "running"
    /\ todo = <<>>
    /\ leaf = <<>>
    /\ status' = "done"
    /\ UNCHANGED <<site, todo, leaf, page, gathered, collected>>

\* What the site has shown at one time or another of the scrape.
Ever == online \cup withdrawn
MayChange == status = "running" /\ Cardinality(published) + Cardinality(withdrawn) < MaxChanges

\* A new listing comes first in the order of newentries.
Publish(l) ==
    /\ MayChange
    /\ \A m \in Ever : m < l
    /\ online' = online \cup {l}
    /\ published' = published \cup {l}
    /\ UNCHANGED <<place, lengths, withdrawn, root, scrape>>

\* A sitter is found, or the listing is taken back.
Withdraw(l) ==
    /\ MayChange
    /\ l \in online
    /\ online' = online \ {l}
    /\ published' = published \ {l}
    /\ withdrawn' = withdrawn \cup {l}
    /\ UNCHANGED <<place, lengths, root, scrape>>

Step == SplitCountry \/ FirstPage \/ NextPage \/ LeafEnds \/ RequestFails \/ Return

Next == Step \/ \E l \in Listings : Publish(l) \/ Withdraw(l)

Spec == Init /\ [][Next]_vars

\* The scrape goes on: a request is answered or fails.
FairSpec == Spec /\ WF_vars(Step)
------------------------------------------------------------------------------
\* docs: "missing-listing lifecycle updates are based on complete scope coverage".
\* A scrape that returns has nothing but listings of its scope, wherever the
\* cap was met and however much had been gathered by then; and of those that
\* were there all the time it lacks no more than were withdrawn from the scope
\* meanwhile: new ones, however many, hide nothing, and without any change the
\* result is exact.
ReturnsWholeScope ==
    status = "done" =>
        /\ \A l \in collected : l \in Ever /\ Matches(root, l)
        /\ Cardinality((Hits(root) \ published) \ collected)
               <= Cardinality({l \in withdrawn : Matches(root, l)})

\* A scrape gives up on the cap only when one sit length of one subregion has
\* really been over it, or would have been with what was withdrawn.
GivesUpOnlyAtTheEnd ==
    status = "overcap" =>
        \E p \in Places, n \in Lengths :
            Cardinality({l \in Ever : Matches(Append(p, n), l)}) > Cap

\* Every scrape returns or raises.
ScrapeEnds == <>(status # "running")
==============================================================================
