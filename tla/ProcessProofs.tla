--------------------------- MODULE ProcessProofs ----------------------------
(***************************************************************************)
(* The updater's search finds the right release, and the server exits with *)
(* success only when it should, for any releases, page size, setting,      *)
(* versions and callers.                                                   *)
(***************************************************************************)
EXTENDS Process, ListProofs

(***************************************************************************)
(* The search.  While it is under way, the list it began with is what      *)
(* GitHub lists after the releases published since, and of the part that   *)
(* the pages fetched so far covered, nothing passes the filter that has    *)
(* not been printed.                                                       *)
(***************************************************************************)
Since == Len(published) - Len(listing)

Covered == (page - 1) * GH_PAGE_SIZE

Searched ==
  /\ Len(listing) <= Len(published)
  /\ \A i \in 1..Len(listing) : listing[i] = published[i + Since]
  /\ \A i \in 1..Len(listing) :
       i + Since <= Covered /\ Eligible(listing[i]) =>
         command = "list" /\ listing[i] \in Range(printed)

SearchTypes ==
  /\ published \in Seq(Releases) /\ listing \in Seq(Releases) /\ printed \in Seq(Releases)
  /\ \A i, j \in 1..Len(published) : published[i] = published[j] => i = j
  /\ page \in Nat \ {0}

SearchInv ==
  /\ SearchTypes
  /\ pc = "fetching" /\ page > 1 => Searched
  /\ found = "release" => pc \notin {"select", "fetching"}
  /\ FirstEligible
  /\ NoneMeansNone

\* What passes the filter is fixed by the command.
LEMMA EligibleStays ==
  ASSUME command' = command
  PROVE  \A r : Eligible(r)' <=> Eligible(r)
BY DEF Eligible, IsUpdate, IsListed, IsAskedFor

LEMMA MinOfTwo ==
  ASSUME NEW a \in Nat, NEW b \in Nat
  PROVE  Min({a, b}) = IF a <= b THEN a ELSE b
BY DEF Min

\* A page ends where the next one begins.
LEMMA PageEnds ==
  ASSUME NEW n \in Nat \ {0}, NEW s \in Nat
  PROVE  (n - 1) * s \in Nat /\ n * s = (n - 1) * s + s
OBVIOUS

\* A page holds what is listed at its places, and it is empty only past the end.
LEMMA PageFacts ==
  ASSUME SearchTypes
  PROVE  /\ Covered \in Nat
         /\ fetch_releases(page) \in Seq(Releases)
         /\ \A i \in 1..Len(fetch_releases(page)) :
              /\ Covered + i \in 1..Len(published)
              /\ fetch_releases(page)[i] = published[Covered + i]
         /\ \A k \in 1..Len(published) :
              Covered < k /\ k <= Covered + GH_PAGE_SIZE =>
                k - Covered \in 1..Len(fetch_releases(page))
<1> DEFINE n == Len(published)
           m == Min({Covered + GH_PAGE_SIZE, n})
           items == SubSeq(published, Covered + 1, m)
<1>1. /\ GH_PAGE_SIZE \in Nat \ {0} /\ n \in Nat /\ Covered \in Nat
      /\ page * GH_PAGE_SIZE = Covered + GH_PAGE_SIZE
  BY UpdaterAssumption, PageEnds DEF SearchTypes, Covered
<1>2. fetch_releases(page) = items
  BY Zenon, <1>1 DEF fetch_releases, Covered
<1> HIDE DEF n
<1>3. m \in Nat /\ m <= n /\ m <= Covered + GH_PAGE_SIZE
      /\ (m = n \/ m = Covered + GH_PAGE_SIZE)
  BY <1>1, MinOfTwo
<1> HIDE DEF m
<1>4. /\ items \in Seq(Releases)
      /\ Len(items) = IF Covered + 1 <= m THEN m - Covered ELSE 0
      /\ \A i \in 1..m - Covered : items[i] = published[Covered + i]
  BY <1>1, <1>3, SubSeqFacts DEF SearchTypes, n
<1> HIDE DEF items
<1>5. ASSUME NEW i \in 1..Len(items)
      PROVE  Covered + i \in 1..n /\ items[i] = published[Covered + i]
  BY <1>1, <1>3, <1>4
<1>6. ASSUME NEW k \in 1..n, Covered < k, k <= Covered + GH_PAGE_SIZE
      PROVE  k - Covered \in 1..Len(items)
  BY <1>1, <1>3, <1>4, <1>6
<1> QED
  BY <1>1, <1>2, <1>4, <1>5, <1>6 DEF n

\* What the filter lets through of a page: all of it that passes, the first
\* of it first.
LEMMA MatchFacts ==
  ASSUME SearchTypes, NEW matching, matching = Filtered(fetch_releases(page))
  PROVE  /\ matching \in Seq(Releases)
         /\ \A k \in 1..Len(published) :
              Covered < k /\ k <= Covered + GH_PAGE_SIZE /\ Eligible(published[k]) =>
                \E j \in 1..Len(matching) : matching[j] = published[k]
         /\ matching # <<>> =>
              \E k \in 1..Len(published) :
                /\ Covered < k
                /\ Head(matching) = published[k] /\ Eligible(published[k])
                /\ \A j \in 1..k-1 : Covered < j => ~Eligible(published[j])
<1> DEFINE items == fetch_releases(page)
           passing == {r \in Releases : Eligible(r)}
<1>1. /\ Covered \in Nat /\ items \in Seq(Releases) /\ Len(items) \in Nat
      /\ \A i \in 1..Len(items) : /\ Covered + i \in 1..Len(published)
                                  /\ items[i] = published[Covered + i]
      /\ \A k \in 1..Len(published) :
           Covered < k /\ k <= Covered + GH_PAGE_SIZE => k - Covered \in 1..Len(items)
  BY PageFacts
<1>2. \A k \in 1..Len(published) : published[k] \in Releases /\ k \in Nat
  BY DEF SearchTypes
<1>3. matching = Filter(items, passing)
  BY DEF Filtered
<1> HIDE DEF items, passing
<1>4. matching \in Seq(Releases) /\ Keeps(matching, items, passing, Len(items))
  BY <1>1, <1>3, FilterKeeps
<1>5. ASSUME NEW k \in 1..Len(published), Covered < k, k <= Covered + GH_PAGE_SIZE,
             Eligible(published[k])
      PROVE  \E j \in 1..Len(matching) : matching[j] = published[k]
  <2>1. PICK i \in 1..Len(items) : i = k - Covered /\ Covered + i = k
    BY <1>1, <1>5
  <2>2. items[i] = published[k] /\ items[i] \in passing
    BY <1>1, <1>2, <1>5, <2>1 DEF passing
  <2> QED
    BY <1>4, <2>1, <2>2 DEF Keeps
<1>6. ASSUME matching # <<>>
      PROVE  \E k \in 1..Len(published) :
               /\ Covered < k
               /\ Head(matching) = published[k] /\ Eligible(published[k])
               /\ \A j \in 1..k-1 : Covered < j => ~Eligible(published[j])
  <2>1. PICK i \in 1..Len(items) : /\ matching[1] = items[i] /\ items[i] \in passing
                                  /\ \A j \in 1..i-1 : items[j] \notin passing
    BY <1>4, <1>6 DEF Keeps
  <2>2. PICK k \in 1..Len(published) : k = Covered + i /\ Covered < k /\ items[i] = published[k]
    <3>1. /\ Covered + i \in 1..Len(published) /\ Covered < Covered + i
          /\ items[i] = published[Covered + i]
      BY <1>1, <2>1
    <3> QED
      BY <3>1, Zenon
  <2>3. Head(matching) = published[k] /\ Eligible(published[k])
    BY <1>4, <1>6, <2>1, <2>2 DEF passing
  <2>4. ASSUME NEW j \in 1..k-1, Covered < j
        PROVE  ~Eligible(published[j])
    <3>1. PICK h \in 1..i-1 : h = j - Covered /\ Covered + h = j /\ h \in 1..Len(items)
      <4>1. /\ j - Covered \in 1..i-1 /\ j - Covered \in 1..Len(items)
            /\ Covered + (j - Covered) = j
        BY <1>1, <2>1, <2>2, <2>4
      <4> QED
        BY <4>1, Zenon
    <3>2. items[h] = published[j] /\ items[h] \notin passing /\ j \in 1..Len(published)
      BY <1>1, <2>1, <2>2, <3>1
    <3> QED
      BY <1>2, <3>2 DEF passing
  <2> QED
    BY <2>2, <2>3, <2>4
<1> QED
  BY <1>4, <1>5, <1>6

\* A fetched page moves the search on, or ends it.
LEMMA FetchOkKeeps ==
  ASSUME SearchInv, FetchOk
  PROVE  SearchInv'
<1> DEFINE matching == Filtered(fetch_releases(page))
           d == Len(published) - Len(listing')
<1>1. /\ published' = published /\ command' = command /\ lost' = lost
      /\ listing' = (IF page = 1 THEN published ELSE listing)
      /\ pc = "fetching" /\ found # "release"
  BY DEF FetchOk, SearchInv
<1>2. \A r : Eligible(r)' <=> Eligible(r)
  BY <1>1, EligibleStays
<1>3. /\ published \in Seq(Releases) /\ listing' \in Seq(Releases) /\ printed \in Seq(Releases)
      /\ page \in Nat \ {0} /\ GH_PAGE_SIZE \in Nat \ {0} /\ Count \in Nat \ {0}
      /\ Len(published) \in Nat /\ Len(listing') \in Nat /\ Covered \in Nat
      /\ page = 1 => Covered = 0
  BY <1>1, UpdaterAssumption, PageFacts DEF SearchInv, SearchTypes, Covered
<1>4. /\ d \in Nat
      /\ \A i \in 1..Len(listing') : listing'[i] = published[i + d] /\ i + d \in 1..Len(published)
      /\ \A i \in 1..Len(listing') :
           i + d <= Covered /\ Eligible(listing'[i]) =>
             command = "list" /\ listing'[i] \in Range(printed)
  <2>1. CASE page = 1
    BY <1>1, <1>3, <2>1
  <2>2. CASE page # 1
    <3>1. Searched /\ listing' = listing
      BY <1>1, <1>3, <2>2 DEF SearchInv
    <3> QED
      BY <1>3, <3>1 DEF Searched, Since
  <2> QED
    BY <2>1, <2>2
<1>5. /\ matching \in Seq(Releases)
      /\ \A k \in 1..Len(published) :
           Covered < k /\ k <= Covered + GH_PAGE_SIZE /\ Eligible(published[k]) =>
             \E j \in 1..Len(matching) : matching[j] = published[k]
      /\ matching # <<>> =>
           \E k \in 1..Len(published) :
             /\ Covered < k
             /\ Head(matching) = published[k] /\ Eligible(published[k])
             /\ \A j \in 1..k-1 : Covered < j => ~Eligible(published[j])
  BY MatchFacts DEF SearchInv
<1>6. /\ Take(matching)
      /\ \/ /\ Enough(matching) /\ found' = "release" /\ pc' \in {"returned", "downloading"}
            /\ page' = page
         \/ /\ ~Enough(matching) /\ fetch_releases(page) = <<>> /\ page > 1
            /\ found' = "none" /\ page' = page
         \/ ~Enough(matching) /\ page' = page + 1 /\ pc' = pc /\ found' = found
  BY DEF FetchOk, NextPage
<1> HIDE DEF matching
<1>7. /\ printed' \in Seq(Releases)
      /\ command # "list" => printed' = printed
      /\ command = "list" /\ ~Enough(matching) =>
           /\ Range(printed) \subseteq Range(printed')
           /\ \A j \in 1..Len(matching) : matching[j] \in Range(printed')
  <2>1. CASE command = "list"
    <3> DEFINE all == printed \o matching
               last == Min({Count, Len(printed) + Len(matching)})
    <3>1. /\ all \in Seq(Releases) /\ Len(all) = Len(printed) + Len(matching)
          /\ \A i \in 1..Len(printed) : all[i] = printed[i]
          /\ \A j \in 1..Len(matching) : all[Len(printed) + j] = matching[j]
      BY <1>3, <1>5
    <3>2. /\ last \in Nat /\ last <= Len(all)
          /\ Len(printed) + Len(matching) < Count => last = Len(all)
      <4>1. Len(printed) + Len(matching) \in Nat /\ Count \in Nat
        BY <1>3, <1>5
      <4>2. last = IF Count <= Len(printed) + Len(matching)
                     THEN Count ELSE Len(printed) + Len(matching)
        BY <4>1, MinOfTwo, Zenon
      <4> QED
        BY <3>1, <4>1, <4>2
    <3>3. printed' = SubSeq(all, 1, last)
      BY Zenon, <1>6, <2>1 DEF Take
    <3> HIDE DEF all, last
    <3>4. printed' \in Seq(Releases)
      BY <3>1, <3>2, <3>3, SubSeqFacts
    <3>5. ASSUME ~Enough(matching)
          PROVE  printed' = all
      BY <1>3, <1>5, <2>1, <3>1, <3>2, <3>3, <3>5, SubSeqFull DEF Enough
    <3>6. ASSUME ~Enough(matching)
          PROVE  /\ Range(printed) \subseteq Range(printed')
                 /\ \A j \in 1..Len(matching) : matching[j] \in Range(printed')
      <4>1. \A i \in 1..Len(all) : all[i] \in Range(printed')
        BY <3>1, <3>5, <3>6 DEF Range
      <4>2. \A i \in 1..Len(printed) : i \in 1..Len(all)
        BY <1>3, <1>5, <3>1
      <4>3. \A j \in 1..Len(matching) : Len(printed) + j \in 1..Len(all)
        BY <1>3, <1>5, <3>1
      <4>4. \A x \in Range(printed) : \E i \in 1..Len(printed) : x = printed[i]
        BY <1>3 DEF Range
      <4> QED
        BY Zenon, <3>1, <4>1, <4>2, <4>3, <4>4
    <3> QED
      BY <2>1, <3>4, <3>6
  <2>2. CASE command # "list"
    BY <1>3, <1>6, <2>2 DEF Take
  <2> QED
    BY <2>1, <2>2
<1>8. SearchTypes'
  BY <1>1, <1>3, <1>6, <1>7 DEF SearchInv, SearchTypes
<1>9. CASE Enough(matching) /\ found' = "release" /\ pc' \in {"returned", "downloading"}
  <2>1. ASSUME command # "list"
        PROVE  /\ Eligible(release')
               /\ \/ release' \notin Range(listing')
                  \/ \E i \in 1..Len(listing') :
                       /\ release' = listing'[i]
                       /\ \A j \in 1..i-1 : ~Eligible(listing'[j])
    <3>1. matching # <<>> /\ release' = Head(matching)
      BY <1>6, <1>9, <2>1 DEF Take, Enough
    <3>2. PICK k \in 1..Len(published) :
            /\ Covered < k
            /\ release' = published[k] /\ Eligible(published[k])
            /\ \A j \in 1..k-1 : Covered < j => ~Eligible(published[j])
      BY <1>5, <3>1
    <3>3. ASSUME k <= d
          PROVE  release' \notin Range(listing')
      <4>1. \A i \in 1..Len(listing') : listing'[i] # published[k]
        <5>1. \A i \in 1..Len(listing') : i + d # k
          BY <1>3, <1>4, <3>2, <3>3
        <5> QED
          BY Zenon, <1>4, <3>2, <5>1 DEF SearchInv, SearchTypes
      <4> QED
        BY <1>3, <3>2, <4>1 DEF Range
    <3>4. ASSUME ~(k <= d)
          PROVE  \E i \in 1..Len(listing') : /\ release' = listing'[i]
                                            /\ \A j \in 1..i-1 : ~Eligible(listing'[j])
      <4>1. k - d \in 1..Len(listing') /\ (k - d) + d = k
        BY <1>3, <1>4, <3>2, <3>4
      <4>2. PICK i \in 1..Len(listing') : i + d = k
        BY <4>1, Zenon
      <4>3. ASSUME NEW j \in 1..i-1
            PROVE  ~Eligible(listing'[j])
        <5>1. j \in 1..Len(listing') /\ j + d \in 1..k-1
          BY <1>3, <1>4, <4>2
        <5>2. CASE j + d <= Covered
          BY <1>4, <2>1, <5>1, <5>2
        <5>3. CASE Covered < j + d
          BY <1>4, <3>2, <5>1, <5>3
        <5> QED
          BY <1>3, <1>4, <5>1, <5>2, <5>3
      <4> QED
        BY Zenon, <1>4, <3>2, <4>2, <4>3
    <3> QED
      BY <3>2, <3>3, <3>4
  <2>2. FirstEligible'
    BY <1>1, <1>2, <2>1, Zenon DEF FirstEligible
  <2>3. NoneMeansNone'
    BY <1>9 DEF NoneMeansNone
  <2> QED
    BY <1>8, <1>9, <2>2, <2>3 DEF SearchInv
<1>10. CASE /\ ~Enough(matching) /\ fetch_releases(page) = <<>> /\ page > 1
            /\ found' = "none" /\ page' = page
  <2>1. Len(published) <= Covered
    <3>1. Len(fetch_releases(page)) = 0
      BY <1>10
    <3>2. Covered < Len(published) => Covered + 1 \in 1..Len(published)
      BY <1>3
    <3> QED
      BY <1>3, <3>1, <3>2, PageFacts DEF SearchInv
  <2>2. \A i \in 1..Len(listing') :
          Eligible(listing'[i]) => command = "list" /\ listing'[i] \in Range(printed')
    <3>1. \A i \in 1..Len(listing') : i + d <= Covered
      BY <1>3, <1>4, <2>1
    <3> QED
      BY <1>4, <1>7, <1>10, <3>1
  <2>3. \A r \in Range(listing') :
          Eligible(r) => command = "list" /\ r \in Range(printed')
    <3>1. \A r \in Range(listing') : \E i \in 1..Len(listing') : r = listing'[i]
      BY <1>3 DEF Range
    <3> QED
      BY Zenon, <2>2, <3>1
  <2>4. NoneMeansNone'
    BY <1>1, <1>2, <2>3, Zenon DEF NoneMeansNone
  <2>5. FirstEligible' /\ ~(pc' = "fetching")
    BY <1>1, <1>10 DEF FirstEligible, FetchOk, AfterSearch
  <2> QED
    BY <1>8, <1>10, <2>4, <2>5 DEF SearchInv
<1>11. CASE ~Enough(matching) /\ page' = page + 1 /\ pc' = pc /\ found' = found
  <2>1. Covered' = Covered + GH_PAGE_SIZE
    BY <1>3, <1>11, PageEnds DEF Covered
  <2>2. Since' = d
    BY <1>1 DEF Since
  <2>3. ASSUME NEW i \in 1..Len(listing'), i + d <= Covered', Eligible(listing'[i])
        PROVE  command = "list" /\ listing'[i] \in Range(printed')
    <3>1. CASE i + d <= Covered
      BY <1>4, <1>7, <1>11, <2>3, <3>1
    <3>2. CASE Covered < i + d
      <4>1. \E j \in 1..Len(matching) : matching[j] = listing'[i]
        BY Zenon, <1>4, <1>5, <2>1, <2>3, <3>2
      <4>2. command = "list"
        BY <1>5, <1>11, <4>1 DEF Enough
      <4> QED
        BY <1>7, <1>11, <4>1, <4>2
    <3> QED
      BY <1>3, <1>4, <3>1, <3>2
  <2>4. Searched'
    <3>1. Len(listing') <= Len(published') /\ published' = published
      BY <1>1, <1>3, <1>4
    <3> HIDE DEF d
    <3> QED
      BY Zenon, <1>1, <1>2, <1>4, <2>2, <2>3, <3>1 DEF Searched
  <2> QED
    BY <1>1, <1>8, <1>11, <2>4 DEF SearchInv, FirstEligible, NoneMeansNone
<1> QED
  BY <1>6, <1>9, <1>10, <1>11

\* A new release moves what is listed, and what the search has covered of it.
LEMMA PublishKeeps ==
  ASSUME SearchInv, NEW r \in Releases, Publish(r)
  PROVE  SearchInv'
<1>1. /\ command' = command /\ pc' = pc /\ page' = page /\ release' = release
      /\ printed' = printed /\ found' = found /\ listing' = listing /\ lost' = lost
      /\ published' = <<r>> \o published /\ r \notin Range(published)
  BY DEF Publish, search_vars
<1>2. \A x : Eligible(x)' <=> Eligible(x)
  BY <1>1, EligibleStays
<1>3. /\ published' \in Seq(Releases) /\ Len(published) \in Nat
      /\ Len(published') = Len(published) + 1 /\ published'[1] = r
      /\ \A i \in 1..Len(published) : published'[i + 1] = published[i]
  BY <1>1 DEF SearchInv, SearchTypes
<1>4. \A i, j \in 1..Len(published') : published'[i] = published'[j] => i = j
  <2>1. \A i \in 1..Len(published') :
          i = 1 \/ (i - 1 \in 1..Len(published) /\ published'[i] = published[i - 1])
    BY <1>3
  <2>2. \A i \in 1..Len(published) : published[i] # r
    BY <1>1 DEF SearchInv, SearchTypes, Range
  <2>3. ASSUME NEW i \in 1..Len(published'), NEW j \in 1..Len(published'), i # 1, j # 1,
               published'[i] = published'[j]
        PROVE  i = j
    <3>1. i - 1 = j - 1
      BY Zenon, <2>1, <2>3 DEF SearchInv, SearchTypes
    <3> QED
      BY <1>3, <3>1
  <2> QED
    BY <1>3, <2>1, <2>2, <2>3
<1>5. ASSUME pc = "fetching", page > 1
      PROVE  Searched'
  <2>1. Searched /\ Len(listing) \in Nat /\ Covered \in Nat
    BY <1>5, PageFacts DEF SearchInv, SearchTypes
  <2>2. /\ Since \in Nat /\ Since' = Since + 1 /\ Len(published) = Len(listing) + Since
        /\ Covered' = Covered /\ Len(listing') <= Len(published')
    BY <1>1, <1>3, <2>1 DEF Since, Covered, Searched
  <2>3. ASSUME NEW i \in 1..Len(listing)
        PROVE  /\ listing[i] = published'[i + Since']
               /\ i + Since' <= Covered => i + Since <= Covered
    <3>1. i + Since \in 1..Len(published) /\ i + Since' = (i + Since) + 1
      BY <1>3, <2>1, <2>2
    <3>2. listing[i] = published[i + Since]
      BY <2>1 DEF Searched
    <3>3. published'[(i + Since) + 1] = published[i + Since]
      BY Zenon, <1>3, <3>1
    <3> QED
      BY <2>1, <2>2, <3>1, <3>2, <3>3
  <2> QED
    BY Zenon, <1>1, <1>2, <2>1, <2>2, <2>3 DEF Searched
<1>6. FirstEligible' /\ NoneMeansNone'
  BY Zenon, <1>1, <1>2 DEF SearchInv, FirstEligible, NoneMeansNone
<1> QED
  BY <1>1, <1>3, <1>4, <1>5, <1>6 DEF SearchInv, SearchTypes

\* A step that touches neither the list nor the search, nor begins one.
LEMMA ElsewhereKeeps ==
  ASSUME SearchInv, UNCHANGED <<command, published, search_vars>>,
         pc' = pc \/ (pc # "fetching" /\ pc' \notin {"select", "fetching"})
  PROVE  SearchInv'
<1>1. /\ command' = command /\ published' = published /\ page' = page /\ release' = release
      /\ printed' = printed /\ found' = found /\ listing' = listing /\ lost' = lost
  BY DEF search_vars
<1>2. \A x : Eligible(x)' <=> Eligible(x)
  BY <1>1, EligibleStays
<1>3. SearchTypes'
  BY <1>1 DEF SearchInv, SearchTypes
<1>4. FirstEligible'
  BY Zenon, <1>1, <1>2 DEF SearchInv, FirstEligible
<1>5. NoneMeansNone'
  BY Zenon, <1>1, <1>2 DEF SearchInv, NoneMeansNone
<1>6. Searched => Searched'
  BY Zenon, <1>1, <1>2 DEF Searched, Since, Covered
<1> QED
  BY <1>1, <1>3, <1>4, <1>5, <1>6 DEF SearchInv

LEMMA SearchStep ==
  ASSUME SearchInv, [Next]_all_vars
  PROVE  SearchInv'
<1>1. CASE Step
  <2>1. CASE Shutdown \/ Download \/ DownloadOnly \/ install
    <3>1. /\ UNCHANGED <<command, published, search_vars>>
          /\ pc # "fetching" /\ pc' \notin {"select", "fetching"}
      BY <2>1 DEF Shutdown, Download, DownloadOnly, install
    <3> QED
      BY <3>1, ElsewhereKeeps
  <2>2. CASE Tick
    BY <2>2 DEF Tick, SearchInv, SearchTypes, FirstEligible, NoneMeansNone
  <2>3. CASE FetchOk
    BY <2>3, FetchOkKeeps
  <2>4. CASE FetchError
    BY <2>4 DEF FetchError, AfterSearch, SearchInv, SearchTypes, FirstEligible, NoneMeansNone
  <2> QED
    BY <1>1, <2>1, <2>2, <2>3, <2>4 DEF Step
<1>2. CASE \E r \in Releases : Publish(r)
  BY <1>2, PublishKeeps
<1>3. CASE UNCHANGED updater_vars
  BY <1>3, ElsewhereKeeps DEF updater_vars
<1>4. Step \/ (\E r \in Releases : Publish(r)) \/ UNCHANGED updater_vars
  BY DEF Next, Do, UpdaterStep, JoinedTask, Bind, Close, Drained, Call, Answer, Leave, ApiTo,
     Trigger, PublishStep, all_vars, vars
<1> QED
  BY <1>1, <1>2, <1>3, <1>4

LEMMA SearchInvariant == Spec => []SearchInv
<1>1. ASSUME Init PROVE SearchInv
  <2>1. /\ published = <<>> /\ listing = <<>> /\ printed = <<>> /\ page = 1
        /\ found = None /\ None # "release"
    BY <1>1, UpdaterAssumption DEF Init, UpdaterInit, Channels
  <2>2. SearchTypes
    BY <2>1 DEF SearchTypes
  <2>3. FirstEligible /\ found # "release" /\ ~(page > 1)
    BY <2>1 DEF FirstEligible
  <2>4. Range(listing) = {}
    BY <2>1 DEF Range
  <2>5. NoneMeansNone
    BY <2>4 DEF NoneMeansNone
  <2> QED
    BY <2>2, <2>3, <2>5 DEF SearchInv
<1>2. SearchInv /\ [Next]_all_vars => SearchInv'
  BY SearchStep
<1> QED
  BY <1>1, <1>2, PTL DEF Spec

\* The search of Updater::run and of the download command finds the newest
\* release that passes its filter, whatever is published between two pages.
THEOREM SearchFindsFirst == Spec => []FirstEligible
<1>1. SearchInv => FirstEligible
  BY DEF SearchInv
<1> QED
  BY <1>1, SearchInvariant, PTL

\* A search that says there is no release has seen the whole list, and the list
\* command has printed what passes.
THEOREM NothingIsMissed == Spec => []NoneMeansNone
<1>1. SearchInv => NoneMeansNone
  BY DEF SearchInv
<1> QED
  BY <1>1, SearchInvariant, PTL

(***************************************************************************)
(* The exit                                                                *)
(***************************************************************************)
ExitInv ==
  /\ calls \in [Callers -> {"idle", "waiting"}]
  /\ exit = 0 => Outcome = 0
  /\ api \in {"draining", "returned"} => shutdown
  /\ api = "returned" => \A c \in Callers : calls[c] # "waiting"

LEMMA ExitStep ==
  ASSUME ExitInv, [Next]_all_vars
  PROVE  ExitInv'
<1>1. ASSUME exit = None, exit' = Outcome'
      PROVE  exit' = 0 => Outcome' = 0
  BY <1>1
<1>2. CASE UNCHANGED all_vars
  BY <1>2 DEF all_vars, vars, updater_vars, process_vars, ExitInv, Outcome
<1>3. CASE Do(UpdaterStep) \/ Do(PublishStep)
  <2>1. shutdown' = shutdown /\ UNCHANGED <<api, calls>>
    BY Zenon, <1>3 DEF Do, UpdaterStep, PublishStep, process_vars, Step, Shutdown, Tick, FetchOk,
       FetchError, Download, DownloadOnly, install, Publish
  <2> QED
    BY <1>1, <1>3, <2>1 DEF Do, ExitInv
<1>4. CASE (\E t \in T!TaskNames : Do(JoinedTask(t))) \/ Do(Trigger)
  <2>1. (shutdown => shutdown') /\ UNCHANGED <<api, calls>>
    BY <1>4 DEF Do, JoinedTask, Trigger, T!TaskStep, T!Wait, T!Resume, T!Return, T!Trigger
  <2> QED
    BY <1>1, <1>4, <2>1 DEF Do, ExitInv
<1>5. CASE Do(Bind) \/ Do(Close) \/ Do(Drained)
  BY <1>1, <1>5 DEF Do, Bind, Close, Drained, ApiTo, vars, ExitInv
<1>6. CASE \E c \in Callers : Do(Call(c)) \/ Do(Answer(c)) \/ Do(Leave(c))
  BY <1>1, <1>6 DEF Do, Call, Answer, Leave, vars, ExitInv
<1> QED
  BY <1>2, <1>3, <1>4, <1>5, <1>6 DEF Next

\* try_join! makes the server's exit code a success only when all its futures
\* have returned, and the local API returns only after the trigger and with no
\* call left open.
THEOREM ExitIsClean == Spec => []CleanExit
<1>1. ASSUME Init PROVE ExitInv
  BY <1>1, UpdaterAssumption DEF Init, ExitInv
<1>2. ExitInv => CleanExit
  BY UpdaterAssumption DEF ExitInv, CleanExit, Outcome, Serving
<1>3. ExitInv /\ [Next]_all_vars => ExitInv'
  BY ExitStep
<1> QED
  BY <1>1, <1>2, <1>3, PTL DEF Spec
=============================================================================
