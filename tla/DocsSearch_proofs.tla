------------------------- MODULE DocsSearch_proofs -------------------------
(***************************************************************************)
(* Theorems about the documentation console and its search palette, for    *)
(* every set of documents, every index and every list length.              *)
(***************************************************************************)
EXTENDS DocsSearch, FiniteSetTheorems, TLAPS

-----------------------------------------------------------------------------
(* Ranking                                                                 *)

\* What a term earns is a number, whatever the record (score, one term).
LEMMA TermScoreType ==
  ASSUME NEW rec \in Records, NEW t \in Terms
  PROVE  termScore(rec, t) \in Nat
<1>1. rec.hits[t] \in Nat
  BY DEF Records
<1>2. Min2(rec.hits[t], 5) \in Nat
  BY <1>1 DEF Min2
<1> QED BY <1>2 DEF termScore

\* A score is a number, and a positive one means that every term occurs in
\* the record: the early return of score for a term that is nowhere.
LEMMA ScoreType ==
  ASSUME NEW rec \in Records, NEW q \in Seq(Terms)
  PROVE  /\ score(rec, q) \in Nat
         /\ score(rec, q) > 0 => \A i \in DOMAIN q : termScore(rec, q[i]) > 0
<1> DEFINE points == {p \in (DOMAIN q) \X (1..24) : p[2] <= termScore(rec, q[p[1]])}
<1>1. IsFiniteSet(DOMAIN q)
  <2>1. DOMAIN q = 1..Len(q) /\ Len(q) \in Nat
    OBVIOUS
  <2> QED BY <2>1, FS_Interval
<1>2. IsFiniteSet((DOMAIN q) \X (1..24))
  <2>1. IsFiniteSet(1..24)
    <3>1. PICK a \in Int, b \in Int : a = 1 /\ b = 24
      OBVIOUS
    <3>2. IsFiniteSet(a..b)
      BY FS_Interval
    <3> QED BY <3>1, <3>2, Zenon
  <2>2. \A S, T : IsFiniteSet(S) /\ IsFiniteSet(T) => IsFiniteSet(S \X T)
    BY FS_Product, Zenon
  <2> QED BY <1>1, <2>1, <2>2, Zenon
<1>3. Cardinality(points) \in Nat
  <2>1. points \subseteq (DOMAIN q) \X (1..24)
    OBVIOUS
  <2> HIDE DEF points
  <2> QED BY <1>2, <2>1, FS_Subset, FS_CardinalityType
<1>4. \A i \in DOMAIN q : termScore(rec, q[i]) \in Nat
  BY TermScoreType
<1>5. CASE \E i \in DOMAIN q : termScore(rec, q[i]) = 0
  BY <1>5 DEF score
<1>6. CASE ~ \E i \in DOMAIN q : termScore(rec, q[i]) = 0
  <2>1. score(rec, q) = Cardinality(points)
    BY <1>6 DEF score
  <2>2. \A i \in DOMAIN q : termScore(rec, q[i]) > 0
    <3> SUFFICES ASSUME NEW i \in DOMAIN q PROVE termScore(rec, q[i]) > 0
      OBVIOUS
    <3>1. termScore(rec, q[i]) \in Nat /\ termScore(rec, q[i]) # 0
      BY <1>4, <1>6
    <3> QED BY <3>1
  <2> QED BY <1>3, <2>1, <2>2
<1> QED BY <1>5, <1>6

\* Every record of the index has a score (the loop of runSearch).
LEMMA ScoresType ==
  ASSUME NEW q \in Seq(Terms)
  PROVE  scores(q) \in [DOMAIN Index -> Nat]
<1>1. \A i \in DOMAIN Index : Index[i] \in Records
  BY SearchAssumption
<1> QED BY <1>1, ScoreType DEF scores

\* The index is a finite list.
LEMMA IndexFinite == IsFiniteSet(DOMAIN Index) /\ DOMAIN Index \subseteq Nat
<1>1. DOMAIN Index = 1..Len(Index) /\ Len(Index) \in Nat
  BY SearchAssumption
<1> QED BY <1>1, FS_Interval

\* The comparison of the sort orders the records: how many come before a
\* record decides its place, and no two records share a place.
LEMMA AheadOrders ==
  ASSUME NEW sc \in [DOMAIN Index -> Nat], NEW i \in DOMAIN Index
  PROVE  /\ Cardinality(ahead(sc, i)) \in Nat
         /\ \A j \in ahead(sc, i) :
               Cardinality(ahead(sc, j)) < Cardinality(ahead(sc, i))
         /\ \A j \in DOMAIN Index :
               i # j => Cardinality(ahead(sc, i)) # Cardinality(ahead(sc, j))
<1>1. \A x \in DOMAIN Index : /\ IsFiniteSet(ahead(sc, x))
                              /\ Cardinality(ahead(sc, x)) \in Nat
  <2> SUFFICES ASSUME NEW x \in DOMAIN Index
               PROVE  /\ IsFiniteSet(ahead(sc, x))
                      /\ Cardinality(ahead(sc, x)) \in Nat
    OBVIOUS
  <2>1. ahead(sc, x) \in SUBSET DOMAIN Index
    BY DEF ahead
  <2>2. IsFiniteSet(ahead(sc, x))
    BY <2>1, IndexFinite, FS_Subset
  <2> QED BY <2>2, FS_CardinalityType
<1>2. ASSUME NEW x \in DOMAIN Index, NEW j \in ahead(sc, x)
      PROVE  Cardinality(ahead(sc, j)) < Cardinality(ahead(sc, x))
  <2>1. j \in DOMAIN Index /\ j \notin ahead(sc, j)
    BY IndexFinite DEF ahead
  <2>2. ahead(sc, j) \in SUBSET ahead(sc, x)
    BY IndexFinite DEF ahead
  <2>3. ahead(sc, j) # ahead(sc, x)
    BY <2>1
  <2>4. Cardinality(ahead(sc, j)) <= Cardinality(ahead(sc, x))
        /\ Cardinality(ahead(sc, j)) # Cardinality(ahead(sc, x))
    BY <1>1, <2>2, <2>3, FS_Subset
  <2> QED BY <1>1, <2>1, <2>4
<1>3. ASSUME NEW j \in DOMAIN Index, i # j
      PROVE  Cardinality(ahead(sc, i)) # Cardinality(ahead(sc, j))
  <2>1. j \in ahead(sc, i) \/ i \in ahead(sc, j)
    BY <1>3, IndexFinite DEF ahead
  <2>2. /\ j \in ahead(sc, i) => Cardinality(ahead(sc, j)) < Cardinality(ahead(sc, i))
        /\ i \in ahead(sc, j) => Cardinality(ahead(sc, i)) < Cardinality(ahead(sc, j))
    BY <1>2
  <2> QED BY <1>1, <2>1, <2>2
<1> QED BY <1>1, <1>2, <1>3

\* Every place of the sorted list is taken by one matching record: the sort
\* loses none and duplicates none.
LEMMA PlacesTaken ==
  ASSUME NEW sc \in [DOMAIN Index -> Nat],
         NEW S, S = {i \in DOMAIN Index : sc[i] > 0}
  PROVE  /\ IsFiniteSet(S) /\ Cardinality(S) \in Nat
         /\ \A i \in S : Cardinality(ahead(sc, i)) < Cardinality(S)
         /\ \A k \in 1..Cardinality(S) : \E i \in S : Cardinality(ahead(sc, i)) = k - 1
<1>1. S \in SUBSET DOMAIN Index
  OBVIOUS
<1>2. IsFiniteSet(S) /\ Cardinality(S) \in Nat
  BY <1>1, IndexFinite, FS_Subset, FS_CardinalityType
<1>3. ASSUME NEW i \in S
      PROVE  /\ Cardinality(ahead(sc, i)) \in Nat
             /\ Cardinality(ahead(sc, i)) < Cardinality(S)
  <2>1. ahead(sc, i) \in SUBSET S /\ i \notin ahead(sc, i)
    BY IndexFinite DEF ahead
  <2>2. Cardinality(ahead(sc, i)) <= Cardinality(S) /\ Cardinality(ahead(sc, i)) # Cardinality(S)
    BY <1>2, <2>1, FS_Subset
  <2>3. Cardinality(ahead(sc, i)) \in Nat
    BY <1>1, AheadOrders
  <2> QED BY <1>2, <2>2, <2>3
<1> DEFINE place == [i \in S |-> Cardinality(ahead(sc, i)) + 1]
<1>4. place \in [S -> 1..Cardinality(S)]
  BY <1>2, <1>3
<1>5. \A i, j \in S : place[i] = place[j] => i = j
  <2> SUFFICES ASSUME NEW i \in S, NEW j \in S, i # j PROVE place[i] # place[j]
    OBVIOUS
  <2>1. Cardinality(ahead(sc, i)) # Cardinality(ahead(sc, j))
    BY <1>1, AheadOrders
  <2> QED BY <1>3, <2>1
<1>6. place \in Injection(S, 1..Cardinality(S))
  <2> HIDE DEF place
  <2> QED BY <1>4, <1>5 DEF Injection, IsInjective
<1>7. IsFiniteSet(1..Cardinality(S)) /\ Cardinality(1..Cardinality(S)) = Cardinality(S)
  BY <1>2, FS_Interval
<1>8. place \in Surjection(S, 1..Cardinality(S))
  BY <1>6, <1>7, FS_Injection
<1>9. \A k \in 1..Cardinality(S) : \E i \in S : place[i] = k
  BY <1>8 DEF Surjection
<1>10. \A k \in 1..Cardinality(S) : \E i \in S : Cardinality(ahead(sc, i)) = k - 1
  <2> SUFFICES ASSUME NEW k \in 1..Cardinality(S)
               PROVE  \E i \in S : Cardinality(ahead(sc, i)) = k - 1
    OBVIOUS
  <2>1. PICK i \in S : place[i] = k
    BY <1>9
  <2>2. Cardinality(ahead(sc, i)) = k - 1
    BY <1>2, <1>3, <2>1
  <2> QED BY <2>2
<1> QED BY <1>2, <1>3, <1>10

\* A result list holds records of the index, in a place each: row k has k - 1
\* records before it, and a matching record off the list has a whole full
\* list before it (runSearch: score, sort, slice).
LEMMA BestPlaces ==
  ASSUME NEW q \in Seq(Terms), NEW sc, sc = scores(q)
  PROVE  /\ Best(q) \in Seq(DOMAIN Index)
         /\ \A k \in DOMAIN Best(q) : /\ Best(q)[k] \in DOMAIN Index
                                      /\ sc[Best(q)[k]] > 0
                                      /\ Cardinality(ahead(sc, Best(q)[k])) = k - 1
         /\ \A i \in DOMAIN Index \ Range(Best(q)) :
               sc[i] > 0 => /\ Len(Best(q)) = MaxResults
                            /\ Cardinality(ahead(sc, i)) >= MaxResults
<1> DEFINE S == {i \in DOMAIN Index : sc[i] > 0}
           n == Cardinality(S)
           m == Min2(MaxResults, n)
           row(k) == CHOOSE i \in S : Cardinality(ahead(sc, i)) = k - 1
<1>1. sc \in [DOMAIN Index -> Nat]
  BY ScoresType
<1>2. /\ n \in Nat
      /\ \A i \in S : Cardinality(ahead(sc, i)) < n
      /\ \A k \in 1..n : \E i \in S : Cardinality(ahead(sc, i)) = k - 1
  BY <1>1, PlacesTaken
<1>3. m \in Nat /\ m <= n /\ m <= MaxResults /\ (m < n => m = MaxResults)
  <2> HIDE DEF n
  <2> QED BY <1>2, SearchAssumption DEF Min2
<1>4. Best(q) = [k \in 1..m |-> row(k)]
  BY DEF Best
<1>5. ASSUME NEW k \in 1..m
      PROVE  row(k) \in S /\ Cardinality(ahead(sc, row(k))) = k - 1
  <2>1. k \in 1..n
    <3> HIDE DEF m, n
    <3> QED BY <1>2, <1>3
  <2>2. \E i \in S : Cardinality(ahead(sc, i)) = k - 1
    BY <1>2, <2>1
  <2> QED BY <2>2
<1> HIDE DEF row
<1>6. Best(q) \in [1..m -> DOMAIN Index]
  BY <1>4, <1>5
<1>7. Best(q) \in Seq(DOMAIN Index) /\ Len(Best(q)) = m /\ DOMAIN Best(q) = 1..m
  <2> HIDE DEF m
  <2> QED BY <1>3, <1>6
<1>8. ASSUME NEW k \in DOMAIN Best(q)
      PROVE  /\ Best(q)[k] \in DOMAIN Index
             /\ sc[Best(q)[k]] > 0
             /\ Cardinality(ahead(sc, Best(q)[k])) = k - 1
  <2>1. Best(q)[k] = row(k) /\ k \in 1..m
    BY <1>4, <1>7
  <2> QED BY <1>5, <2>1
<1>9. ASSUME NEW i \in DOMAIN Index \ Range(Best(q)), sc[i] > 0
      PROVE  Len(Best(q)) = MaxResults /\ Cardinality(ahead(sc, i)) >= MaxResults
  <2> DEFINE c == Cardinality(ahead(sc, i))
  <2>1. i \in S
    BY <1>9
  <2>2. c \in Nat /\ c < n
    BY <1>1, <1>2, <2>1, AheadOrders
  <2>3. ASSUME c < m PROVE FALSE
    <3>1. c + 1 \in 1..m /\ (c + 1) - 1 = c
      <4> HIDE DEF c, m
      <4> QED BY <1>3, <2>2, <2>3
    <3>2. Cardinality(ahead(sc, row(c + 1))) = c /\ row(c + 1) \in DOMAIN Index
      BY <1>5, <3>1
    <3>3. row(c + 1) = i
      BY <1>1, <3>2, AheadOrders
    <3>4. i \in Range(Best(q))
      BY <1>4, <1>7, <3>1, <3>3 DEF Range
    <3> QED BY <3>4
  <2>4. m < n /\ m <= c
    <3> HIDE DEF c, m, n
    <3> QED BY <1>2, <1>3, <2>2, <2>3
  <2> QED BY <1>3, <1>7, <2>4
<1> QED BY <1>7, <1>8, <1>9

\* The rows of a result list are the best ones (BestRowsShown, of the list
\* for the query typed).
LEMMA BestIsBest ==
  ASSUME NEW q \in Seq(Terms), NEW sc, sc = scores(q), Best(q) # <<>>
  PROVE  /\ \A k \in DOMAIN Best(q) : \A t \in Range(q) : termScore(Index[Best(q)[k]], t) > 0
         /\ \A j, k \in DOMAIN Best(q) : j < k => sc[Best(q)[j]] >= sc[Best(q)[k]]
         /\ \A i \in DOMAIN Index \ Range(Best(q)) :
               sc[i] > 0 => Len(Best(q)) = MaxResults /\ sc[i] <= sc[Last(Best(q))]
<1>1. sc \in [DOMAIN Index -> Nat]
  BY ScoresType
<1>2. ASSUME NEW i \in DOMAIN Index, NEW j \in DOMAIN Index,
             Cardinality(ahead(sc, i)) < Cardinality(ahead(sc, j))
      PROVE  sc[i] >= sc[j]
  <2>1. CASE j \in ahead(sc, i)
    <3>1. /\ Cardinality(ahead(sc, j)) < Cardinality(ahead(sc, i))
          /\ Cardinality(ahead(sc, i)) \in Nat /\ Cardinality(ahead(sc, j)) \in Nat
      BY <1>1, <2>1, AheadOrders
    <3> QED BY <1>2, <3>1
  <2>2. CASE j \notin ahead(sc, i)
    BY <1>1, <2>2 DEF ahead
  <2> QED BY <2>1, <2>2
<1>3. /\ Best(q) \in Seq(DOMAIN Index)
      /\ \A k \in DOMAIN Best(q) : /\ Best(q)[k] \in DOMAIN Index
                                   /\ sc[Best(q)[k]] > 0
                                   /\ Cardinality(ahead(sc, Best(q)[k])) = k - 1
      /\ \A i \in DOMAIN Index \ Range(Best(q)) :
            sc[i] > 0 => /\ Len(Best(q)) = MaxResults
                         /\ Cardinality(ahead(sc, i)) >= MaxResults
  BY BestPlaces
<1>4. ASSUME NEW k \in DOMAIN Best(q), NEW t \in Range(q)
      PROVE  termScore(Index[Best(q)[k]], t) > 0
  <2>1. PICK i \in DOMAIN q : q[i] = t
    BY DEF Range
  <2>2. score(Index[Best(q)[k]], q) > 0
    BY <1>3 DEF scores
  <2>3. Index[Best(q)[k]] \in Records
    BY <1>3, SearchAssumption
  <2> QED BY <2>1, <2>2, <2>3, ScoreType
<1>5. ASSUME NEW j \in DOMAIN Best(q), NEW k \in DOMAIN Best(q), j < k
      PROVE  sc[Best(q)[j]] >= sc[Best(q)[k]]
  <2>1. j \in Nat /\ k \in Nat
    BY <1>3
  <2>2. Cardinality(ahead(sc, Best(q)[j])) < Cardinality(ahead(sc, Best(q)[k]))
    BY <1>3, <1>5, <2>1
  <2> QED BY <1>2, <1>3, <2>2
<1>6. ASSUME NEW i \in DOMAIN Index \ Range(Best(q)), sc[i] > 0
      PROVE  Len(Best(q)) = MaxResults /\ sc[i] <= sc[Last(Best(q))]
  <2>1. Len(Best(q)) = MaxResults /\ Cardinality(ahead(sc, i)) >= MaxResults
    BY <1>3, <1>6
  <2>2. MaxResults \in Nat \ {0} /\ MaxResults \in DOMAIN Best(q)
    BY <1>3, <2>1, SearchAssumption
  <2>3. Last(Best(q)) = Best(q)[MaxResults]
    BY <2>1 DEF Last
  <2>4. /\ Best(q)[MaxResults] \in DOMAIN Index
        /\ Cardinality(ahead(sc, Best(q)[MaxResults])) = MaxResults - 1
    BY <1>3, <2>2
  <2>5. Cardinality(ahead(sc, i)) \in Nat
    BY <1>1, AheadOrders
  <2>6. Cardinality(ahead(sc, Best(q)[MaxResults])) < Cardinality(ahead(sc, i))
    BY <2>1, <2>2, <2>4, <2>5
  <2>7. sc[Best(q)[MaxResults]] >= sc[i] /\ sc[i] \in Nat /\ sc[Best(q)[MaxResults]] \in Nat
    BY <1>1, <1>2, <2>4, <2>6
  <2> QED BY <2>1, <2>3, <2>7
<1> QED BY <1>4, <1>5, <1>6

-----------------------------------------------------------------------------
(* The inductive invariant                                                 *)

Themes == {"dark", "light"}
Screens == [kind : {"spinner", "page", "error", "navError"},
            doc : Docs \cup {NoName}, late : BOOLEAN]
Fetches == [doc : Docs, passed : BOOLEAN]
LibStates == [pending : {0, 1}, promise : BOOLEAN, loaded : BOOLEAN]
BlockStates == {"none", "waiting", "raw", "drawing", "done"}

(* The page: what TypeOK says of it, and of the variables it leaves out.   *)
PageTypes ==
    /\ nav \in {"loading", "ready", "failed"} /\ theme \in Themes
    /\ currentDoc \in Docs \cup {NoName} /\ side \in Docs \cup {NoName}
    /\ screen \in Screens /\ (screen.kind = "page" => screen.doc \in Docs)
    /\ loads \in Seq(Fetches)
    /\ toc \in LongDocs \cup {NoName}
    /\ lib \in [Libs -> LibStates]
    /\ blocks \in [Libs -> BlockStates]

(* No document is asked for before the navigation is there; until then     *)
(* nothing is on its way or drawn.  Afterwards the side bar follows.       *)
Asking ==
    /\ nav # "ready" => currentDoc = NoName
    /\ currentDoc = NoName => loads = <<>> /\ blocks["mermaid"] = "none"
    /\ SidebarFollows

(* The youngest fetch is of the current document, unless one started after *)
(* it was answered before it.                                              *)
Settling ==
    /\ SettledPageIsCurrent
    /\ loads # <<>> /\ ~loads[Len(loads)].passed => loads[Len(loads)].doc = currentDoc

(* A script element is pending exactly while its promise is open.          *)
Fetching ==
    \A l \in Libs :
        /\ lib[l].pending = 1 <=> lib[l].promise /\ ~lib[l].loaded
        /\ lib[l].loaded => lib[l].promise
        /\ blocks[l] = "waiting" => lib[l].pending = 1

PageInv == PageTypes /\ Asking /\ Settling /\ Fetching /\ DiagramsMatchTheme

(* The location and the controls around the page.                          *)
ShellInv ==
    /\ mobile \in BOOLEAN /\ drawer \in BOOLEAN /\ viewer \in BOOLEAN /\ locked \in BOOLEAN
    /\ hash \in Hashes /\ events \in 0..MaxEvents /\ currentView \in Views
    /\ LockHasOwner

(* The palette: an empty input shows no rows, a query shows the results,   *)
(* which are of that query; only then does the active row have to exist.   *)
SearchInv ==
    /\ index \in {"null", "loading", "loaded", "failed"} /\ palette \in BOOLEAN
    /\ query \in Queries
    /\ results \in Seq(DOMAIN Index)
    /\ active \in Int /\ active >= -1
    /\ query = <<>> => shown = <<>>
    /\ query # <<>> =>
           /\ shown = results /\ results \in {<<>>, Best(query)}
           /\ results # <<>> => active \in 0..(Len(results) - 1) /\ marked = active

DocsInv == PageInv /\ ShellInv /\ SearchInv

\* The two libraries loaded on demand.
LEMMA LibsAre == Libs = {"mermaid", "hljs"}
  BY DocsAssumption DEF Libs

-----------------------------------------------------------------------------
(* Steps of the page                                                       *)

(* A page is asked for, and the side bar with it.                          *)
Asks(d) == loadMarkdownDocs(d) /\ nav' = "ready" /\ side' = d /\ theme' \in Themes

(* The page is left alone.                                                 *)
Rests ==
    /\ UNCHANGED pageVars
    /\ theme' \in Themes /\ (currentDoc # NoName => theme' = theme)
    /\ side' \in Docs \cup {NoName} /\ (currentDoc # NoName => side' = side)
    /\ nav' \in {nav, "ready"}

PageStep ==
    \/ \E d \in Docs : Asks(d)
    \/ Rests
    \/ NavFailed
    \/ \E k \in 1..Len(loads) : RenderPage(k) \/ LoadFailed(k)
    \/ \E l \in Libs : LibLoaded(l) \/ LibFailed(l)
    \/ \E ok \in BOOLEAN : DiagramsDrawn(ok)

\* Every way to ask for a page (side bar, hash at start, hashchange, theme
\* button) moves the side bar to it, and only after nav.json has arrived.
LEMMA PageSteps ==
  ASSUME PageInv, [Next]_vars
  PROVE  PageStep
<1> USE DEF PageInv, PageTypes
<1>1. CASE NavLoaded
  <2> DEFINE start == IF parseHash(hash).doc \in Docs THEN parseHash(hash).doc ELSE DefaultDoc
  <2>1. start \in Docs /\ side' = start /\ nav' = "ready" /\ nav = "loading" /\ theme' = theme
    BY <1>1, DocsAssumption DEF NavLoaded
  <2>2. loadMarkdownDocs(start) \/ UNCHANGED pageVars
    BY <1>1 DEF NavLoaded
  <2>3. currentDoc = NoName
    BY <2>1 DEF Asking
  <2> HIDE DEF start
  <2> QED BY <2>1, <2>2, <2>3 DEF PageStep, Asks, Rests
<1>2. CASE hashchange
  <2>1. PICK d : d = parseHash(hash).doc
    OBVIOUS
  <2>2. theme' = theme /\ nav' = nav
    BY <1>2 DEF hashchange
  <2>3. \/ d \in Links /\ loadMarkdownDocs(d) /\ side' = d
        \/ UNCHANGED pageVars /\ side' = side
    BY <1>2, <2>1 DEF hashchange
  <2> QED BY <2>2, <2>3 DEF PageStep, Asks, Rests, Links
<1>3. ASSUME NEW d \in Docs, handleSidebarClick(d) PROVE PageStep
  BY <1>3 DEF handleSidebarClick, PageStep, Asks
<1>4. CASE toggleTheme
  <2>1. theme' \in Themes /\ nav' = nav /\ side' = side
    BY <1>4 DEF toggleTheme, Themes
  <2>2. currentDoc # NoName => currentDoc \in Docs /\ loadMarkdownDocs(currentDoc)
                               /\ nav = "ready" /\ side = currentDoc
    BY <1>4 DEF toggleTheme, Asking, SidebarFollows
  <2>3. currentDoc = NoName => UNCHANGED pageVars
    BY <1>4 DEF toggleTheme
  <2> QED BY <2>1, <2>2, <2>3 DEF PageStep, Asks, Rests
<1>5. CASE UNCHANGED <<nav, side, theme, pageVars>>
  BY <1>5 DEF PageStep, Rests
<1>6. ASSUME NEW view \in Views, tabClick(view) PROVE PageStep
  BY <1>5, <1>6 DEF tabClick
<1>7. ASSUME NEW s \in SectionIds, tocClick(s) \/ anchorClick(s) PROVE PageStep
  BY <1>5, <1>7 DEF tocClick, anchorClick, Navigate, setHash
<1>8. ASSUME NEW h \in Hashes, Navigate(h) PROVE PageStep
  BY <1>5, <1>8 DEF Navigate, setHash
<1>9. CASE toggleSidebar \/ openDiagramViewer \/ closeDiagramViewer
  BY <1>5, <1>9 DEF toggleSidebar, openDiagramViewer, closeDiagramViewer
<1>10. CASE Search
  <2>1. CASE enterKey \/ rowClick
    BY <1>5, <2>1 DEF enterKey, rowClick, go, setHash
  <2>2. CASE escapeKey
    BY <1>5, <2>2 DEF escapeKey, closeDiagramViewer, docsVars
  <2>3. CASE UNCHANGED docsVars
    BY <1>5, <2>3 DEF docsVars
  <2>4. ASSUME NEW q \in Queries, runSearch(q) PROVE PageStep
    BY <2>3, <2>4 DEF runSearch
  <2>5. ASSUME NEW ok \in BOOLEAN, IndexArrives(ok) PROVE PageStep
    BY <2>3, <2>5 DEF IndexArrives
  <2>6. CASE openPalette \/ closePalette \/ arrowDown \/ arrowUp
    BY <2>3, <2>6 DEF openPalette, closePalette, arrowDown, arrowUp
  <2> QED BY <1>10, <2>1, <2>2, <2>4, <2>5, <2>6 DEF Search
<1>11. CASE Background
  <2>1. CASE NavFailed \/ PageAnswer \/ (\E l \in Libs : LibLoaded(l) \/ LibFailed(l))
             \/ \E ok \in BOOLEAN : DiagramsDrawn(ok)
    BY <2>1 DEF PageStep, PageAnswer
  <2> QED BY <1>1, <1>2, <1>11, <2>1 DEF Background
<1>12. CASE User
  BY <1>3, <1>4, <1>6, <1>7, <1>8, <1>9, <1>12 DEF User
<1>13. CASE UNCHANGED vars
  BY <1>5, <1>13 DEF vars, docsVars
<1> QED BY <1>10, <1>11, <1>12, <1>13 DEF Next

\* Asking for a page keeps the page consistent: the spinner replaces what was
\* there and the fetch is the youngest (loadMarkdownDocs up to its await).
LEMMA AskingKeeps ==
  ASSUME PageInv, NEW d \in Docs, Asks(d)
  PROVE  PageInv'
<1> USE DEF PageInv, Asks, loadMarkdownDocs
<1>1. /\ currentDoc' = d /\ d # NoName /\ side' = d /\ nav' = "ready"
      /\ screen' = Spinner /\ toc' = toc /\ lib' = lib /\ theme' \in Themes
  BY DocsAssumption
<1>2. loads' = Append(loads, [doc |-> d, passed |-> FALSE])
  OBVIOUS
<1>3. /\ loads' \in Seq(Fetches) /\ loads' # <<>>
      /\ loads'[Len(loads')].doc = d
  <2>1. [doc |-> d, passed |-> FALSE] \in Fetches
    BY DEF Fetches
  <2> QED BY <1>2, <2>1 DEF PageTypes
<1>4. blocks' = [l \in Libs |-> "none"]
  BY DEF NoBlocks
<1>5. screen' \in Screens /\ screen'.kind = "spinner"
  BY <1>1 DEF Screens, Spinner
<1>6. PageTypes'
  BY <1>1, <1>3, <1>4, <1>5 DEF PageTypes, BlockStates, Libs
<1>7. Asking'
  BY <1>1 DEF Asking, SidebarFollows
<1>8. Settling'
  BY <1>1, <1>3 DEF Settling, SettledPageIsCurrent
<1>9. Fetching'
  BY <1>1, <1>4 DEF Fetching, Libs
<1>10. DiagramsMatchTheme'
  BY <1>4, LibsAre DEF DiagramsMatchTheme, Libs
<1> QED BY <1>6, <1>7, <1>8, <1>9, <1>10

\* Steps that leave the page alone keep it consistent; before the first page
\* the theme and the side bar are free, for nothing is drawn.
LEMMA RestingKeeps ==
  ASSUME PageInv, Rests \/ NavFailed
  PROVE  PageInv'
<1> USE DEF PageInv
<1>1. CASE Rests
  <2>1. /\ UNCHANGED <<currentDoc, screen, loads, toc, lib, blocks, drawn>>
        /\ theme' \in Themes /\ (currentDoc # NoName => theme' = theme)
        /\ side' \in Docs \cup {NoName} /\ (currentDoc # NoName => side' = side)
        /\ nav' \in {nav, "ready"}
    BY <1>1 DEF Rests, pageVars
  <2>2. PageTypes'
    BY <2>1 DEF PageTypes
  <2>3. Asking'
    BY <2>1 DEF Asking, SidebarFollows
  <2>4. Settling'
    BY <2>1 DEF Settling, SettledPageIsCurrent
  <2>5. Fetching'
    BY <2>1 DEF Fetching, Libs
  <2>6. DiagramsMatchTheme'
    BY <2>1 DEF DiagramsMatchTheme, Asking
  <2> QED BY <2>2, <2>3, <2>4, <2>5, <2>6
<1>2. CASE NavFailed
  <2>1. /\ UNCHANGED <<currentDoc, loads, toc, lib, blocks, drawn, side, theme>>
        /\ nav = "loading" /\ nav' = "failed"
        /\ screen' = [kind |-> "navError", doc |-> NoName, late |-> FALSE]
    BY <1>2 DEF NavFailed
  <2>2. screen' \in Screens /\ screen'.kind = "navError"
    BY <2>1 DEF Screens
  <2>3. PageTypes'
    BY <2>1, <2>2 DEF PageTypes
  <2>4. Asking'
    BY <2>1 DEF Asking, SidebarFollows
  <2>5. Settling'
    BY <2>1, <2>2 DEF Settling, SettledPageIsCurrent
  <2>6. Fetching'
    BY <2>1 DEF Fetching, Libs
  <2>7. DiagramsMatchTheme'
    BY <2>1 DEF DiagramsMatchTheme
  <2> QED BY <2>3, <2>4, <2>5, <2>6, <2>7
<1> QED BY <1>1, <1>2

\* An answer removes its fetch; those started before it are late from then on.
LEMMA AnsweredType ==
  ASSUME loads \in Seq(Fetches), NEW k \in 1..Len(loads)
  PROVE  /\ Answered(k) \in Seq(Fetches) /\ Len(Answered(k)) = Len(loads) - 1
         /\ loads # <<>>
         /\ Answered(k) # <<>> =>
              IF k = Len(loads) THEN Answered(k)[Len(Answered(k))].passed = TRUE
              ELSE Answered(k)[Len(Answered(k))] = loads[Len(loads)]
<1>1. Len(loads) \in Nat /\ Len(loads) >= 1 /\ k \in Nat
  OBVIOUS
<1>2. \A i \in 1..Len(loads) : loads[i] \in Fetches
  OBVIOUS
<1>3. \A i \in 1..(Len(loads) - 1) : i \in 1..Len(loads) /\ i + 1 \in 1..Len(loads)
  BY <1>1
<1>4. Answered(k) \in [1..(Len(loads) - 1) -> Fetches]
  BY <1>2, <1>3 DEF Answered, Fetches
<1>5. Answered(k) \in Seq(Fetches) /\ Len(Answered(k)) = Len(loads) - 1
  BY <1>1, <1>4
<1>6. ASSUME Answered(k) # <<>>
      PROVE  IF k = Len(loads) THEN Answered(k)[Len(Answered(k))].passed = TRUE
             ELSE Answered(k)[Len(Answered(k))] = loads[Len(loads)]
  <2>1. Len(loads) - 1 \in 1..(Len(loads) - 1)
    BY <1>1, <1>5, <1>6
  <2>2. loads[Len(loads) - 1] \in Fetches
    BY <1>2, <1>3, <2>1
  <2>3. Answered(k)[Len(loads) - 1] =
           IF Len(loads) - 1 < k THEN [loads[Len(loads) - 1] EXCEPT !.passed = TRUE]
           ELSE loads[(Len(loads) - 1) + 1]
    BY <2>1 DEF Answered
  <2>4. CASE k = Len(loads)
    BY <1>1, <1>5, <2>2, <2>3, <2>4 DEF Fetches
  <2>5. CASE k # Len(loads)
    BY <1>1, <1>5, <2>3, <2>5
  <2> QED BY <2>4, <2>5
<1>7. loads # <<>>
  BY <1>1
<1> QED BY <1>5, <1>6, <1>7

\* The answer to a fetch, good or bad, keeps the page consistent.
LEMMA AnswerKeeps ==
  ASSUME PageInv, NEW k \in 1..Len(loads), RenderPage(k) \/ LoadFailed(k)
  PROVE  PageInv'
<1> DEFINE d == loads[k].doc
<1> USE DEF PageInv
<1>0. PageTypes /\ loads \in Seq(Fetches) /\ loads[k] \in Fetches
  BY DEF PageTypes
<1>1. d \in Docs /\ loads[k].passed \in BOOLEAN
  BY <1>0 DEF Fetches
<1>2. UNCHANGED <<nav, currentDoc, side, theme>> /\ loads' = Answered(k)
  BY DEF RenderPage, LoadFailed
<1>3. /\ loads' \in Seq(Fetches) /\ Len(loads') = Len(loads) - 1 /\ loads # <<>>
      /\ loads' # <<>> => IF k = Len(loads) THEN loads'[Len(loads')].passed = TRUE
                          ELSE loads'[Len(loads')] = loads[Len(loads)]
  BY <1>0, <1>2, AnsweredType
<1>4. currentDoc # NoName /\ nav = "ready" /\ side = currentDoc
  BY <1>3 DEF Asking, SidebarFollows
<1>5. screen' = [kind |-> screen'.kind, doc |-> screen'.doc, late |-> loads[k].passed]
      /\ screen'.kind \in {"page", "error"} /\ screen'.late = loads[k].passed
      /\ screen'.doc = (IF screen'.kind = "page" THEN d ELSE NoName)
  BY DEF RenderPage, LoadFailed
<1>6. screen' \in Screens /\ (screen'.kind = "page" => screen'.doc \in Docs)
  BY <1>1, <1>5 DEF Screens
<1>7. toc' \in LongDocs \cup {NoName}
  BY <1>0 DEF PageTypes, RenderPage, LoadFailed, buildTableOfContents
<1>8. Asking'
  BY <1>2, <1>4 DEF Asking, SidebarFollows
<1>9. Settling'
  <2>1. ASSUME loads' = <<>>, screen'.kind = "page", ~screen'.late
        PROVE  screen'.doc = currentDoc'
    <3>1. Len(loads) = 1 /\ k = Len(loads)
      <4>1. Len(loads') = 0 /\ Len(loads) \in Nat
        BY <1>0, <2>1
      <4> QED BY <1>3, <4>1
    <3>2. loads[k].doc = currentDoc
      BY <1>3, <1>5, <2>1, <3>1 DEF Settling
    <3> QED BY <1>2, <1>5, <2>1, <3>2
  <2>2. ASSUME loads' # <<>>, ~loads'[Len(loads')].passed
        PROVE  loads'[Len(loads')].doc = currentDoc'
    <3>1. loads'[Len(loads')] = loads[Len(loads)]
      BY <1>3, <2>2
    <3> QED BY <1>2, <1>3, <2>2, <3>1 DEF Settling
  <2> QED BY <2>1, <2>2 DEF Settling, SettledPageIsCurrent
<1>10. CASE RenderPage(k)
  <2>1. /\ lib' = [l \in Libs |-> IF d \in Blocks[l] THEN ensureLib(l) ELSE lib[l]]
        /\ blocks' = [l \in Libs |-> askedFor(l, d)]
        /\ drawn' = IF blocks'["mermaid"] = "drawing" THEN theme ELSE drawn
    BY <1>10 DEF RenderPage
  <2>2. ASSUME NEW l \in Libs
        PROVE  /\ lib'[l] \in LibStates
               /\ blocks'[l] \in BlockStates
               /\ lib'[l].pending = 1 <=> lib'[l].promise /\ ~lib'[l].loaded
               /\ lib'[l].loaded => lib'[l].promise
               /\ blocks'[l] = "waiting" => lib'[l].pending = 1
    <3>1. /\ lib[l] \in LibStates
          /\ lib[l].pending = 1 <=> lib[l].promise /\ ~lib[l].loaded
          /\ lib[l].loaded => lib[l].promise
      BY <1>0 DEF PageTypes, Fetching
    <3>2. lib'[l] = IF d \in Blocks[l] THEN ensureLib(l) ELSE lib[l]
      BY <2>1
    <3>3. blocks'[l] = askedFor(l, d)
      BY <2>1
    <3>4. /\ lib'[l] \in LibStates
          /\ lib'[l].pending = 1 <=> lib'[l].promise /\ ~lib'[l].loaded
          /\ lib'[l].loaded = lib[l].loaded
          /\ lib'[l].loaded => lib'[l].promise
          /\ d \in Blocks[l] => lib'[l].promise
      <4>1. CASE d \in Blocks[l] /\ ~lib[l].loaded /\ ~lib[l].promise
        <5>1. lib[l].pending = 0
          BY <3>1, <4>1 DEF LibStates
        <5>2. lib'[l] = [lib[l] EXCEPT !.promise = TRUE, !.pending = 1]
          BY <3>2, <4>1, <5>1 DEF ensureLib
        <5>3. /\ lib'[l] \in LibStates /\ lib'[l].pending = 1
              /\ lib'[l].promise = TRUE /\ lib'[l].loaded = lib[l].loaded
          BY <3>1, <5>2 DEF LibStates
        <5> QED BY <4>1, <5>3, Zenon
      <4>2. CASE ~(d \in Blocks[l] /\ ~lib[l].loaded /\ ~lib[l].promise)
        <5>1. lib'[l] = lib[l]
          BY <3>2, <4>2 DEF ensureLib
        <5> QED BY <3>1, <4>2, <5>1
      <4> QED BY <4>1, <4>2
    <3>5. /\ askedFor(l, d) \in BlockStates
          /\ askedFor(l, d) = "waiting" => d \in Blocks[l] /\ ~lib[l].loaded
      BY DEF askedFor, BlockStates, Decorated
    <3> QED BY <3>3, <3>4, <3>5
  <2>3. lib' \in [Libs -> LibStates] /\ blocks' \in [Libs -> BlockStates]
    <3>1. \A l \in Libs : lib'[l] \in LibStates /\ blocks'[l] \in BlockStates
      BY <2>2
    <3>2. /\ lib' = [l \in Libs |-> lib'[l]]
          /\ blocks' = [l \in Libs |-> blocks'[l]]
      BY <2>1, Zenon
    <3> QED BY <3>1, <3>2
  <2>4. PageTypes'
    BY <1>0, <1>2, <1>3, <1>6, <1>7, <2>3 DEF PageTypes, Libs
  <2>5. Fetching'
    BY <2>2 DEF Fetching, Libs
  <2>6. DiagramsMatchTheme'
    <3>1. blocks'["mermaid"] = askedFor("mermaid", d)
      BY <2>1, LibsAre
    <3>2. blocks'["mermaid"] \in {"drawing", "done"} => blocks'["mermaid"] = "drawing"
      BY <3>1 DEF askedFor, Decorated
    <3> QED BY <1>2, <2>1, <3>2 DEF DiagramsMatchTheme
  <2> QED BY <1>8, <1>9, <2>4, <2>5, <2>6
<1>11. CASE LoadFailed(k)
  <2>1. UNCHANGED <<lib, drawn>> /\ blocks' = [l \in Libs |-> "none"]
    BY <1>11 DEF LoadFailed, NoBlocks
  <2>2. PageTypes'
    BY <1>0, <1>2, <1>3, <1>6, <1>7, <2>1 DEF PageTypes, BlockStates, Libs
  <2>3. Fetching'
    BY <2>1 DEF Fetching, Libs
  <2>4. DiagramsMatchTheme'
    BY <2>1, LibsAre DEF DiagramsMatchTheme
  <2> QED BY <1>8, <1>9, <2>2, <2>3, <2>4
<1> QED BY <1>10, <1>11

\* A library's script, there or not, answers every block that waits for it, and
\* draws diagrams in the theme of that moment (renderMermaidDiagrams,
\* ensureHljs after their awaits).
LEMMA LibraryKeeps ==
  ASSUME PageInv, NEW l \in Libs, LibLoaded(l) \/ LibFailed(l)
  PROVE  PageInv'
<1> USE DEF PageInv
<1>1. UNCHANGED <<nav, side, theme, currentDoc, screen, loads, toc>>
  BY DEF LibLoaded, LibFailed
<1>2. /\ lib \in [Libs -> LibStates] /\ blocks \in [Libs -> BlockStates]
      /\ lib[l] \in LibStates /\ blocks[l] \in BlockStates
  BY DEF PageTypes
<1>3. lib[l].pending = 1 /\ lib[l].promise /\ ~lib[l].loaded
  <2>1. lib[l].pending > 0 /\ lib[l].pending \in {0, 1}
    BY <1>2 DEF LibLoaded, LibFailed, LibStates
  <2>2. lib[l].pending = 1
    BY <2>1
  <2> QED BY <2>2 DEF Fetching
<1>4. /\ blocks' \in [Libs -> BlockStates]
      /\ blocks'[l] # "waiting"
      /\ \A m \in Libs : m # l => blocks'[m] = blocks[m]
      /\ \A m \in Libs : blocks[m] = "none" => blocks'[m] = "none"
  <2>1. PICK s \in {"drawing", "done", "raw"} :
           blocks' = [blocks EXCEPT ![l] = IF blocks[l] = "waiting" THEN s ELSE blocks[l]]
    BY DEF LibLoaded, LibFailed, Decorated
  <2> QED BY <1>2, <2>1 DEF BlockStates
<1>5. /\ lib' \in [Libs -> LibStates]
      /\ lib'[l].pending = 0
      /\ lib'[l].loaded <=> lib'[l].promise
      /\ \A m \in Libs : m # l => lib'[m] = lib[m]
  <2>1. CASE LibLoaded(l)
    <3>1. lib' = [lib EXCEPT ![l].pending = lib[l].pending - 1, ![l].loaded = TRUE]
      BY <1>2, <2>1 DEF LibLoaded
    <3>2. lib'[l] = [lib[l] EXCEPT !.pending = 0, !.loaded = TRUE]
      <4>1. lib'[l] = [lib[l] EXCEPT !.pending = lib[l].pending - 1, !.loaded = TRUE]
        BY <1>2, <3>1
      <4>2. lib[l].pending - 1 = 0
        BY <1>3
      <4> QED BY <4>1, <4>2
    <3>3. /\ lib'[l] \in LibStates /\ lib'[l].pending = 0
          /\ lib'[l].loaded = TRUE /\ lib'[l].promise = lib[l].promise
      BY <1>2, <3>2 DEF LibStates
    <3>4. \A m \in Libs : m # l => lib'[m] = lib[m]
      BY <1>2, <3>1
    <3>5. lib' \in [Libs -> LibStates]
      BY <1>2, <3>1, <3>3, <3>4
    <3> QED BY <1>3, <3>3, <3>4, <3>5, Zenon
  <2>2. CASE LibFailed(l)
    <3>1. lib' = [lib EXCEPT ![l].pending = lib[l].pending - 1, ![l].promise = FALSE]
      BY <1>2, <2>2 DEF LibFailed
    <3>2. lib'[l] = [lib[l] EXCEPT !.pending = 0, !.promise = FALSE]
      <4>1. lib'[l] = [lib[l] EXCEPT !.pending = lib[l].pending - 1, !.promise = FALSE]
        BY <1>2, <3>1
      <4>2. lib[l].pending - 1 = 0
        BY <1>3
      <4> QED BY <4>1, <4>2
    <3>3. /\ lib'[l] \in LibStates /\ lib'[l].pending = 0
          /\ lib'[l].promise = FALSE /\ lib'[l].loaded = lib[l].loaded
      BY <1>2, <3>2 DEF LibStates
    <3>4. \A m \in Libs : m # l => lib'[m] = lib[m]
      BY <1>2, <3>1
    <3>5. lib' \in [Libs -> LibStates]
      BY <1>2, <3>1, <3>3, <3>4
    <3> QED BY <1>3, <3>3, <3>4, <3>5, Zenon
  <2> QED BY <2>1, <2>2
<1>6. PageTypes'
  BY <1>1, <1>4, <1>5 DEF PageTypes, Libs
<1>7. Asking'
  <2>1. "mermaid" \in Libs
    BY LibsAre
  <2> QED BY <1>1, <1>4, <2>1 DEF Asking, SidebarFollows
<1>8. Settling'
  BY <1>1 DEF Settling, SettledPageIsCurrent
<1>9. Fetching'
  <2> SUFFICES ASSUME NEW m \in Libs
               PROVE  /\ lib'[m].pending = 1 <=> lib'[m].promise /\ ~lib'[m].loaded
                      /\ lib'[m].loaded => lib'[m].promise
                      /\ blocks'[m] = "waiting" => lib'[m].pending = 1
    BY DEF Fetching, Libs
  <2>1. CASE m = l
    <3>1. lib'[l].pending # 1
      BY <1>5
    <3> QED BY <1>4, <1>5, <2>1, <3>1, Zenon
  <2>2. CASE m # l
    BY <1>4, <1>5, <2>2 DEF Fetching
  <2> QED BY <2>1, <2>2
<1>10. DiagramsMatchTheme'
  <2>1. CASE blocks[l] = "waiting" /\ l = "mermaid"
    <3>1. CASE LibLoaded(l)
      BY <1>1, <2>1, <3>1 DEF LibLoaded, DiagramsMatchTheme
    <3>2. CASE LibFailed(l)
      BY <1>2, <2>1, <3>2 DEF LibFailed, DiagramsMatchTheme
    <3> QED BY <3>1, <3>2
  <2>2. CASE ~(blocks[l] = "waiting" /\ l = "mermaid")
    <3>1. drawn' = drawn
      BY <2>2 DEF LibLoaded, LibFailed
    <3>2. blocks'["mermaid"] = blocks["mermaid"]
      <4>1. CASE l = "mermaid"
        BY <1>2, <2>2, <4>1 DEF LibLoaded, LibFailed
      <4>2. CASE l # "mermaid"
        BY <1>4, <4>2, LibsAre
      <4> QED BY <4>1, <4>2
    <3> QED BY <1>1, <3>1, <3>2 DEF DiagramsMatchTheme
  <2> QED BY <2>1, <2>2
<1> QED BY <1>6, <1>7, <1>8, <1>9, <1>10

\* The end of mermaid.run keeps the page consistent.
LEMMA DrawingKeeps ==
  ASSUME PageInv, NEW ok \in BOOLEAN, DiagramsDrawn(ok)
  PROVE  PageInv'
<1> USE DEF PageInv
<1>1. UNCHANGED <<nav, side, theme, currentDoc, screen, loads, toc, lib, drawn>>
  BY DEF DiagramsDrawn
<1>2. /\ blocks["mermaid"] = "drawing"
      /\ \E s \in {"done", "raw"} : blocks' = [blocks EXCEPT !["mermaid"] = s]
  BY DEF DiagramsDrawn
<1>3. PageTypes'
  BY <1>1, <1>2 DEF PageTypes, BlockStates, Libs
<1>4. Asking'
  BY <1>1, <1>2 DEF Asking, SidebarFollows
<1>5. Settling'
  BY <1>1 DEF Settling, SettledPageIsCurrent
<1>6. Fetching'
  <2>1. blocks \in [Libs -> BlockStates]
    BY DEF PageTypes
  <2>2. \A m \in Libs : blocks'[m] = "waiting" => blocks[m] = "waiting"
    BY <1>2, <2>1
  <2> QED BY <1>1, <2>2 DEF Fetching, Libs
<1>7. DiagramsMatchTheme'
  BY <1>1, <1>2 DEF DiagramsMatchTheme
<1> QED BY <1>3, <1>4, <1>5, <1>6, <1>7

\* Every step keeps the page consistent.
LEMMA PageInductive == PageInv /\ [Next]_vars => PageInv'
<1> SUFFICES ASSUME PageInv, [Next]_vars PROVE PageInv'
  OBVIOUS
<1>1. PageStep
  BY PageSteps
<1> QED BY <1>1, AskingKeeps, RestingKeeps, AnswerKeeps, LibraryKeeps, DrawingKeeps
     DEF PageStep

-----------------------------------------------------------------------------
(* The location and the controls                                           *)

\* A hash names a view, and a document or an unknown name or nothing
\* (parseHash).
LEMMA ParseHashType ==
  ASSUME NEW h \in Hashes
  PROVE  /\ parseHash(h).view \in Views
         /\ parseHash(h).doc \in Docs \cup {Unknown, NoName}
<1>1. parseHash(h).view \in Views
  BY DEF parseHash, Views
<1>2. ASSUME h = <<>> PROVE parseHash(h).doc \in Docs \cup {Unknown, NoName}
  <2>1. h # <<"api">> /\ Len(h) = 0
    BY <1>2
  <2> QED BY <1>2, <2>1 DEF parseHash
<1>3. ASSUME h = <<"api">> PROVE parseHash(h).doc \in Docs \cup {Unknown, NoName}
  BY <1>3 DEF parseHash
<1>4. ASSUME h # <<"api">>, NEW d \in Docs \cup {Unknown}, h = <<"docs", d>>
      PROVE  parseHash(h).doc \in Docs \cup {Unknown, NoName}
  <2>1. h # <<>> /\ h[1] = "docs" /\ Tail(h) = <<d>>
    BY <1>4
  <2> QED BY <1>4, <2>1 DEF parseHash
<1>5. ASSUME h # <<"api">>, NEW d \in Docs, NEW s \in SectionIds, h = <<"docs", d, s>>
      PROVE  parseHash(h).doc \in Docs \cup {Unknown, NoName}
  <2>1. h # <<>> /\ h[1] = "docs" /\ Tail(h) = <<d, s>>
    BY <1>5
  <2> QED BY <1>5, <2>1 DEF parseHash
<1>6. ASSUME h # <<"api">>, NEW d \in Docs, h = <<d>>
      PROVE  parseHash(h).doc \in Docs \cup {Unknown, NoName}
  <2>1. h # <<>> /\ h[1] = d /\ Tail(h) = <<>>
    BY <1>6
  <2>2. CASE d = "docs"
    BY <1>6, <2>1, <2>2 DEF parseHash
  <2>3. CASE d # "docs"
    BY <1>6, <2>1, <2>3 DEF parseHash
  <2> QED BY <2>2, <2>3
<1> QED BY <1>1, <1>2, <1>3, <1>4, <1>5, <1>6 DEF Hashes

\* Every hash the scripts build is one that they can read back (buildHash).
LEMMA BuildHashType ==
  /\ buildHash("api", NoName, NoName) \in Hashes
  /\ buildHash("docs", NoName, NoName) \in Hashes
  /\ \A d \in Docs \cup {Unknown} : buildHash("docs", d, NoName) \in Hashes
  /\ \A d \in Docs : \A s \in SectionIds \cup {NoName} : buildHash("docs", d, s) \in Hashes
<1>1. buildHash("api", NoName, NoName) = <<"api">> /\ buildHash("docs", NoName, NoName) = <<>>
  BY DEF buildHash
<1>2. \A d \in Docs \cup {Unknown} : buildHash("docs", d, NoName) = <<"docs", d>>
  BY DocsAssumption DEF buildHash
<1>3. \A d \in Docs : \A s \in SectionIds : buildHash("docs", d, s) = <<"docs", d, s>>
  BY DocsAssumption DEF buildHash
<1>4. /\ <<>> \in Hashes /\ <<"api">> \in Hashes
      /\ \A d \in Docs \cup {Unknown} : <<"docs", d>> \in Hashes
      /\ \A d \in Docs : \A s \in SectionIds : <<"docs", d, s>> \in Hashes
  BY DEF Hashes
<1> QED BY <1>1, <1>2, <1>3, <1>4

\* A hash set by a script or typed is readable, and its event is counted.
LEMMA SetHashKeeps ==
  ASSUME ShellInv, NEW h \in Hashes, events < MaxEvents, setHash(h)
  PROVE  hash' \in Hashes /\ events' \in 0..MaxEvents
         /\ UNCHANGED <<mobile, currentView, drawer, viewer, locked>>
<1>1. events \in 0..MaxEvents /\ MaxEvents \in Nat
  BY DocsAssumption DEF ShellInv
<1>2. events' \in {events, events + 1}
  BY DEF setHash
<1>3. hash' = h /\ UNCHANGED <<mobile, currentView, drawer, viewer, locked>>
  BY DEF setHash, shellVars
<1>4. events' \in 0..MaxEvents
  BY <1>1, <1>2
<1> QED BY <1>3, <1>4

\* Every step leaves a readable hash, a view and a bounded number of events.
LEMMA LocationKeeps ==
  ASSUME PageInv, ShellInv, SearchInv, [Next]_vars
  PROVE  /\ mobile' \in BOOLEAN /\ hash' \in Hashes
         /\ events' \in 0..MaxEvents /\ currentView' \in Views
<1> DEFINE Goal == /\ mobile' \in BOOLEAN /\ hash' \in Hashes
                   /\ events' \in 0..MaxEvents /\ currentView' \in Views
<1>0. /\ mobile \in BOOLEAN /\ hash \in Hashes
      /\ events \in 0..MaxEvents /\ currentView \in Views
  BY DEF ShellInv
<1>1. MaxEvents \in Nat /\ parseHash(hash).view \in Views
      /\ parseHash(hash).doc \in Docs \cup {Unknown, NoName} /\ "docs" \in Views
  BY <1>0, DocsAssumption, ParseHashType DEF Views
<1>2. CASE UNCHANGED <<mobile, hash, events, currentView>>
  BY <1>0, <1>2
<1>3. CASE NavLoaded
  <2>1. UNCHANGED <<mobile, events>>
    BY <1>3 DEF NavLoaded
  <2>2. hash' \in Hashes
    <3>1. hash' \in {hash, buildHash("docs", DefaultDoc, NoName)}
      BY <1>3 DEF NavLoaded
    <3> QED BY <1>0, <3>1, BuildHashType, DocsAssumption
  <2>3. currentView' \in Views
    BY <1>1, <1>3 DEF NavLoaded, switchToView
  <2> QED BY <1>0, <2>1, <2>2, <2>3
<1>4. CASE hashchange
  <2>1. UNCHANGED mobile /\ events' = events - 1 /\ events > 0
    BY <1>4 DEF hashchange
  <2>2. hash' \in Hashes
    <3>1. hash' \in {hash, buildHash("docs", DefaultDoc, NoName)}
      BY <1>4 DEF hashchange
    <3> QED BY <1>0, <3>1, BuildHashType, DocsAssumption
  <2>3. currentView' \in Views
    BY <1>0, <1>1, <1>4 DEF hashchange, switchToView
  <2>4. events' \in 0..MaxEvents
    BY <1>0, <1>1, <2>1
  <2> QED BY <1>0, <2>1, <2>2, <2>3, <2>4
<1>5. ASSUME NEW d \in Docs, handleSidebarClick(d) PROVE Goal
  <2>1. UNCHANGED <<mobile, events>> /\ currentView' = "docs"
        /\ hash' = buildHash("docs", d, NoName)
    BY <1>5 DEF handleSidebarClick, switchToView
  <2> QED BY <1>0, <1>1, <2>1, BuildHashType
<1>6. ASSUME NEW view \in Views, tabClick(view) PROVE Goal
  <2>1. UNCHANGED <<mobile, events>> /\ currentView' = view
    BY <1>6 DEF tabClick, switchToView
  <2>2. \/ hash' = buildHash("api", NoName, NoName)
        \/ \E d \in Docs \cup {Unknown} : hash' = buildHash("docs", d, NoName)
    BY <1>1, <1>6, DocsAssumption DEF tabClick
  <2> QED BY <1>0, <2>1, <2>2, BuildHashType
<1>7. ASSUME NEW s \in SectionIds, tocClick(s) PROVE Goal
  <2>1. UNCHANGED <<mobile, events, currentView>> /\ hash' = buildHash("docs", toc, s)
    BY <1>7 DEF tocClick
  <2>2. toc \in Docs
    BY <1>7, DocsAssumption DEF tocClick, PageInv, PageTypes
  <2> QED BY <1>0, <2>1, <2>2, BuildHashType
<1>8. ASSUME NEW s \in SectionIds, anchorClick(s) PROVE Goal
  <2>1. screen.doc \in Docs
    BY <1>8 DEF anchorClick, PageInv, PageTypes
  <2>2. buildHash("docs", screen.doc, s) \in Hashes
    BY <2>1, BuildHashType
  <2> QED BY <1>0, <1>8, <2>2, SetHashKeeps DEF anchorClick, Navigate
<1>9. ASSUME NEW h \in Hashes, Navigate(h) PROVE Goal
  BY <1>0, <1>9, SetHashKeeps DEF Navigate
<1>10. ASSUME NEW i, go(i) PROVE Goal
  <2>1. results \in Seq(DOMAIN Index) /\ i + 1 \in DOMAIN results
    BY <1>10 DEF go, SearchInv
  <2>2. Index[results[i + 1]] \in Records
    BY <2>1, SearchAssumption
  <2>3. PICK rec \in Records : setHash(buildHash("docs", rec.file, rec.headingId))
    BY <1>10, <2>2 DEF go
  <2>4. buildHash("docs", rec.file, rec.headingId) \in Hashes
    BY BuildHashType DEF Records
  <2>5. events < MaxEvents
    BY <1>10 DEF go
  <2> QED BY <1>0, <2>3, <2>4, <2>5, SetHashKeeps
<1>11. CASE toggleTheme \/ toggleSidebar \/ openDiagramViewer \/ closeDiagramViewer
  BY <1>2, <1>11 DEF toggleTheme, toggleSidebar, openDiagramViewer, closeDiagramViewer
<1>12. CASE User
  BY <1>5, <1>6, <1>7, <1>8, <1>9, <1>11, <1>12 DEF User
<1>13. CASE Background
  <2>1. CASE NavFailed
    BY <1>2, <2>1 DEF NavFailed
  <2>2. ASSUME NEW k \in 1..Len(loads), RenderPage(k) \/ LoadFailed(k) PROVE Goal
    BY <1>2, <2>2 DEF RenderPage, LoadFailed
  <2>3. ASSUME NEW l \in Libs, LibLoaded(l) \/ LibFailed(l) PROVE Goal
    BY <1>2, <2>3 DEF LibLoaded, LibFailed
  <2>4. ASSUME NEW ok \in BOOLEAN, DiagramsDrawn(ok) PROVE Goal
    BY <1>2, <2>4 DEF DiagramsDrawn
  <2> QED BY <1>3, <1>4, <1>13, <2>1, <2>2, <2>3, <2>4 DEF Background, PageAnswer
<1>14. CASE Search
  <2>1. CASE UNCHANGED docsVars
    BY <1>2, <2>1 DEF docsVars
  <2>2. ASSUME NEW q \in Queries, runSearch(q) PROVE Goal
    BY <2>1, <2>2 DEF runSearch
  <2>3. ASSUME NEW ok \in BOOLEAN, IndexArrives(ok) PROVE Goal
    BY <2>1, <2>3 DEF IndexArrives
  <2>4. CASE openPalette \/ closePalette \/ arrowDown \/ arrowUp
    BY <2>1, <2>4 DEF openPalette, closePalette, arrowDown, arrowUp
  <2>5. CASE escapeKey
    BY <1>11, <2>1, <2>5 DEF escapeKey
  <2>6. CASE enterKey \/ rowClick
    BY <1>10, <2>6 DEF enterKey, rowClick
  <2> QED BY <1>14, <2>2, <2>3, <2>4, <2>5, <2>6 DEF Search
<1>15. CASE UNCHANGED vars
  BY <1>2, <1>15 DEF vars, docsVars
<1> QED BY <1>12, <1>13, <1>14, <1>15 DEF Next

\* Whoever closes the drawer or the viewer unlocks the body, whoever locks it
\* is open (handleSidebarClick, toggleSidebar, the diagram overlay).
LEMMA LockKeeps ==
  ASSUME ShellInv, [Next]_vars
  PROVE  /\ drawer' \in BOOLEAN /\ viewer' \in BOOLEAN /\ locked' \in BOOLEAN
         /\ LockHasOwner'
<1> DEFINE Goal == /\ drawer' \in BOOLEAN /\ viewer' \in BOOLEAN /\ locked' \in BOOLEAN
                   /\ LockHasOwner'
<1>0. /\ mobile \in BOOLEAN /\ drawer \in BOOLEAN /\ viewer \in BOOLEAN /\ locked \in BOOLEAN
      /\ (locked => drawer \/ viewer)
  BY DEF ShellInv, LockHasOwner
<1>1. CASE UNCHANGED shellVars
  BY <1>0, <1>1, Zenon DEF LockHasOwner, shellVars
<1>2. ASSUME NEW d \in Docs, handleSidebarClick(d) PROVE Goal
  <2>1. /\ drawer' = (drawer /\ ~(mobile /\ drawer)) /\ locked' = (locked /\ ~(mobile /\ drawer))
        /\ viewer' = viewer /\ (mobile => drawer)
    BY <1>2 DEF handleSidebarClick
  <2>2. CASE mobile
    <3>1. drawer' = FALSE /\ locked' = FALSE
      BY <2>1, <2>2, Zenon
    <3> QED BY <1>0, <2>1, <3>1, Zenon DEF LockHasOwner
  <2>3. CASE ~mobile
    <3>1. drawer' = drawer /\ locked' = locked
      BY <1>0, <2>1, <2>3, Zenon
    <3> QED BY <1>0, <2>1, <3>1, Zenon DEF LockHasOwner
  <2> QED BY <2>2, <2>3
<1>3. CASE toggleSidebar
  BY <1>0, <1>3, Zenon DEF toggleSidebar, LockHasOwner
<1>4. CASE openDiagramViewer
  BY <1>0, <1>4, Zenon DEF openDiagramViewer, LockHasOwner
<1>5. CASE closeDiagramViewer
  BY <1>0, <1>5, Zenon DEF closeDiagramViewer, LockHasOwner
<1>6. CASE Background
  <2>1. CASE NavLoaded \/ NavFailed \/ hashchange
    BY <1>1, <2>1 DEF NavLoaded, NavFailed, hashchange
  <2>2. ASSUME NEW k \in 1..Len(loads), RenderPage(k) \/ LoadFailed(k) PROVE Goal
    BY <1>1, <2>2 DEF RenderPage, LoadFailed
  <2>3. ASSUME NEW l \in Libs, LibLoaded(l) \/ LibFailed(l) PROVE Goal
    BY <1>1, <2>3 DEF LibLoaded, LibFailed
  <2>4. ASSUME NEW ok \in BOOLEAN, DiagramsDrawn(ok) PROVE Goal
    BY <1>1, <2>4 DEF DiagramsDrawn
  <2> QED BY <1>6, <2>1, <2>2, <2>3, <2>4 DEF Background, PageAnswer
<1>7. CASE User
  <2>1. ASSUME NEW view \in Views, tabClick(view) PROVE Goal
    BY <1>1, <2>1 DEF tabClick
  <2>2. ASSUME NEW s \in SectionIds, tocClick(s) \/ anchorClick(s) PROVE Goal
    BY <1>1, <2>2 DEF tocClick, anchorClick, Navigate, setHash
  <2>3. ASSUME NEW h \in Hashes, Navigate(h) PROVE Goal
    BY <1>1, <2>3 DEF Navigate, setHash
  <2>4. CASE toggleTheme
    BY <1>1, <2>4 DEF toggleTheme
  <2> QED BY <1>2, <1>3, <1>4, <1>5, <1>7, <2>1, <2>2, <2>3, <2>4 DEF User
<1>8. CASE Search
  <2>1. CASE UNCHANGED docsVars
    BY <1>1, <2>1 DEF docsVars
  <2>2. ASSUME NEW q \in Queries, runSearch(q) PROVE Goal
    BY <2>1, <2>2 DEF runSearch
  <2>3. ASSUME NEW ok \in BOOLEAN, IndexArrives(ok) PROVE Goal
    BY <2>1, <2>3 DEF IndexArrives
  <2>4. CASE openPalette \/ closePalette \/ arrowDown \/ arrowUp
    BY <2>1, <2>4 DEF openPalette, closePalette, arrowDown, arrowUp
  <2>5. CASE escapeKey
    BY <1>5, <2>1, <2>5 DEF escapeKey
  <2>6. CASE enterKey \/ rowClick
    BY <1>1, <2>6 DEF enterKey, rowClick, go, setHash
  <2> QED BY <1>8, <2>2, <2>3, <2>4, <2>5, <2>6 DEF Search
<1>9. CASE UNCHANGED vars
  BY <1>1, <1>9 DEF vars, docsVars
<1> QED BY <1>6, <1>7, <1>8, <1>9 DEF Next

-----------------------------------------------------------------------------
(* The palette                                                             *)

\* Whatever is typed and pressed, the rows shown are the results of the query
\* typed, and the active row is one of them (runSearch, render, the keys).
LEMMA SearchKeeps ==
  ASSUME SearchInv, [Next]_vars
  PROVE  SearchInv'
<1>0. /\ results \in Seq(DOMAIN Index) /\ Len(results) \in Nat /\ active \in Int /\ active >= -1
      /\ query \in Queries
  BY DEF SearchInv
<1>1. CASE UNCHANGED searchVars
  BY <1>1 DEF SearchInv, searchVars
<1>2. ASSUME NEW q \in Queries, runSearch(q) PROVE SearchInv'
  <2>1. Best(q) \in Seq(DOMAIN Index)
    BY SearchAssumption, BestPlaces
  <2>2. /\ query' = q /\ UNCHANGED <<index, palette>>
        /\ results' \in {<<>>, Best(q)}
        /\ (results' # <<>> => q # <<>> /\ active' = 0)
        /\ active' \in {0, active}
        /\ shown' = (IF q = <<>> THEN <<>> ELSE results') /\ marked' = active'
    BY <1>2 DEF runSearch, render
  <2>3. results' \in Seq(DOMAIN Index) /\ active' \in Int /\ active' >= -1
    <3>1. <<>> \in Seq(DOMAIN Index)
      OBVIOUS
    <3>2. results' \in Seq(DOMAIN Index)
      BY <2>1, <2>2, <3>1
    <3>3. active' \in Int /\ active' >= -1
      BY <1>0, <2>2
    <3> QED BY <3>2, <3>3
  <2>4. results' # <<>> => active' \in 0..(Len(results') - 1)
    <3> SUFFICES ASSUME results' # <<>> PROVE active' \in 0..(Len(results') - 1)
      OBVIOUS
    <3>1. Len(results') \in Nat /\ Len(results') # 0 /\ active' = 0
      BY <2>2, <2>3
    <3> QED BY <3>1
  <2> QED BY <2>2, <2>3, <2>4 DEF SearchInv
<1>3. ASSUME NEW ok \in BOOLEAN, IndexArrives(ok) PROVE SearchInv'
  BY <1>3 DEF IndexArrives, SearchInv
<1>4. CASE openPalette
  BY <1>4, SearchAssumption DEF openPalette, SearchInv
<1>5. CASE closePalette \/ escapeKey
  BY <1>5 DEF closePalette, escapeKey, SearchInv
<1>6. ASSUME arrowDown \/ arrowUp PROVE SearchInv'
  <2>1. /\ UNCHANGED <<index, palette, query, results>> /\ marked' = active'
        /\ shown' = (IF query = <<>> THEN <<>> ELSE results)
    BY <1>6 DEF arrowDown, arrowUp, render
  <2>2. active' \in Int /\ active' >= -1
    BY <1>0, <1>6 DEF arrowDown, arrowUp
  <2>3. query # <<>> /\ results # <<>> => active' \in 0..(Len(results) - 1)
    <3> SUFFICES ASSUME query # <<>>, results # <<>>
                 PROVE  active' \in 0..(Len(results) - 1)
      OBVIOUS
    <3>1. active \in 0..(Len(results) - 1) /\ Len(results) # 0
      BY <1>0 DEF SearchInv
    <3> QED BY <1>0, <1>6, <3>1 DEF arrowDown, arrowUp
  <2> QED BY <2>1, <2>2, <2>3 DEF SearchInv
<1>7. ASSUME NEW i, go(i) PROVE SearchInv'
  BY <1>7 DEF go, SearchInv
<1>8. CASE Search
  BY <1>2, <1>3, <1>4, <1>5, <1>6, <1>7, <1>8 DEF Search, enterKey, rowClick
<1> QED BY <1>1, <1>8 DEF Next, vars

-----------------------------------------------------------------------------
(* The theorems                                                            *)

\* The inductive invariant holds in every reachable state.
THEOREM Invariance == Spec => []DocsInv
<1>1. Init => DocsInv
  <2> SUFFICES ASSUME Init PROVE DocsInv
    OBVIOUS
  <2> USE DEF Init, DocsInit
  <2>1. PageTypes
    BY DocsAssumption DEF PageTypes, Themes, Screens, Spinner, Fetches, LibStates,
       BlockStates, NoBlocks
  <2>2. Asking
    BY LibsAre DEF Asking, SidebarFollows, NoBlocks
  <2>3. Settling
    BY DEF Settling, SettledPageIsCurrent, Spinner
  <2>4. Fetching
    BY DEF Fetching, NoBlocks
  <2>5. DiagramsMatchTheme
    BY LibsAre DEF DiagramsMatchTheme, NoBlocks
  <2>6. ShellInv
    <3>1. events \in 0..MaxEvents /\ hash \in Hashes /\ currentView \in Views
      BY DocsAssumption DEF Views
    <3>2. mobile \in BOOLEAN /\ drawer \in BOOLEAN /\ viewer \in BOOLEAN /\ locked \in BOOLEAN
          /\ LockHasOwner
      BY Zenon DEF LockHasOwner
    <3> QED BY <3>1, <3>2 DEF ShellInv
  <2>7. SearchInv
    <3>1. results \in Seq(DOMAIN Index) /\ query \in Queries
      BY SearchAssumption
    <3>2. active \in Int /\ active >= -1
      <4>1. active = 0
        OBVIOUS
      <4> HIDE DEF Init, DocsInit
      <4> QED BY <4>1
    <3>3. palette \in BOOLEAN
      BY Zenon
    <3> QED BY <3>1, <3>2, <3>3 DEF SearchInv
  <2> QED BY <2>1, <2>2, <2>3, <2>4, <2>5, <2>6, <2>7 DEF DocsInv, PageInv
<1>2. DocsInv /\ [Next]_vars => DocsInv'
  <2> SUFFICES ASSUME DocsInv, [Next]_vars PROVE DocsInv'
    OBVIOUS
  <2>1. PageInv'
    BY PageInductive DEF DocsInv
  <2>2. ShellInv'
    BY LocationKeeps, LockKeeps DEF DocsInv, ShellInv
  <2>3. SearchInv'
    BY SearchKeeps DEF DocsInv
  <2> QED BY <2>1, <2>2, <2>3 DEF DocsInv
<1> QED BY <1>1, <1>2, PTL DEF Spec

\* The variables of both scripts always hold what they may; every hash the
\* scripts set can be read back by parseHash.
THEOREM TypeCorrect == Spec => []TypeOK
<1>1. DocsInv => TypeOK
  <2> SUFFICES ASSUME DocsInv PROVE TypeOK
    OBVIOUS
  <2>1. \A k \in DOMAIN loads : loads[k].doc \in Docs
    <3>1. loads \in Seq(Fetches)
      BY DEF DocsInv, PageInv, PageTypes
    <3>2. \A k \in DOMAIN loads : loads[k] \in Fetches
      BY <3>1
    <3> QED BY <3>2 DEF Fetches
  <2>2. screen.kind \in {"spinner", "page", "error", "navError"}
    BY DEF DocsInv, PageInv, PageTypes, Screens
  <2>3. \A l \in Libs : blocks[l] \in {"none", "waiting", "raw", "drawing", "done"}
    BY DEF DocsInv, PageInv, PageTypes, BlockStates
  <2> QED BY <2>1, <2>2, <2>3 DEF DocsInv, PageInv, PageTypes, ShellInv, SearchInv, TypeOK
<1> QED BY <1>1, Invariance, PTL

\* With answers in the order of the requests, the page left on screen is the
\* one asked for last, through any number of fetches (loadMarkdownDocs).
THEOREM LastPageSettles == Spec => []SettledPageIsCurrent
<1>1. DocsInv => SettledPageIsCurrent
  BY DEF DocsInv, PageInv, Settling
<1> QED BY <1>1, Invariance, PTL

\* The side bar marks the document asked for last, by whichever route.
THEOREM SidebarAlwaysFollows == Spec => []SidebarFollows
<1>1. DocsInv => SidebarFollows
  BY DEF DocsInv, PageInv, Asking
<1> QED BY <1>1, Invariance, PTL

\* Diagrams on screen are in the current theme (setupThemeToggle,
\* renderMermaidDiagrams).
THEOREM DiagramsFollowTheme == Spec => []DiagramsMatchTheme
<1>1. DocsInv => DiagramsMatchTheme
  BY DEF DocsInv, PageInv
<1> QED BY <1>1, Invariance, PTL

\* However many pages ask, a library has one script element under way, none
\* once it is there, and no block waits for nothing (ensureMermaid,
\* ensureHljs).
THEOREM LibrariesFetchedOnce == Spec => []LibraryFetchedOnce
<1>1. DocsInv => LibraryFetchedOnce
  <2> SUFFICES ASSUME DocsInv, NEW l \in Libs
               PROVE  /\ lib[l].pending <= 1
                      /\ lib[l].loaded => lib[l].pending = 0
                      /\ blocks[l] = "waiting" => lib[l].pending = 1
    BY DEF LibraryFetchedOnce
  <2>1. lib[l].pending \in {0, 1}
    BY DEF DocsInv, PageInv, PageTypes, LibStates
  <2>2. /\ lib[l].pending = 1 <=> lib[l].promise /\ ~lib[l].loaded
        /\ blocks[l] = "waiting" => lib[l].pending = 1
    BY DEF DocsInv, PageInv, Fetching
  <2> QED BY <2>1, <2>2
<1> QED BY <1>1, Invariance, PTL

\* The body is never left locked with drawer and viewer closed.
THEOREM LockAlwaysOwned == Spec => []LockHasOwner
<1>1. DocsInv => LockHasOwner
  BY DEF DocsInv, ShellInv
<1> QED BY <1>1, Invariance, PTL

\* Enter opens the row that is highlighted (go, render).
THEOREM EnterOpensMarked == Spec => []EnterOpensMarkedRow
<1>1. DocsInv => EnterOpensMarkedRow
  BY DEF DocsInv, SearchInv, EnterOpensMarkedRow
<1> QED BY <1>1, Invariance, PTL

\* For every index and query, the rows shown match the query, are sorted, and
\* leave out nothing better (score, runSearch).
THEOREM RowsAreBest == Spec => []BestRowsShown
<1>1. DocsInv => BestRowsShown
  <2> SUFFICES ASSUME DocsInv, shown # <<>> PROVE BestRowsShown
    BY DEF BestRowsShown
  <2>1. shown = Best(query) /\ query \in Seq(Terms) /\ Best(query) # <<>>
    BY SearchAssumption DEF DocsInv, SearchInv
  <2> QED BY <2>1, BestIsBest DEF BestRowsShown
<1> QED BY <1>1, Invariance, PTL
=============================================================================
