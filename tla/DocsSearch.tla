----------------------------- MODULE DocsSearch -----------------------------
(***************************************************************************)
(* The search palette, docs/ui/assets/search.js, beside the console of     *)
(* DocsApp.  The two scripts share the location hash: a result is opened   *)
(* by setting it, which app.js hears of as a hashchange event.             *)
(*                                                                         *)
(* The text of an index record is reduced to how often each term occurs in *)
(* its heading, its document's title and its body.                         *)
(***************************************************************************)
EXTENDS DocsApp

CONSTANTS
    Terms,          \* words, as the palette splits what is typed
    Index,          \* the records of search-index.json, in order
    Queries,        \* what may be typed: sequences of terms
    MaxResults      \* results kept, 30 in the code

Records == [file : Docs, headingId : SectionIds \cup {NoName},
            heading : SUBSET Terms, title : SUBSET Terms, hits : [Terms -> Nat]]

ASSUME SearchAssumption ==
    /\ Index \in Seq(Records)
    /\ Queries \subseteq Seq(Terms) /\ <<>> \in Queries
    /\ MaxResults \in Nat \ {0}

VARIABLES
    index,          \* INDEX and loading: "null", "loading", "loaded", "failed"
    palette,        \* the overlay is open
    query,          \* input.value
    results, active,
    shown, marked   \* the list as rendered, and its highlighted row

searchVars == <<index, palette, query, results, active, shown, marked>>
vars == <<docsVars, searchVars>>

-----------------------------------------------------------------------------
(* Ranking                                                                 *)

Min2(a, b) == IF a < b THEN a ELSE b

termScore(rec, t) ==
    (IF t \in rec.heading THEN 10 ELSE 0)
    + (IF t \in rec.title THEN 4 ELSE 0)
    + 2 * Min2(rec.hits[t], 5)

(* Every term must occur somewhere, else the record does not match.  The   *)
(* sum over the terms is counted point by point; a term earns 24 at most.  *)
score(rec, terms) ==
    IF \E i \in DOMAIN terms : termScore(rec, terms[i]) = 0 THEN 0
    ELSE Cardinality({p \in (DOMAIN terms) \X (1..24) : p[2] <= termScore(rec, terms[p[1]])})

scores(q) == [i \in DOMAIN Index |-> score(Index[i], q)]

(* The records before record i: by falling score, in index order among     *)
(* equals (the sort is stable).                                            *)
ahead(sc, i) == {j \in DOMAIN Index : sc[j] > sc[i] \/ (sc[j] = sc[i] /\ j < i)}

(* Mutant: the list is cut before it is sorted.                            *)
Best_cutFirst(q) ==
    LET sc == scores(q)
        scored == {i \in DOMAIN Index : sc[i] > 0}
        kept == {i \in scored : Cardinality({j \in scored : j < i}) < MaxResults}
    IN [k \in 1..Cardinality(kept) |->
           CHOOSE i \in kept : Cardinality(ahead(sc, i) \cap kept) = k - 1]

(* The matching records, sorted, and no more than the palette keeps: row k *)
(* is the record with k - 1 others before it.                              *)
Best(q) ==
    LET sc == scores(q)
        scored == {i \in DOMAIN Index : sc[i] > 0}
    IN [k \in 1..Min2(MaxResults, Cardinality(scored)) |->
           CHOOSE i \in scored : Cardinality(ahead(sc, i)) = k - 1]

-----------------------------------------------------------------------------
(* The list for results res and row act: empty for an empty query, and for *)
(* no results (the message "No results").                                  *)
render(q, res, act) ==
    /\ shown' = IF q = <<>> THEN <<>> ELSE res
    /\ marked' = act

(* Mutant: the active row survives a new search.                           *)
runSearch_keepActive(q) ==
    /\ palette
    /\ query' = q
    /\ results' = IF q # <<>> /\ index = "loaded" THEN Best(q) ELSE <<>>
    /\ render(q, results', active)
    /\ UNCHANGED <<index, palette, active, docsVars>>

(* Typing.  Without terms or without an index there are no results, and    *)
(* the active row is not reset.                                            *)
runSearch(q) ==
    LET searches == q # <<>> /\ index \in {"loaded", "failed"} IN
    /\ palette
    /\ query' = q
    /\ results' = IF searches /\ index = "loaded" THEN Best(q) ELSE <<>>
    /\ active' = IF searches THEN 0 ELSE active
    /\ render(q, results', active')
    /\ UNCHANGED <<index, palette, docsVars>>

(* The index is fetched once; a failed fetch leaves an empty one for good. *)
IndexArrives(ok) ==
    /\ index = "loading"
    /\ index' = IF ok THEN "loaded" ELSE "failed"
    /\ UNCHANGED <<palette, query, results, active, shown, marked, docsVars>>

(* The button, Ctrl-K and "/": input and list are cleared, the results and *)
(* the active row are not.                                                 *)
openPalette ==
    /\ palette' = TRUE
    /\ query' = <<>>
    /\ shown' = <<>>
    /\ index' = IF index = "null" THEN "loading" ELSE index
    /\ UNCHANGED <<results, active, marked, docsVars>>

(* A click beside the box, or Ctrl-K again.                                *)
closePalette ==
    /\ palette
    /\ palette' = FALSE
    /\ UNCHANGED <<index, query, results, active, shown, marked, docsVars>>

(* Escape reaches the listeners of both scripts.                           *)
escapeKey ==
    /\ palette
    /\ palette' = FALSE
    /\ IF viewer THEN closeDiagramViewer ELSE UNCHANGED docsVars
    /\ UNCHANGED <<index, query, results, active, shown, marked>>

arrowDown ==
    /\ palette
    /\ active' = IF active + 1 < Len(results) THEN active + 1 ELSE Len(results) - 1
    /\ render(query, results, active')
    /\ UNCHANGED <<index, palette, query, results, docsVars>>

arrowUp ==
    /\ palette
    /\ active' = IF active > 0 THEN active - 1 ELSE 0
    /\ render(query, results, active')
    /\ UNCHANGED <<index, palette, query, results, docsVars>>

(* Enter or a click on row i: the palette closes and the hash is set.      *)
go(i) ==
    /\ palette
    /\ i \in 0..(Len(results) - 1)
    /\ events < MaxEvents
    /\ palette' = FALSE
    /\ LET rec == Index[results[i + 1]] IN setHash(buildHash("docs", rec.file, rec.headingId))
    /\ UNCHANGED <<index, query, results, active, shown, marked>>

enterKey == go(active)
rowClick == \E i \in 0..(Len(shown) - 1) : go(i)

-----------------------------------------------------------------------------
Init ==
    /\ DocsInit
    /\ index = "null" /\ palette = FALSE
    /\ query = <<>> /\ results = <<>> /\ active = 0
    /\ shown = <<>> /\ marked = 0

Search ==
    \/ \E q \in Queries : runSearch(q)
    \/ \E ok \in BOOLEAN : IndexArrives(ok)
    \/ openPalette
    \/ closePalette
    \/ escapeKey
    \/ arrowDown
    \/ arrowUp
    \/ enterKey
    \/ rowClick

Next ==
    \/ (Background \/ User) /\ UNCHANGED searchVars
    \/ Search

(* Fairness is the browser's: a fetch under way is answered or fails, and  *)
(* a queued event is handled (strongly fair, since the bound MaxInFlight,  *)
(* which the code does not have, may disable its handler for a while).     *)
(* Nothing is assumed of the user.                                         *)
Fairness ==
    /\ WF_vars(PageAnswer /\ UNCHANGED searchVars)
    /\ WF_vars((NavLoaded \/ NavFailed) /\ UNCHANGED searchVars)
    /\ SF_vars(hashchange /\ UNCHANGED searchVars)

Spec == Init /\ [][Next]_vars /\ Fairness

-----------------------------------------------------------------------------
(* Properties                                                              *)

(* The variables of both scripts hold what they may.                       *)
TypeOK ==
    /\ mobile \in BOOLEAN /\ hash \in Hashes /\ events \in 0..MaxEvents
    /\ nav \in {"loading", "ready", "failed"}
    /\ currentView \in Views
    /\ currentDoc \in Docs \cup {NoName} /\ side \in Docs \cup {NoName}
    /\ screen.kind \in {"spinner", "page", "error", "navError"}
    /\ \A k \in DOMAIN loads : loads[k].doc \in Docs
    /\ toc \in LongDocs \cup {NoName}
    /\ \A l \in Libs : blocks[l] \in {"none", "waiting", "raw", "drawing", "done"}
    /\ index \in {"null", "loading", "loaded", "failed"}
    /\ query \in Queries

(* When no fetch is under way, the page displayed is the one asked for     *)
(* last (currentDoc, which the theme button reloads), provided the answers *)
(* came in the order of the requests (app.js 595-619 does not check).      *)
SettledPageIsCurrent ==
    loads = <<>> /\ screen.kind = "page" /\ ~screen.late => screen.doc = currentDoc

(* The side bar marks the document asked for last, whichever of the three  *)
(* routes asked for it: a click, the hash at start, a hashchange.          *)
SidebarFollows == currentDoc # NoName => side = currentDoc

(* Diagrams on screen have the colours of the current theme, also when the *)
(* theme was switched while the page or the library was on its way.        *)
DiagramsMatchTheme == blocks["mermaid"] \in {"drawing", "done"} => drawn = theme

(* However pages and script answers interleave, a library is never asked   *)
(* for while it is on its way or once it is there, and no block waits for  *)
(* a library nobody is fetching.                                           *)
LibraryFetchedOnce ==
    \A l \in Libs :
        /\ lib[l].pending <= 1
        /\ lib[l].loaded => lib[l].pending = 0
        /\ blocks[l] = "waiting" => lib[l].pending = 1

(* The body is only locked against scrolling while the drawer or the       *)
(* diagram viewer is open: no way of closing them forgets to unlock.       *)
LockHasOwner == locked => drawer \/ viewer

(* Enter opens the row that is highlighted: while rows are shown they are  *)
(* the results, and the active row is one of them and is the marked one.   *)
EnterOpensMarkedRow ==
    shown # <<>> => shown = results /\ active \in 0..(Len(results) - 1) /\ marked = active

(* The rows shown match the query typed and are the best ones: each has    *)
(* every term, they come by falling score, and a record left out has no    *)
(* higher score than the last row of a full list.                          *)
BestRowsShown ==
    LET sc == scores(query) IN
    shown # <<>> =>
        /\ \A k \in DOMAIN shown : \A t \in Range(query) : termScore(Index[shown[k]], t) > 0
        /\ \A j, k \in DOMAIN shown : j < k => sc[shown[j]] >= sc[shown[k]]
        /\ \A i \in DOMAIN Index \ Range(shown) :
               sc[i] > 0 => Len(shown) = MaxResults /\ sc[i] <= sc[Last(shown)]

(* A spinner put up for a page goes away: the page or an error follows.    *)
SpinnerEnds ==
    (screen.kind = "spinner" /\ currentDoc # NoName) ~> (screen.kind # "spinner")

(* A hash that names a document is followed: once its event is queued, the *)
(* document is asked for, unless the hash changes again or the navigation  *)
(* never loads.                                                            *)
HashIsFollowed ==
    \A d \in Docs :
        (events > 0 /\ parseHash(hash).doc = d)
            ~> (currentDoc = d \/ parseHash(hash).doc # d \/ nav = "failed")
=============================================================================
