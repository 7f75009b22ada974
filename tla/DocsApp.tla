------------------------------ MODULE DocsApp ------------------------------
(***************************************************************************)
(* The documentation console, docs/ui/assets/app.js: routing by the        *)
(* location hash, pages fetched in the background, libraries loaded only   *)
(* when a page needs them, theme switch, side bar drawer and full-screen   *)
(* diagram viewer.                                                         *)
(*                                                                         *)
(* JavaScript runs one task at a time: an action is one event handler, or  *)
(* what follows an await, up to the next await.  Between two of them the   *)
(* user and the network may do anything.                                   *)
(*                                                                         *)
(* The hash is a sequence of its colon-separated parts; rendered content   *)
(* is reduced to the name of its page, and scrolling is left out.          *)
(***************************************************************************)
EXTENDS Naturals, Sequences, SequencesExt, FiniteSets

CONSTANTS
    Docs,           \* files of the links in nav.json
    DefaultDoc,     \* nav.json's defaultDoc, also its first link
    Unknown,        \* a name in a hash that no link has
    SectionIds,     \* heading ids
    NoName,         \* null: no doc, no section
    Blocks,         \* library -> the docs with a block it decorates
    LongDocs,       \* docs with at least two headings
    MaxInFlight,    \* bound: page fetches under way
    MaxEvents       \* bound: hashchange events not yet handled

ASSUME DocsAssumption ==
    /\ DefaultDoc \in Docs
    /\ Unknown \notin Docs /\ NoName \notin Docs \cup {Unknown} \cup SectionIds
    /\ Blocks \in [{"mermaid", "hljs"} -> SUBSET Docs]
    /\ LongDocs \subseteq Docs
    /\ MaxInFlight \in Nat \ {0} /\ MaxEvents \in Nat \ {0}

VARIABLES
    mobile,         \* window.innerWidth <= 768, fixed for a visit
    hash,           \* window.location.hash
    events,         \* hashchange events waiting for their handler
    nav,            \* DOCS_CONFIG: "loading", "ready" or "failed"
    currentView, currentDoc,
    side,           \* the side bar link marked active
    screen,         \* what #markdown-content shows
    loads,          \* page fetches under way, oldest first
    toc,            \* the doc whose table of contents is displayed
    theme,
    lib,            \* per library: script elements pending, promise, loaded
    blocks,         \* per library: its blocks of the page on screen
    drawn,          \* the theme the diagrams on screen were drawn with
    drawer, viewer, locked  \* side bar open, diagram overlay open, body overflow hidden

pageVars == <<currentDoc, screen, loads, toc, lib, blocks, drawn>>
shellVars == <<drawer, viewer, locked>>
docsVars == <<mobile, hash, events, nav, currentView, side, theme, pageVars, shellVars>>

Libs == DOMAIN Blocks
Views == {"docs", "api"}
Hashes == {<<>>, <<"api">>}
          \cup {<<"docs", d>> : d \in Docs \cup {Unknown}}
          \cup {<<"docs", d, s>> : d \in Docs, s \in SectionIds}
          \cup {<<d>> : d \in Docs}

-----------------------------------------------------------------------------
(* Hash routing                                                            *)

(* What a hash names: a view prefix, or the old form without one.          *)
parseHash(h) ==
    LET parts == IF h # <<>> /\ h[1] = "docs" THEN Tail(h) ELSE h
        part(i) == IF i <= Len(parts) THEN parts[i] ELSE NoName
    IN IF h = <<"api">>
       THEN [view |-> "api", doc |-> NoName, section |-> NoName]
       ELSE [view |-> "docs", doc |-> part(1), section |-> part(2)]

(* Mutant: a section hides the document.                                   *)
buildHash_sectionOnly(view, doc, section) ==
    IF section # NoName THEN <<"docs", section>>
    ELSE IF view = "api" THEN <<"api">>
    ELSE IF doc # NoName THEN <<"docs", doc>> ELSE <<>>

buildHash(view, doc, section) ==
    IF view = "api" THEN <<"api">>
    ELSE IF section # NoName THEN <<"docs", doc, section>>
    ELSE IF doc # NoName THEN <<"docs", doc>> ELSE <<>>

(* The links known so far: none before nav.json has arrived.               *)
Links == IF nav = "ready" THEN Docs ELSE {}

-----------------------------------------------------------------------------
(* Libraries loaded on demand                                              *)

(* Mutant: the pending promise is not shared.                              *)
ensureLib_noPromise(l) ==
    IF lib[l].loaded THEN lib[l]
    ELSE [lib[l] EXCEPT !.promise = TRUE, !.pending = @ + 1]

(* ensureMermaid, ensureHljs: one script element however many pages ask.   *)
ensureLib(l) ==
    IF lib[l].loaded \/ lib[l].promise THEN lib[l]
    ELSE [lib[l] EXCEPT !.promise = TRUE, !.pending = @ + 1]

(* The state of a page's blocks once its renderer has asked for library l: *)
(* a loaded library answers at once, diagrams are then drawn in the        *)
(* background.                                                             *)
Decorated(l) == IF l = "mermaid" THEN "drawing" ELSE "done"
askedFor(l, d) ==
    IF d \notin Blocks[l] THEN "none"
    ELSE IF lib[l].loaded THEN Decorated(l) ELSE "waiting"

(* A script arrives: every renderer that waits continues.  mermaid is      *)
(* initialised with the theme of this moment.                              *)
LibLoaded(l) ==
    /\ lib[l].pending > 0
    /\ lib' = [lib EXCEPT ![l].pending = @ - 1, ![l].loaded = TRUE]
    /\ blocks' = [blocks EXCEPT ![l] = IF @ = "waiting" THEN Decorated(l) ELSE @]
    /\ drawn' = IF l = "mermaid" /\ blocks[l] = "waiting" THEN theme ELSE drawn
    /\ UNCHANGED <<mobile, hash, events, nav, currentView, side, theme,
                   currentDoc, screen, loads, toc, shellVars>>

(* A script fails: its promise is forgotten, so that the next page asks    *)
(* again, and the blocks of this page stay as they are.                    *)
LibFailed(l) ==
    /\ lib[l].pending > 0
    /\ lib' = [lib EXCEPT ![l].pending = @ - 1, ![l].promise = FALSE]
    /\ blocks' = [blocks EXCEPT ![l] = IF @ = "waiting" THEN "raw" ELSE @]
    /\ UNCHANGED <<mobile, hash, events, nav, currentView, side, theme,
                   currentDoc, screen, loads, toc, drawn, shellVars>>

(* mermaid.run ends: the diagrams get their zoom button, or stay as text.  *)
DiagramsDrawn(ok) ==
    /\ blocks["mermaid"] = "drawing"
    /\ blocks' = [blocks EXCEPT !["mermaid"] = IF ok THEN "done" ELSE "raw"]
    /\ UNCHANGED <<mobile, hash, events, nav, currentView, side, theme,
                   currentDoc, screen, loads, toc, lib, drawn, shellVars>>

-----------------------------------------------------------------------------
(* Pages                                                                   *)

NoBlocks == [l \in Libs |-> "none"]
Spinner == [kind |-> "spinner", doc |-> NoName, late |-> FALSE]

(* Mutant: the document asked for is not recorded.                         *)
loadMarkdownDocs_notCurrent(d) ==
    /\ Len(loads) < MaxInFlight
    /\ screen' = Spinner
    /\ blocks' = NoBlocks
    /\ loads' = Append(loads, [doc |-> d, passed |-> FALSE])
    /\ UNCHANGED <<currentDoc, toc, lib, drawn>>

(* loadMarkdownDocs up to its await: nothing of the old page stays but its *)
(* table of contents.                                                      *)
loadMarkdownDocs(d) ==
    /\ Len(loads) < MaxInFlight
    /\ currentDoc' = d
    /\ screen' = Spinner
    /\ blocks' = NoBlocks
    /\ loads' = Append(loads, [doc |-> d, passed |-> FALSE])
    /\ UNCHANGED <<toc, lib, drawn>>

(* "passed" is history: a fetch started later has been answered before.    *)
Answered(k) ==
    [i \in 1..(Len(loads) - 1) |->
        IF i < k THEN [loads[i] EXCEPT !.passed = TRUE] ELSE loads[i + 1]]

(* The table of contents is rebuilt; a page with few headings has none.    *)
buildTableOfContents(d) == toc' = IF d \in LongDocs THEN d ELSE NoName

(* The markdown arrives and is rendered; the renderers ask for their       *)
(* libraries.  Nothing looks at whether another page was asked for since.  *)
RenderPage(k) ==
    LET d == loads[k].doc IN
    /\ screen' = [kind |-> "page", doc |-> d, late |-> loads[k].passed]
    /\ loads' = Answered(k)
    /\ lib' = [l \in Libs |-> IF d \in Blocks[l] THEN ensureLib(l) ELSE lib[l]]
    /\ blocks' = [l \in Libs |-> askedFor(l, d)]
    /\ drawn' = IF blocks'["mermaid"] = "drawing" THEN theme ELSE drawn
    /\ buildTableOfContents(d)
    /\ UNCHANGED <<mobile, hash, events, nav, currentView, currentDoc, side,
                   theme, shellVars>>

(* Mutant: a failed fetch displays nothing.                                *)
LoadFailed_silent(k) ==
    /\ loads' = Answered(k)
    /\ UNCHANGED <<mobile, hash, events, nav, currentView, currentDoc, side,
                   theme, screen, toc, lib, blocks, drawn, shellVars>>

(* The fetch fails: an error page, and the table of contents as it was.    *)
LoadFailed(k) ==
    /\ screen' = [kind |-> "error", doc |-> NoName, late |-> loads[k].passed]
    /\ loads' = Answered(k)
    /\ blocks' = NoBlocks
    /\ UNCHANGED <<mobile, hash, events, nav, currentView, currentDoc, side,
                   theme, toc, lib, drawn, shellVars>>

PageAnswer == \E k \in 1..Len(loads) : RenderPage(k) \/ LoadFailed(k)

switchToView(view) == currentView' = view

-----------------------------------------------------------------------------
(* Start of the page                                                       *)

(* nav.json arrives: the side bar and the first page.  An unknown doc in   *)
(* the hash gives the default one; on a phone the API view is replaced.    *)
NavLoaded ==
    LET asked == parseHash(hash)
        redirect == mobile /\ asked.view = "api"
        start == IF asked.doc \in Docs THEN asked.doc ELSE DefaultDoc
    IN
    /\ nav = "loading"
    /\ nav' = "ready"
    /\ hash' = IF redirect THEN buildHash("docs", DefaultDoc, NoName) ELSE hash
    /\ switchToView(IF redirect THEN "docs" ELSE asked.view)
    /\ side' = start
    /\ IF currentView' = "docs" THEN loadMarkdownDocs(start) ELSE UNCHANGED pageVars
    /\ UNCHANGED <<mobile, events, theme, shellVars>>

(* It does not: no side bar, no tabs, only a message.                      *)
NavFailed ==
    /\ nav = "loading"
    /\ nav' = "failed"
    /\ screen' = [kind |-> "navError", doc |-> NoName, late |-> FALSE]
    /\ UNCHANGED <<mobile, hash, events, currentView, currentDoc, side, theme,
                   loads, toc, lib, blocks, drawn, shellVars>>

-----------------------------------------------------------------------------
(* The user                                                                *)

(* Mutant: closing the drawer does not unlock the body.                    *)
handleSidebarClick_noUnlock(d) ==
    /\ nav = "ready"
    /\ mobile => drawer
    /\ side' = d
    /\ hash' = buildHash("docs", d, NoName)
    /\ currentView' = "docs"
    /\ loadMarkdownDocs(d)
    /\ drawer' = (drawer /\ ~mobile)
    /\ UNCHANGED <<mobile, events, nav, theme, viewer, locked>>

(* A link of the side bar, which a phone shows only in the open drawer.    *)
handleSidebarClick(d) ==
    LET closes == mobile /\ drawer IN
    /\ nav = "ready"
    /\ mobile => drawer
    /\ side' = d
    /\ hash' = buildHash("docs", d, NoName)
    /\ switchToView("docs")
    /\ loadMarkdownDocs(d)
    /\ drawer' = (drawer /\ ~closes)
    /\ locked' = (locked /\ ~closes)
    /\ UNCHANGED <<mobile, events, nav, theme, viewer>>

(* The tabs, which a phone hides: only the view and the hash change.       *)
tabClick(view) ==
    /\ nav = "ready" /\ ~mobile
    /\ hash' = LET doc == parseHash(hash).doc IN
               IF view = "api" THEN buildHash("api", NoName, NoName)
               ELSE buildHash("docs", IF doc # NoName THEN doc ELSE DefaultDoc, NoName)
    /\ switchToView(view)
    /\ UNCHANGED <<mobile, events, nav, side, theme, pageVars, shellVars>>

(* An entry of the table of contents: the hash is pushed, no event fires.  *)
tocClick(s) ==
    /\ toc # NoName
    /\ hash' = buildHash("docs", toc, s)
    /\ UNCHANGED <<mobile, events, nav, currentView, side, theme, pageVars, shellVars>>

(* A new hash is announced by an event, the same one is not.               *)
setHash(h) ==
    /\ hash' = h
    /\ events' = IF h = hash THEN events ELSE events + 1
    /\ UNCHANGED <<mobile, nav, currentView, side, theme, pageVars, shellVars>>


(* The address bar, the back button, a link in a page.                     *)
Navigate(h) == events < MaxEvents /\ setHash(h)

(* A heading's anchor.  addHeadingAnchors returns the HTML of the headings *)
(* it has worked on, so that the listener is lost and the link is followed *)
(* by the browser.                                                         *)
anchorClick(s) ==
    /\ screen.kind = "page"
    /\ Navigate(buildHash("docs", screen.doc, s))

(* Mutant: the side bar is not updated.                                    *)
hashchange_keepSide ==
    LET asked == parseHash(hash) IN
    /\ events > 0
    /\ events' = events - 1
    /\ currentView' = asked.view
    /\ IF asked.doc \in Links THEN loadMarkdownDocs(asked.doc) ELSE UNCHANGED pageVars
    /\ UNCHANGED <<mobile, hash, nav, side, theme, shellVars>>

(* Mutant: only the view is switched.                                      *)
hashchange_viewOnly ==
    /\ events > 0
    /\ events' = events - 1
    /\ currentView' = parseHash(hash).view
    /\ UNCHANGED <<mobile, hash, nav, side, theme, pageVars, shellVars>>

(* The handler of hashchange reads the hash of the moment it runs.  Before *)
(* nav.json has arrived there is no default page and replaceState is given *)
(* the empty string, which leaves the URL as it is.                        *)
hashchange ==
    LET asked == parseHash(hash)
        redirect == mobile /\ asked.view = "api"
        known == asked.view = "docs" /\ asked.doc \in Links
    IN
    /\ events > 0
    /\ events' = events - 1
    /\ hash' = IF redirect /\ nav = "ready" THEN buildHash("docs", DefaultDoc, NoName) ELSE hash
    /\ IF redirect THEN UNCHANGED currentView ELSE switchToView(asked.view)
    /\ side' = IF known THEN asked.doc ELSE side
    /\ IF known THEN loadMarkdownDocs(asked.doc) ELSE UNCHANGED pageVars
    /\ UNCHANGED <<mobile, nav, theme, shellVars>>

(* Mutant: the page is not loaded again.                                   *)
toggleTheme_noReload ==
    /\ theme' = IF theme = "dark" THEN "light" ELSE "dark"
    /\ UNCHANGED <<mobile, hash, events, nav, currentView, side, pageVars, shellVars>>

(* The theme button: the current page is loaded again so that its diagrams *)
(* take the new theme.                                                     *)
toggleTheme ==
    /\ theme' = IF theme = "dark" THEN "light" ELSE "dark"
    /\ IF currentDoc # NoName THEN loadMarkdownDocs(currentDoc) ELSE UNCHANGED pageVars
    /\ UNCHANGED <<mobile, hash, events, nav, currentView, side, shellVars>>

(* The menu button and the overlay behind the drawer, on a phone only.     *)
toggleSidebar ==
    /\ mobile
    /\ drawer' = ~drawer
    /\ locked' = drawer'
    /\ UNCHANGED <<mobile, hash, events, nav, currentView, side, theme, pageVars, viewer>>

(* The zoom button of a drawn diagram; the overlay shows a copy of it.     *)
openDiagramViewer ==
    /\ blocks["mermaid"] = "done"
    /\ viewer' = TRUE /\ locked' = TRUE
    /\ UNCHANGED <<mobile, hash, events, nav, currentView, side, theme, pageVars, drawer>>

closeDiagramViewer ==
    /\ viewer
    /\ viewer' = FALSE /\ locked' = FALSE
    /\ UNCHANGED <<mobile, hash, events, nav, currentView, side, theme, pageVars, drawer>>

-----------------------------------------------------------------------------
DocsInit ==
    /\ mobile \in BOOLEAN
    /\ hash \in Hashes
    /\ events = 0
    /\ nav = "loading"
    /\ currentView = "docs" /\ currentDoc = NoName
    /\ side = NoName
    /\ screen = Spinner
    /\ loads = <<>>
    /\ toc = NoName
    /\ theme \in {"dark", "light"}
    /\ lib = [l \in Libs |-> [pending |-> 0, promise |-> FALSE, loaded |-> FALSE]]
    /\ blocks = NoBlocks
    /\ drawn = "dark"
    /\ drawer = FALSE /\ viewer = FALSE /\ locked = FALSE

(* What the network and the browser do by themselves.                      *)
Background ==
    \/ NavLoaded
    \/ NavFailed
    \/ PageAnswer
    \/ \E l \in Libs : LibLoaded(l) \/ LibFailed(l)
    \/ \E ok \in BOOLEAN : DiagramsDrawn(ok)
    \/ hashchange

(* What the user does in the page.                                         *)
User ==
    \/ \E d \in Docs : handleSidebarClick(d)
    \/ \E view \in Views : tabClick(view)
    \/ \E s \in SectionIds : tocClick(s) \/ anchorClick(s)
    \/ \E h \in Hashes : Navigate(h)
    \/ toggleTheme
    \/ toggleSidebar
    \/ openDiagramViewer
    \/ closeDiagramViewer
=============================================================================
