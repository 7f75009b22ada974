------------------------------- MODULE MCDocs -------------------------------
EXTENDS DocsSearch, TLC
CONSTANTS intro, flow, gone, sec, none

(* Two pages: one with diagrams, one with code.                            *)
MCPages == {intro, flow}
MCBlocks == [l \in {"mermaid", "hljs"} |-> IF l = "mermaid" THEN {flow} ELSE {intro}]
MCRec(f, s, h, t, n) == [file |-> f, headingId |-> s, heading |-> h, title |-> t, hits |-> n]
MCIndex == <<MCRec(intro, none, {}, {"a"}, ("a" :> 1 @@ "b" :> 0)),
             MCRec(flow, none, {"a"}, {}, ("a" :> 0 @@ "b" :> 7)),
             MCRec(flow, sec, {"b"}, {"a"}, ("a" :> 6 @@ "b" :> 1))>>
MCQueries == {<<>>, <<"a">>, <<"b", "a">>}

(* A visit either reads, with every control of the page, or searches: it   *)
(* uses the palette and the diagram viewer while pages and libraries load. *)
VARIABLE interest

MCInit ==
    /\ Init
    /\ interest \in {"reading", "searching"}
    /\ interest = "searching" => ~mobile /\ theme = "dark" /\ hash = <<>>

MCNext ==
    /\ Next
    /\ UNCHANGED interest
    /\ interest = "reading" => UNCHANGED searchVars
    /\ interest = "searching" =>
           /\ UNCHANGED theme
           /\ hash' # hash => palette' # palette

MCSpec == MCInit /\ [][MCNext]_<<vars, interest>> /\ Fairness
=============================================================================
