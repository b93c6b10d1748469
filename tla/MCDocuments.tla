---------------------------- MODULE MCDocuments ----------------------------
(* Documents of up to four pages, and of the lengths where the text-only     *)
(* rule turns; answers of up to three pieces.                                *)
EXTENDS Documents

Ends(n) == {i \in 0..(n - 1) : i < 2 \/ i >= n - 2}
DocsOf(n, layers, rests) ==
    {[count |-> n, near |-> f, rest |-> l] : f \in [Ends(n) -> layers],
                                             l \in rests}

MCDocs ==
    UNION {DocsOf(n, Layers, {"scan"}) : n \in 0..2}
      \union DocsOf(3, {"scan", "dense", "broken"}, {"scan"})
      \union DocsOf(4, {"scan", "dense"}, {"scan"})
      \union UNION {{[count |-> n, near |-> [i \in Ends(n) |-> l], rest |-> m] :
                        l \in {"scan", "dense"}, m \in {"scan", "sparse", "dense"}} :
                    n \in {10, 11, 283, 284}}

Says == {[k \in Keys |-> "words"],
         [k \in Keys |-> "null"],
         [k \in {"visual_description"} |-> "words"],
         [k \in Keys |-> IF k = "technical_details" THEN "bullets" ELSE "nested"],
         [k \in {"technical_details"} |-> "blank"]}

Pieces == {Plain(k) : k \in {"prose", "braces", "fence", "list"}}
            \union {Object(s) : s \in Says}
            \union {Torn([k \in {"visual_description"} |-> "words"])}

MCLoneReplies == UNION {[1..n -> Pieces] : n \in 0..3}
MCReplies == {<<Object(s)>> : s \in Says}
=============================================================================
