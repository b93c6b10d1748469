----------------------------- MODULE MCPipeline -----------------------------
(* Instances of Pipeline for TLC. *)
EXTENDS Pipeline

CONSTANTS a, b, c

ThreeWords == {a, b, c}
TwoWords == {a, b}

\* With a number all sources agree on (.95), a title of .40 alone gives .50;
\* with one of a single source (.50), two certain fields give .80.
Telling == {40, 100, NaN}

Nothing == {}
Everything == Stages \union Extractors
=============================================================================
