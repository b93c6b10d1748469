----------------------------- MODULE MCClients -----------------------------
(* An instance of Clients for TLC. *)
EXTENDS Clients, TLC

CONSTANTS c1, c2

TwoCalls == {c1, c2}

\* Two calls that may meet in Ollama's pool, or of two clients.
Pairs ==
    {[c \in TwoCalls |-> IF c = c1 THEN pair[1] ELSE pair[2]] :
        pair \in {<<"vision", "vision">>, <<"vision", "text">>,
                  <<"text", "notify">>, <<"index", "notify">>,
                  <<"publish", "index">>}}
=============================================================================
