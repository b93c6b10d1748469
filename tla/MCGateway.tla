----------------------------- MODULE MCGateway -----------------------------
(* Instances of Gateway for TLC. *)
EXTENDS Gateway, TLC

CONSTANTS e1, a1, a2, a3, b1, c1, c2, d1, p, q, r, s, look, again, odd, blank, pre, tool, h1, h2, bad

\* p uploads a file the service has seen, and the same new one twice; q that one too; r
\* a new one and one that is not a PDF; s has no valid credentials.  pre is the
\* preflight of a browser, tool an OPTIONS call that carries the API key.
AllJobs == {e1, a1, a2, a3, b1, c1, c2, d1}
AllRequests == {p, q, r, s}
UploadedFiles == (p :> <<a1, a2, a3>> @@ q :> <<b1>> @@ r :> <<c1, c2>> @@ s :> <<d1>>)
PdfFiles == AllJobs \ {c2}
Content == [j \in AllJobs |-> CASE j \in {e1, a1} -> "old"
                                [] j \in {a2, a3, b1} -> "new"
                                [] OTHER -> "other"]
EarlierJobs == {e1}
SomeReads == {look, again, odd, blank}
TwoPreflights == {pre, tool}
TwoPolls == {h1, h2}

\* All come from one office: q, r, two reads of a job and one of a malformed id are
\* of one user, p of another one, and blank has a token with an empty user_id.
With(address, key, token, name) ==
    [address |-> address, credentials |-> [key |-> key, token |-> token, user_id |-> name]]
Callers == (p :> With("office", "right", "none", "")
         @@ q :> With("office", "wrong", "valid", "ann")
         @@ r :> With("office", "none", "valid", "ann")
         @@ s :> With("office", "wrong", "invalid", "bob")
         @@ look :> With("office", "none", "valid", "ann")
         @@ again :> With("office", "none", "valid", "ann")
         @@ odd :> With("office", "none", "valid", "ann")
         @@ blank :> With("office", "none", "valid", "")
         @@ pre :> With("browser", "none", "none", "")
         @@ tool :> With("office", "right", "none", "")
         @@ h1 :> With("cluster", "none", "none", "")
         @@ h2 :> With("cluster", "none", "none", ""))
Asked == (p :> a1 @@ q :> b1 @@ r :> c1 @@ s :> d1 @@ look :> a2 @@ again :> a2
         @@ odd :> bad @@ blank :> a2)
OnePerMinute == [e \in {"extract", "jobs"} |-> 1]

SubmissionsOrPolls == {{p, q, r}, {q, s, look}, {look, again, odd, blank}, {pre, tool, p}, {h1, h2}}
JustPreflights == {{pre, tool, p}}
NoCalls == {}
=============================================================================
