------------------------------ MODULE Batches ------------------------------
(***************************************************************************)
(* What clients submit: the parameters of Submission, shared with the       *)
(* modules that put it into the service.                                    *)
(***************************************************************************)
EXTENDS JobRecords, Sequences, FiniteSets

CONSTANTS
    Jobs,           \* uploads, and the jobs of earlier submissions
    Requests,       \* calls of POST /extract
    Files,          \* the uploads of each request, in order
    ValidFiles,     \* uploads that are PDFs and not too large
    FileHash,       \* SHA-256 of the content
    Earlier         \* jobs completed before the first request

\* An upload becomes one job: no two places share one.
ASSUME FilesAssumption ==
    /\ Files \in [Requests -> Seq(Jobs)]
    /\ \A p, q \in Requests : \A i \in DOMAIN Files[p], k \in DOMAIN Files[q] :
          Files[p][i] = Files[q][k] => p = q /\ i = k
    /\ \A p \in Requests : \A i \in DOMAIN Files[p] : Files[p][i] \notin Earlier
ASSUME EarlierAssumption == Earlier \subseteq Jobs
ASSUME ValidAssumption == ValidFiles \subseteq Jobs

=============================================================================
