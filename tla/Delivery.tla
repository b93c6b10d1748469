------------------------------ MODULE Delivery ------------------------------
(***************************************************************************)
(* What a caller of an outbound client may rely on, whichever client it is: *)
(* a request is handled at least once if the client says so, and at most    *)
(* limit times whatever it says.  It may be handled after the client has    *)
(* given up, and a client that gives up may have been heard.                *)
(***************************************************************************)
EXTENDS Naturals

CONSTANT Calls

VARIABLES
    limit,      \* how often each call may be handled; fixed from the start
    copies,     \* how often the other side has handled it
    verdict     \* "open", or what the client told its caller

vars == <<limit, copies, verdict>>

Init ==
    /\ limit \in [Calls -> Nat]
    /\ copies = [c \in Calls |-> 0]
    /\ verdict = [c \in Calls |-> "open"]

Handle(c) ==
    /\ copies[c] < limit[c]
    /\ copies' = [copies EXCEPT ![c] = @ + 1]
    /\ UNCHANGED <<limit, verdict>>

Confirm(c) ==
    /\ verdict[c] = "open" /\ copies[c] > 0
    /\ verdict' = [verdict EXCEPT ![c] = "done"]
    /\ UNCHANGED <<limit, copies>>

GiveUp(c) ==
    /\ verdict[c] = "open"
    /\ verdict' = [verdict EXCEPT ![c] = "failed"]
    /\ UNCHANGED <<limit, copies>>

\* A client that is switched off says yes and sends nothing.
Pretend(c) ==
    /\ verdict[c] = "open" /\ limit[c] = 0
    /\ verdict' = [verdict EXCEPT ![c] = "done"]
    /\ UNCHANGED <<limit, copies>>

Next == \E c \in Calls : Handle(c) \/ Confirm(c) \/ GiveUp(c) \/ Pretend(c)

Spec == Init /\ [][Next]_vars

=============================================================================
