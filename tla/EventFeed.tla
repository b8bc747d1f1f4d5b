------------------------------ MODULE EventFeed ------------------------------
(***************************************************************************)
(* What GET /v1/events promises a client, whatever happens in between: the *)
(* events it may see, once each and in order, from its cursor on.          *)
(***************************************************************************)
EXTENDS Naturals, Sequences, SequencesExt

VARIABLES
    published,  \* sequence numbers of the visible events, in order of commit
    start,      \* the cursor the client began with
    received    \* the sequence numbers it has been given

vars == <<published, start, received>>

Reached == IF received = <<>> THEN start ELSE Last(received)

Init == published = <<>> /\ start = 0 /\ received = <<>>

Publish ==
    /\ Len(published') = Len(published) + 1 /\ Front(published') = published
    /\ \A i \in DOMAIN published : published[i] < Last(published')
    /\ UNCHANGED <<start, received>>

Open == received = <<>> /\ start' \in Nat /\ UNCHANGED <<published, received>>

Deliver ==
    /\ \E i \in DOMAIN published :
          /\ published[i] > Reached /\ \A j \in 1..(i - 1) : published[j] <= Reached
          /\ received' = Append(received, published[i])
    /\ UNCHANGED <<published, start>>

Next == Publish \/ Open \/ Deliver

Spec == Init /\ [][Next]_vars
=============================================================================
