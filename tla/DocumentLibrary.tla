--------------------------- MODULE DocumentLibrary ---------------------------
(***************************************************************************)
(* What a tenant is promised about its documents: a document appears once, *)
(* becomes searchable, and from then on stays searchable through every     *)
(* re-index, move, failure and crash until someone asks for its deletion;  *)
(* once deleted it is never listed or found again.                         *)
(***************************************************************************)
CONSTANTS Docs, Requests, None

VARIABLES
    listed,     \* documents in the tenant's list
    searchable, \* documents a search can return chunks of
    gone,       \* deleted documents
    removing    \* the document each request is deleting, or None

vars == <<listed, searchable, gone, removing>>

Init ==
    /\ listed = {} /\ searchable = {} /\ gone = {}
    /\ removing = [r \in Requests |-> None]

List(d) ==
    /\ d \notin listed \cup gone
    /\ listed' = listed \cup {d}
    /\ UNCHANGED <<searchable, gone, removing>>

Index(d) ==
    /\ d \in listed
    /\ searchable' = searchable \cup {d}
    /\ UNCHANGED <<listed, gone, removing>>

BeginRemoval(r, d) ==
    /\ removing[r] = None /\ d \in listed
    /\ removing' = [removing EXCEPT ![r] = d]
    /\ searchable' = searchable \ {d}
    /\ UNCHANGED <<listed, gone>>

FinishRemoval(r) ==
    /\ removing[r] \in Docs
    /\ listed' = listed \ {removing[r]}
    /\ searchable' = searchable \ {removing[r]}
    /\ gone' = gone \cup {removing[r]}
    /\ removing' = [removing EXCEPT ![r] = None]

AbandonRemoval(r) ==
    /\ removing[r] \in Docs
    /\ removing' = [removing EXCEPT ![r] = None]
    /\ UNCHANGED <<listed, searchable, gone>>

Next ==
    \/ \E d \in Docs : List(d) \/ Index(d)
    \/ \E r \in Requests :
          (\E d \in Docs : BeginRemoval(r, d)) \/ FinishRemoval(r) \/ AbandonRemoval(r)

Spec == Init /\ [][Next]_vars
=============================================================================
