----------------------------- MODULE AccessScope -----------------------------
(***************************************************************************)
(* services/access.py: which documents a caller may see, as a filter on    *)
(* the collection of a document or chunk.  The same value filters          *)
(* retrieval and is part of the answer-cache key.                          *)
(***************************************************************************)
EXTENDS FiniteSets

CONSTANTS Collections,  \* values of collection_id, General included
          General       \* NULL

ASSUME ScopeAssumption == General \in Collections

AccessScopes ==
    [all_documents : BOOLEAN, include_general : BOOLEAN,
     collection_ids : SUBSET (Collections \ {General})]

Everything == [all_documents |-> TRUE, include_general |-> TRUE, collection_ids |-> {}]

CanSee(s, c) ==
    \/ s.all_documents
    \/ c = General /\ s.include_general
    \/ c # General /\ c \in s.collection_ids

\* sql_filter and orm_filter: the collections whose rows pass the WHERE clause.
\* Every clause is optional, and no clause at all is FALSE.
Filter(s) ==
    IF s.all_documents
    THEN Collections
    ELSE {c \in Collections : \/ s.include_general /\ c = General
                              \/ c \in s.collection_ids}

\* `requested` is the list of a caller who wants to search a part; none is all.
Narrow(s, requested) ==
    IF requested = {} THEN s
    ELSE [all_documents |-> FALSE,
          include_general |-> General \in requested /\ (s.all_documents \/ s.include_general),
          collection_ids |-> LET wanted == requested \ {General} IN
                             IF s.all_documents THEN wanted ELSE wanted \cap s.collection_ids]

\* sha256 of the canonical text is taken to be injective.
Digest(s) ==
    IF s.all_documents THEN <<"all">> ELSE <<"some", s.include_general, s.collection_ids>>
=============================================================================
