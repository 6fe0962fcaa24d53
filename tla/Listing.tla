------------------------------ MODULE Listing -------------------------------
(***************************************************************************)
(* ListAll: one list read of a scanner, page by page, from an API server   *)
(* whose objects change meanwhile.  The continue token pins the server's   *)
(* state at the first page; when the server has compacted that state away, *)
(* the list starts over, once.                                             *)
(***************************************************************************)
EXTENDS Naturals, Sequences, FiniteSets, SequencesExt

CONSTANTS
    Items,       \* the objects the server may hold
    PageLimit,   \* objects of a page
    MaxWrites    \* bound: changes of the server's objects

ASSUME ListingAssumption ==
    IsFiniteSet(Items) /\ PageLimit \in Nat \ {0} /\ MaxWrites \in Nat

VARIABLES
    stored,      \* the server's objects
    writes,      \* changes so far
    past,        \* every content the server had since the call
    pinned,      \* the content behind the continue token, meaningful with one
    token,       \* the client holds a continue token
    out,         \* objects appended so far
    restarted,   \* the list has started over
    listed       \* "paging", "ok" or "failed"

listVars == <<stored, writes, past, pinned, token, out, restarted, listed>>

ListInit ==
    /\ stored \in SUBSET Items
    /\ writes = 0
    /\ past = {stored}
    /\ pinned = {}
    /\ token = FALSE
    /\ out = <<>>
    /\ restarted = FALSE
    /\ listed = "paging"

\* External: an object is created or deleted on the server.
Write ==
    /\ writes < MaxWrites /\ listed = "paging"
    /\ \E i \in Items : stored' = IF i \in stored THEN stored \ {i} ELSE stored \cup {i}
    /\ past' = past \cup {stored'}
    /\ writes' = writes + 1
    /\ UNCHANGED <<pinned, token, out, restarted, listed>>

\* A page arrives: a part of what the pinned content has left.
Page ==
    /\ listed = "paging"
    /\ LET content == IF token THEN pinned ELSE stored
           sent == IF token THEN ToSet(out) ELSE {}
           left == content \ sent
       IN \E page \in SUBSET left :
            /\ Cardinality(page) <= PageLimit /\ (page = {} => left = {})
            /\ out' = out \o SetToSeq(page)
            /\ pinned' = content
            /\ token' = (page # left)
            /\ listed' = IF page = left THEN "ok" ELSE "paging"
    /\ UNCHANGED <<stored, writes, past, restarted>>

\* What was appended before a list starts over.
KeepsPages == out

Dropped == <<>>

\* The pinned content expired: the list starts over from no token, the first time.
StartOver ==
    /\ listed = "paging" /\ token /\ ~restarted
    /\ restarted' = TRUE
    /\ out' = Dropped
    /\ token' = FALSE
    /\ UNCHANGED <<stored, writes, past, pinned, listed>>

\* Any other error, a second expiry, or a server that repeats its token.
ListFails ==
    /\ listed = "paging"
    /\ listed' = "failed"
    /\ UNCHANGED <<stored, writes, past, pinned, token, out, restarted>>

ListNext == Write \/ Page \/ StartOver \/ ListFails

ListSpec == ListInit /\ [][ListNext]_listVars

ListTypeOK ==
    /\ stored \subseteq Items /\ pinned \subseteq Items
    /\ past \subseteq SUBSET Items
    /\ writes \in 0 .. MaxWrites
    /\ token \in BOOLEAN /\ restarted \in BOOLEAN
    /\ out \in Seq(Items)
    /\ listed \in {"paging", "ok", "failed"}

\* A list that succeeds is the server's content at one moment of the call,
\* each object once, whatever changed between the pages and although it may
\* have started over half way (ListAll in paging.go).
ListIsSnapshot ==
    listed = "ok" => ToSet(out) \in past /\ Len(out) = Cardinality(ToSet(out))
=============================================================================
