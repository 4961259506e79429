----------------------------- MODULE Allocator -----------------------------
(***************************************************************************)
(* What the heap allocator promises its callers (spec.md sections 3 and   *)
(* 4), with no block list, header or statistics in sight.                 *)
(*                                                                         *)
(* grants maps each pointer a caller holds to its payload: len bytes      *)
(* starting at the pointer, and req, the byte count the caller asked for. *)
(* Every payload lies inside the arena, no two payloads overlap, and a    *)
(* payload covers its request.  A payload stays where it is, with its     *)
(* length, until the caller frees it or realloc moves it; realloc that    *)
(* moves a payload takes the new one before it gives the old one back, so *)
(* the two never overlap (the data is copied from one to the other).      *)
(* A call that fails, and every call that does not allocate or free,      *)
(* changes no grant.                                                       *)
(***************************************************************************)
EXTENDS Naturals, Functions, TLC

CONSTANT HEAP_SIZE   \* bytes of the arena

VARIABLE grants

\* A payload of len bytes at p lies in the arena and overlaps no payload of G.
FreeSpan(G, p, len) ==
    /\ p + len <= HEAP_SIZE
    /\ p \notin DOMAIN G
    /\ \A q \in DOMAIN G : p + len <= q \/ q + G[q].len <= p

Init == grants = <<>>

\* A payload g covers its request.
Covers(g) == g.req <= g.len

(***************************************************************************)
(* The steps.  A new payload g is any that FreeSpan and Covers allow; the *)
(* specification is checked as a property of the allocator's model, so    *)
(* Next reads the candidate pointer and payload off the next state rather *)
(* than enumerating every pointer and length of the arena.                *)
(***************************************************************************)
\* malloc or calloc succeeds with payload g at p.
Alloc(p, g) ==
    /\ FreeSpan(grants, p, g.len)
    /\ Covers(g)
    /\ grants' = grants @@ (p :> g)

\* free of a held pointer, or realloc of it to 0 bytes.
Release(p) ==
    /\ p \in DOMAIN grants
    /\ grants' = Restrict(grants, DOMAIN grants \ {p})

\* realloc of a held pointer to n bytes that its payload already covers.
Keep(p, n) ==
    /\ p \in DOMAIN grants
    /\ n <= grants[p].len
    /\ grants' = [grants EXCEPT ![p].req = n]

\* realloc of a held pointer p to payload g at q, disjoint from p's.
Move(p, q, g) ==
    /\ p \in DOMAIN grants
    /\ FreeSpan(grants, q, g.len)
    /\ Covers(g)
    /\ grants' = (q :> g) @@ Restrict(grants, DOMAIN grants \ {p})

Next ==
    \/ \E p \in DOMAIN grants' : Alloc(p, grants'[p])
    \/ \E p \in DOMAIN grants :
          \/ Release(p)
          \/ p \in DOMAIN grants' /\ Keep(p, grants'[p].req)
          \/ \E q \in DOMAIN grants' : Move(p, q, grants'[q])

Spec == Init /\ [][Next]_grants

=============================================================================
