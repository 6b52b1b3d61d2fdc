----------------------------- MODULE MCRegistry -----------------------------
(* Two images of one model, by tag and by digest; a mirror of the first in *)
(* another registry; and an image with a name of its own and no tag.       *)
EXTENDS Registry, TLC

CONSTANTS nemo, other, hub, mirror, sayoModelNemo, custom, nemoSlug, otherSlug, v1, d1, c1, c2

Tagged == [repo |-> hub, name |-> sayoModelNemo, tag |-> v1, digest |-> NoDigest]
Pinned == [Tagged EXCEPT !.tag = NoTag, !.digest = d1]
Mirror == [Tagged EXCEPT !.repo = mirror]
Custom == [repo |-> hub, name |-> custom, tag |-> NoTag, digest |-> NoDigest]

MCRef == {Tagged, Pinned, Mirror, Custom}
MCModelIn == [r \in MCRef |-> IF r \in {Tagged, Pinned} THEN nemo ELSE other]
MCSlugOf == (sayoModelNemo :> nemoSlug) @@ (custom :> NoSlug)
MCModelSlug == [r \in MCRef |-> IF MCModelIn[r] = nemo THEN nemoSlug ELSE otherSlug]

MCSymmetry == Permutations(Call)

=============================================================================
