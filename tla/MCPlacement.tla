----------------------------- MODULE MCPlacement -----------------------------
(* Small inventories for Placement: siblings that compete for names, and trees
   with missing parents, cycles and documents listed twice. *)
EXTENDS Placement, TLC

CONSTANTS p, q, r, s, unseen,
          x, y, a, A, long, tall, cut, md, readme, index, untitled, orphansFolder

\* Three of the identities share their first eight characters.
MCPrefix == [d \in {p, q, r, s, unseen} |-> IF d \in {p, q, r} THEN x ELSE y]
MCLower == A :> a
MCReserved == {<<readme>>, <<index>>, <<orphansFolder>>}

CrowdTitles ==
  {<<a>>, <<A>>, <<>>, <<long>>, <<tall>>, <<a, x>>, <<a, x, 2>>, <<orphansFolder>>}
TreeTitles == {<<a>>, <<readme>>, <<index>>, <<readme, md>>}
MCSlug == [slug \in CrowdTitles \cup TreeTitles |-> slug]
MCCut == <<long>> :> <<cut>> @@ <<tall>> :> <<cut>>

Listings(d, parents, titles, types) ==
  [id : {d}, parent : parents, title : titles, type : types]

\* Four roots.
Crowds ==
  LET Roots(d, types) == Listings(d, {NoParent}, CrowdTitles, types)
  IN Roots(s, {"page", "folder"}) \X Roots(p, {"page", "folder"})
       \X Roots(q, {"page"}) \X Roots(r, {"page"})

\* Every parent relation of three documents, or of two, one of them listed twice.
Trees ==
  LET Anywhere(d) == Listings(d, {NoParent, p, q, r, unseen}, TreeTitles, {"page", "db"})
  IN Anywhere(p) \X Anywhere(q) \X (Anywhere(p) \cup Anywhere(r))

MCInventories == Crowds \cup Trees
=============================================================================
