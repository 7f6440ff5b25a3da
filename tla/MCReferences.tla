---------------------------- MODULE MCReferences ----------------------------
(* A small instance of References: a document that links to two others and shows
   an asset, one of the others links back.  Paths lie at two depths. *)
EXTENDS References

CONSTANTS d1, d2, d3, k1, a, b, sub, assets

TargetsOf == (d1 :> {d2, d3}) @@ (d2 :> {d1}) @@ (d3 :> {})
AssetsOf  == (d1 :> {k1}) @@ (d2 :> {}) @@ (d3 :> {})
PoolPaths == [k \in Keys |-> <<assets, k>>]
TwoDepths == {<<a>>, <<b>>, <<sub, a>>, <<sub, b>>}

\* One of the initial placements; the others are reached by moves.
MCInit ==
  /\ Init
  /\ place = ((d1 :> <<a>>) @@ (d2 :> <<sub, a>>) @@ (d3 :> <<sub, b>>))

MCSpec == MCInit /\ [][Next]_vars
=============================================================================
