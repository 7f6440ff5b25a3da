---------------------------- MODULE MCIncremental ----------------------------
(* Small instances of Incremental: two pages, a database and a row of it, or
   three pages, with a database or without. *)
EXTENDS Incremental

CONSTANTS p1, p2, r1, db, t, u

Orders2 == {<<p1, p2, r1, db>>, <<db, r1, p2, p1>>}
Orders1 == {<<p1, p2, r1>>}

RowTitles  == (p1 :> {t, u}) @@ (p2 :> {t}) @@ (r1 :> {u}) @@ (db :> {t})
RowParents == (p1 :> {Root, Gone}) @@ (p2 :> {Root, r1}) @@ (r1 :> {db})
                @@ (db :> {Root, p1, Gone})

PageTitles  == (p1 :> {u}) @@ (p2 :> {t}) @@ (r1 :> {u})
PageParents == (p1 :> {Root, p2, Gone}) @@ (p2 :> {Root, p1}) @@ (r1 :> {Root, p1, p2, Gone})

RivalTitles  == (p1 :> {t}) @@ (p2 :> {t}) @@ (r1 :> {u}) @@ (db :> {u})
RivalParents == (p1 :> {Root}) @@ (p2 :> {Root}) @@ (r1 :> {Root, p2}) @@ (db :> {p1})
=============================================================================
