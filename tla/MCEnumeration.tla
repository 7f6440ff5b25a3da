---------------------------- MODULE MCEnumeration ----------------------------
(* Small instance of Enumeration: a search of two pages, the second of which
   calls for the children of a document, and two other callers of the bucket. *)
EXTENDS Enumeration, TLC

CONSTANTS d1, d2, d3, p1, p2, p3, fetcher, asset

Replies == (p1 :> <<d1, p2>>) @@ (p2 :> <<d2, p3>>) @@ (p3 :> <<d3>>)
Listings == (p1 :> {d1, d2, d3}) @@ (p2 :> {d2, d3}) @@ (p3 :> {d3})
=============================================================================
