------------------------------- MODULE MCSlab -------------------------------
(***************************************************************************)
(* Pages of 64 bytes and four caches in an order like that of the code:    *)
(* two small ones that do not divide the page, one with a single object to *)
(* a page (1536 in the code) and one of half a page (2048).                *)
(***************************************************************************)
EXTENDS Slab

SizeOf == [k \in 0 .. MaxOrder |-> 2 ^ k]
SizesOfKmem == <<14, 8, 22, 32>>
SizesAsked == {5, 9, 22, 30, 33, 65, 129}
=============================================================================
