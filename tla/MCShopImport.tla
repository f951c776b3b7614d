----------------------------- MODULE MCShopImport -----------------------------
(* Small worlds for ShopImport.                                            *)
EXTENDS ShopImport, TLC

AnySheet == [mode : {"ADD_MISSING", "UPDATE_EXISTING"}, rows : (SUBSET Rows) \ {{}}, stock : {1}]

\* Sound: nothing tells two request ids or two calls apart.
Ids == Permutations(Requests) \cup Permutations(Calls)
=============================================================================
