----------------------------- MODULE PagePlaces -----------------------------
(***************************************************************************)
(* Where the page's parts keep their variables, one part to a behaviour:   *)
(* so that a state is no longer than the longest of them, in the same      *)
(* places.  Each part's INSTANCE says which of its variables is which.     *)
(***************************************************************************)
VARIABLES part,
  v1, v2, v3, v4, v5, v6, v7, v8, v9, v10, v11, v12, v13, v14, v15, v16, v17, v18, v19, v20

places == <<v1, v2, v3, v4, v5, v6, v7, v8, v9, v10, v11, v12, v13, v14, v15, v16, v17, v18, v19, v20>>
=============================================================================
