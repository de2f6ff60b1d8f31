----------------------------- MODULE MCTagPages -----------------------------
(***************************************************************************)
(* A library with one tag, and room for two more of three names, of which  *)
(* two differ in case only.                                                *)
(***************************************************************************)
EXTENDS TagPages

CONSTANTS go, Go, ts, red, blue, title

MCNames == {go, Go, ts}
MCLower == (go :> "go" @@ Go :> "go" @@ ts :> "ts")
MCColors == {red, blue}
MCTitles == {title}

MCOneTag == CreateTag(EmptyLibrary, go, red).db
MCLibraries == {MCOneTag}
=============================================================================
