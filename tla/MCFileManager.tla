---------------------------- MODULE MCFileManager ----------------------------
(* Instances of FileManager for TLC: G-code files in a directory below the  *)
(* root; macros in directories; and two cards.  "old" is a directory that   *)
(* cannot be read.                                                          *)
EXTENDS FileManager, TLC

MCNames == {"gcodes", "macros", "a", "b", "sub", "old"}
MCRank == [n \in MCNames |->
              CASE n = "a" -> 3 [] n = "gcodes" -> 4 [] n = "macros" -> 5
                [] n = "b" -> 6
                [] n = "old" -> 1 [] n = "sub" -> 2]
(* The files of the sub-directory have the same names as those above it.    *)
MCListingFiles ==
    (Path(0, <<"gcodes">>) :> {"sub"}) @@ (Path(0, <<"gcodes", "sub">>) :> {"a"})
    @@ (Path(0, <<"macros">>) :> {"a"})
MCListingMacros ==
    (Path(0, <<"gcodes">>) :> {"a"}) @@ (Path(0, <<"macros">>) :> {"sub", "old", "a", "b"})
    @@ (Path(0, <<"macros", "sub">>) :> {"a"})
MCListingCards ==
    (Path(0, <<"gcodes">>) :> {}) @@ (Path(1, <<>>) :> {})
=============================================================================
