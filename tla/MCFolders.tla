------------------------------ MODULE MCFolders ------------------------------
(* Instances of Folders small enough for TLC: folders below one another, a *)
(* file in each.                                                           *)
EXTENDS Folders

A == <<"a">>
B == <<"a", "b">>
C == <<"a", "b", "c">>

ThreeFolders == {A, B, C}
ThreeFiles == {<<"a", "f">>, <<"a", "b", "g">>, <<"a", "b", "c", "h">>}
=============================================================================
