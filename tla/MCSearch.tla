------------------------------ MODULE MCSearch ------------------------------
(* Instances of Search small enough for TLC: a folder inside another, two  *)
(* files in it and one above, two chunks of each.                          *)
EXTENDS Search

A == <<"a">>
B == <<"a", "b">>
F == <<"a", "f">>
G == <<"a", "b", "g">>
H == <<"a", "b", "h">>

TwoFolders == {A, B}
ThreeFiles == {F, G, H}
KindOfFile == [f \in ThreeFiles |-> IF f = G THEN "pdf" ELSE "md"]
OnlyG == {G}

At(f, v, p) == [file |-> f, version |-> v, part |-> p]
IdOrder ==
  <<At(G, 2, 1), At(H, 1, 2), At(F, 1, 1), At(G, 1, 1), At(F, 2, 2), At(H, 2, 1),
    At(H, 1, 1), At(F, 2, 1), At(G, 1, 2), At(H, 2, 2), At(G, 2, 2), At(F, 1, 2)>>

(* All chunks; those of two files, the first one's ahead; few.             *)
Both(order) == order \o [i \in DOMAIN order |-> [order[i] EXCEPT !.version = 2]]
TwoRankings ==
  {Both(<<At(G, 1, 1), At(G, 1, 2), At(F, 1, 1), At(H, 1, 1), At(H, 1, 2), At(F, 1, 2)>>),
   Both(<<At(H, 1, 2), At(F, 1, 2), At(F, 1, 1), At(G, 1, 2), At(H, 1, 1)>>)}

(* All is prepared; or the inner folder alone is, while one of its files is *)
(* about to be extracted again and the other has not been embedded yet.    *)
Settled ==
  [disk |-> [f \in ThreeFiles |-> 1], status |-> [f \in ThreeFiles |-> "indexed"],
   cut |-> [f \in ThreeFiles |-> 1], cached |-> [f \in ThreeFiles |-> 1],
   embedded |-> ThreeFiles, folders |-> {A}, owner |-> [f \in ThreeFiles |-> A]]
Preparing ==
  [disk |-> (F :> 1 @@ G :> 2 @@ H :> 2),
   status |-> (F :> "indexed" @@ G :> "stale" @@ H :> "indexed"),
   cut |-> (F :> 0 @@ G :> 1 @@ H :> 2), cached |-> (F :> 0 @@ G :> 1 @@ H :> 2),
   embedded |-> {G}, folders |-> {B}, owner |-> (F :> None @@ G :> B @@ H :> B)]
TwoCatalogs == {Settled, Preparing}

In(kinds, folder, limit, subfolders) ==
  [kinds |-> kinds, folder |-> folder, limit |-> limit, subfolders |-> subfolders]
Scopes == {In({}, A, None, TRUE), In({}, A, None, FALSE), In({"md"}, A, None, TRUE),
           In({}, A, B, FALSE), In({}, B, None, TRUE)}
AllRequests ==
  {[mode |-> mode, model |-> model, cjk |-> cjk, scope |-> scope] :
     mode \in {"Auto", "Exact", "Conceptual"}, model \in BOOLEAN, cjk \in BOOLEAN,
     scope \in Scopes}
=============================================================================
