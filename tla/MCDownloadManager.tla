------------------------- MODULE MCDownloadManager -------------------------
(* Instances of DownloadManager for TLC. *)
EXTENDS DownloadManager, TLC

CONSTANTS a, b, c, fa, fb, fe, pa, pb, pc1, p1, p2

(* A file two blocks of which are equal, one of a single piece, an empty one. *)
SomeRepeated == fa :> <<a, b, a>> @@ fb :> <<c>> @@ fe :> <<>>

(* Two files of different pieces. *)
DistinctPieces == fa :> <<a, b>> @@ fb :> <<c>>

(* A file without content. *)
EmptyFile == fa :> <<a, b>> @@ fb :> <<>>

(* Files are stored under their own names; there are two places for fb. *)
Names == [x \in Paths |-> IF x = pa THEN fa ELSE fb]

EmptyDisk == [x \in Paths |-> None]

(* The client brings fb, or something else is stored where it would go. *)
OwnFile == [x \in Paths |-> IF x = pb THEN <<c>> ELSE None]
ForeignFile == [x \in Paths |-> IF x = pb THEN <<a>> ELSE None]

(* p1 always has the piece, p2 may fail in some ways or in all. *)
OneHonest == p1 :> {"good"} @@ p2 :> {"good", "bad"}
AnyFailure == p1 :> {"good"} @@ p2 :> {"bad", "reset", "silent"}
=============================================================================
