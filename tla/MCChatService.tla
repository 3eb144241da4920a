--------------------------- MODULE MCChatService ----------------------------
(* Two servers, three connections (two of them on the first server) and    *)
(* two accounts; or one connection on each server, or two on one server.   *)
EXTENDS ChatService, TLC

CONSTANTS s1, s2, c1, c2, c3, u1, u2, m1, m2

TwoOnFirst == c1 :> s1 @@ c2 :> s1 @@ c3 :> s2
TwoOnOne == c1 :> s1 @@ c2 :> s1
OneEach == c1 :> s1 @@ c3 :> s2
\* The client of c1 may log in a second time.
TwiceOnFirst == [c \in Conn |-> IF c = c1 THEN 2 ELSE 1]
Symmetry == Permutations({u1, u2}) \union Permutations({m1, m2})
=============================================================================
