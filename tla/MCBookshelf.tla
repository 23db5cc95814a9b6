----------------------------- MODULE MCBookshelf -----------------------------
(* Small instances of Bookshelf. *)
EXTENDS Bookshelf, TLC

\* The goals of 5, 25 and 100 books, scaled down.
SmallGoals == 2 :> 1 @@ 3 :> 2 @@ 4 :> 3
Sym == Permutations(Books) \cup Permutations(Accounts)
==============================================================================
