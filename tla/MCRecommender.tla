---------------------------- MODULE MCRecommender ----------------------------
(* The instance of Recommender for TLC.                                      *)
EXTENDS Recommender
=============================================================================
