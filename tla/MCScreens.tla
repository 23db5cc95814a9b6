------------------------------ MODULE MCScreens ------------------------------
(* The instance of Screens for TLC.                                          *)
EXTENDS Screens
=============================================================================
