---------------------------- MODULE MCWritePipeline ----------------------------
(* The instance of WritePipeline for TLC.                                     *)
EXTENDS WritePipeline
================================================================================
