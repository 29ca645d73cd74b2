------------------------------- MODULE MCPublish -------------------------------
(* Instances of LocalPublish for TLC.                                          *)
EXTENDS LocalPublish

CONSTANTS u1, u2, v1, v2
================================================================================
