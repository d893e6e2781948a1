------------------------------- MODULE MCPublish -------------------------------
(* An instance of Publish for TLC. *)
EXTENDS Publish

CONSTANTS u1, u2
===============================================================================
