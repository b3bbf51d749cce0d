------------------------------ MODULE MCService ------------------------------
(* Service for TLC; the configuration gives every constant its value. *)
EXTENDS Service
=============================================================================
