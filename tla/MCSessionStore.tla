---------------------------- MODULE MCSessionStore ----------------------------
(* SessionStore on a small directory. *)
EXTENDS SessionStore
===============================================================================
