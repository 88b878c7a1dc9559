---------------------------- MODULE MC_HTTPServer ----------------------------
(* Four requests, two workers, and a work queue of two. *)
EXTENDS HTTPServer
=============================================================================
