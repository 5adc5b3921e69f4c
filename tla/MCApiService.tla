--------------------------- MODULE MCApiService ---------------------------
(***************************************************************************)
(* A small instance of ApiService for TLC.                                 *)
(***************************************************************************)
EXTENDS ApiService, TLC

CONSTANTS s1, s2, m1, h1

\* Two sessions, a client that posts, and a probe.
Kinds == (s1 :> "sse") @@ (s2 :> "sse") @@ (m1 :> "message") @@ (h1 :> "health")
===========================================================================
