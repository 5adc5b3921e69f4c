---------------------------- MODULE TokenStore ----------------------------
(***************************************************************************)
(* What the fencing tokens promise of the graph, whoever writes it and in  *)
(* whatever order the writes arrive (README.md:24-25): a transaction puts  *)
(* its token on the elements it changes, all of them older than it, and    *)
(* creates others without a token; no element ever goes back to an older   *)
(* token or disappears.                                                    *)
(***************************************************************************)
EXTENDS Integers

CONSTANT Elements      \* the vertices and edges that may exist

VARIABLE version       \* element -> its last_fencing_token

Absent == -1           \* the element does not exist
Unfenced == 0          \* it exists and has no last_fencing_token

StoreInit == version = [e \in Elements |-> Absent]

\* One transaction, with token t.
Write(t) ==
    /\ version' \in [Elements -> Int]
    /\ \A e \in Elements :
          \/ version'[e] = version[e]
          \/ version[e] < t /\ version'[e] = t
          \/ version[e] = Absent /\ version'[e] = Unfenced

StoreNext == \E t \in {version'[e] : e \in Elements} : Write(t)

StoreSpec == StoreInit /\ [][StoreNext]_version
===========================================================================
