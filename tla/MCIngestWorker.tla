-------------------------- MODULE MCIngestWorker --------------------------
(***************************************************************************)
(* Small instances of IngestWorker for TLC.                                *)
(***************************************************************************)
EXTENDS IngestWorker, TLC

CONSTANTS p1, p2, x1, x2

OneChunk == <<x1>>

\* Others have sent another chunk, the same one, or a message that cannot be
\* decoded.
BusyTopic ==
    {(p1 :> <<>>) @@ (p2 :> <<x2>>), (p1 :> <<>>) @@ (p2 :> <<x1>>),
     (p1 :> <<>>) @@ (p2 :> <<Poison>>)}

\* One partition; the document repeats a chunk.
RepeatedChunks == <<x1, x2, x1>>
EmptyTopic == {p1 :> <<>>}
===========================================================================
