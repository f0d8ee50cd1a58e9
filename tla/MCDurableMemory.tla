--------------------------- MODULE MCDurableMemory ---------------------------
(* Small instances of DurableMemory for TLC.                                *)
EXTENDS DurableMemory, TLC

Direct == {<<>>}
Steered == {<<>>, <<"tools">>, <<"steered">>}
Queued == {<<"queued">>}

\* A segment has two writes or more under "message", and one under the others unless resumed.
Segments == [p \in Policies |-> IF p = "message" THEN 1 ELSE 2]

=============================================================================
