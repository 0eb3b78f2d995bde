--------------------------- MODULE MCCollectPool ---------------------------
(* CollectPool on four DSNs, one of which does not parse, two at a time.    *)
EXTENDS CollectPool

MCInvalid == {2}

=============================================================================
