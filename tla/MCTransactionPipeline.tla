------------------------ MODULE MCTransactionPipeline ------------------------
(* Two well-formed transactions and a malformed one; one enrichment worker   *)
(* and the two scoring workers the autoscaler allows.                        *)
EXTENDS TransactionPipeline

CONSTANTS t1, t2, bad, e1, s1, s2

MCTransactions == {t1, t2, bad}
MCMalformed == {bad}
MCWorkers == {e1, s1, s2}
MCStageOf == [w \in MCWorkers |-> IF w = e1 THEN "enrichment" ELSE "scoring"]

=============================================================================
