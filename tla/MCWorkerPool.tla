--------------------------- MODULE MCWorkerPool ---------------------------
(***************************************************************************)
(* An instance of WorkerPool for TLC: over one mapper and beside a         *)
(* teardown, a map over two workers, one over a single worker and a        *)
(* prewarm, which is a map that stops at PoolObtained.                     *)
(***************************************************************************)
EXTENDS WorkerPool

CONSTANTS mapper, wide, narrow, prewarm, teardown

MCMappers   == {mapper}
MCCalls     == {wide, narrow, prewarm}
MCPrewarms  == {prewarm}
MCTeardowns == {teardown}
MCMapperOf  == [m \in Calls |-> mapper]
MCDemand    == [m \in Calls |-> IF m = wide THEN 2 ELSE 1]
=============================================================================
