---------------------------- MODULE IngestContract ----------------------------
(***************************************************************************)
(* What the ingestion side promises its callers, one metric at a time and  *)
(* without buffers, batches or threads (src/ingestion/stream_processor.go, *)
(* IngestMetric and flushBuffer).                                          *)
(*                                                                         *)
(* A call made while the processor is open may enter its metric at any     *)
(* later time, even after the processor was closed.  An entered metric is  *)
(* handed to the storage at most once, and the caller is told "ok" only    *)
(* of a metric that was entered.                                           *)
(***************************************************************************)
CONSTANTS Metrics, Invalid

VARIABLES
    open,       \* may a new call enter its metric?
    fate,       \* what has become of each metric
    told        \* what its caller has been told

contractVars == <<open, fate, told>>

Fates == {"new", "admitted", "pending", "stored", "failed", "refused"}

ContractInit ==
    /\ open = FALSE
    /\ fate = [m \in Metrics |-> "new"]
    /\ told = [m \in Metrics |-> "nothing"]

Becomes(m, f) == fate' = [fate EXCEPT ![m] = f]

OpenOrClose == open' = ~open /\ UNCHANGED <<fate, told>>

Refuse(m) ==
    /\ fate[m] = "new" /\ (m \in Invalid \/ ~open)
    /\ Becomes(m, "refused") /\ told' = [told EXCEPT ![m] = "error"]
    /\ UNCHANGED open

Admit(m) ==
    /\ fate[m] = "new" /\ m \notin Invalid /\ open
    /\ Becomes(m, "admitted") /\ UNCHANGED <<open, told>>

Enter(m) ==
    /\ \/ fate[m] = "admitted"
       \/ fate[m] = "new" /\ m \notin Invalid /\ open
    /\ Becomes(m, "pending") /\ UNCHANGED <<open, told>>

Settle(m) ==
    /\ fate[m] = "pending"
    /\ Becomes(m, "stored") \/ Becomes(m, "failed")
    /\ UNCHANGED <<open, told>>

Acknowledge(m) ==
    /\ fate[m] \in {"pending", "stored", "failed"} /\ told[m] = "nothing"
    /\ told' = [told EXCEPT ![m] = "ok"]
    /\ UNCHANGED <<open, fate>>

ContractNext ==
    \/ OpenOrClose
    \/ \E m \in Metrics : \/ Refuse(m) \/ Admit(m) \/ Enter(m)
                          \/ Settle(m) \/ Acknowledge(m)

ContractSpec == ContractInit /\ [][ContractNext]_contractVars
=============================================================================
