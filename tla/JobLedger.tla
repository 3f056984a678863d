----------------------------- MODULE JobLedger -----------------------------
(***************************************************************************)
(* What a download job promises about its chunks, without queue, threads   *)
(* or connections: a chunk is missing, being fetched, or done.  No chunk   *)
(* is fetched twice at a time, at most Slots chunks are being fetched, a   *)
(* fetch that fails leaves the chunk missing, and done is for ever.        *)
(***************************************************************************)
EXTENDS Naturals, FiniteSets

CONSTANTS Chunks, Slots

VARIABLE ledger

Fetching == {c \in Chunks : ledger[c] = "fetching"}

Init == ledger \in [Chunks -> {"missing", "done"}]

Fetch(c) == /\ ledger[c] = "missing" /\ Cardinality(Fetching) < Slots
            /\ ledger' = [ledger EXCEPT ![c] = "fetching"]

Fail(c) == /\ ledger[c] = "fetching"
           /\ ledger' = [ledger EXCEPT ![c] = "missing"]

Succeed(c) == /\ ledger[c] = "fetching"
              /\ ledger' = [ledger EXCEPT ![c] = "done"]

Next == \E c \in Chunks : Fetch(c) \/ Fail(c) \/ Succeed(c)

Spec == Init /\ [][Next]_ledger
=============================================================================
