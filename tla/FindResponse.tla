---------------------------- MODULE FindResponse ----------------------------
(***************************************************************************)
(* What a find request promises, in one step: given the multihashes asked  *)
(* for, the index, the registry and the multihashes whose lookup fails,    *)
(* the answer is an error if any lookup fails, and otherwise the found     *)
(* multihashes with their values, in request order, and the registered    *)
(* providers of those values, each once, in the order first seen.          *)
(***************************************************************************)
EXTENDS Naturals, Sequences

CONSTANTS MHashes, Providers, MaxReq, MaxValues

VARIABLES mhashes, index, found, registry, getErr, response

vars == <<mhashes, index, found, registry, getErr, response>>

SeqUpTo(S, n) == UNION {[1..k -> S] : k \in 0..n}

Pending == [status |-> "pending", results |-> << >>, providers |-> << >>]

\* The multihashes of the request that the index holds, in request order.
RefFound == SelectSeq(mhashes, LAMBDA m : m \in found)

\* MultihashResults: each found multihash with its values.
RefResults == [k \in 1..Len(RefFound) |-> <<RefFound[k], index[RefFound[k]]>>]

\* Providers: the registered provider IDs of those values, each once, in the
\* order of their first appearance.
RefProviders ==
    LET all[n \in 0..Len(RefFound)] ==
            IF n = 0 THEN << >> ELSE all[n - 1] \o index[RefFound[n]]
        vals == all[Len(RefFound)]
        firsts[n \in 0..Len(vals)] ==
            IF n = 0 THEN << >>
            ELSE IF \E k \in 1..Len(firsts[n - 1]) : firsts[n - 1][k] = vals[n]
                 THEN firsts[n - 1]
                 ELSE Append(firsts[n - 1], vals[n])
    IN SelectSeq(firsts[Len(vals)], LAMBDA p : p \in registry)

Init ==
    /\ mhashes \in SeqUpTo(MHashes, MaxReq)
    /\ index \in [MHashes -> SeqUpTo(Providers, MaxValues)]
    /\ found \in SUBSET MHashes
    /\ registry \in SUBSET Providers
    /\ getErr \in SUBSET MHashes
    /\ response = Pending

\* The request is answered.
Answer ==
    /\ response = Pending
    /\ response' =
         IF \E k \in 1..Len(mhashes) : mhashes[k] \in getErr
         THEN [status |-> "error", results |-> << >>, providers |-> << >>]
         ELSE [status |-> "done", results |-> RefResults, providers |-> RefProviders]
    /\ UNCHANGED <<mhashes, index, found, registry, getErr>>

\* Every request is answered.
Spec == Init /\ [][Answer]_vars /\ <>(response # Pending)
=============================================================================
