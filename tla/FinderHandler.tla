--------------------------- MODULE FinderHandler ---------------------------
(***************************************************************************)
(* FinderHandler.MakeFindResponse (src/internal/handler/finder_handler.go) *)
(* as the loop it is: for each requested multihash, indexer.Get; skip it   *)
(* when not found, fail the whole request on an error, otherwise append    *)
(* the multihash and its values to the results and look up, once per      *)
(* provider ID, the provider's info in the registry.                       *)
(*                                                                         *)
(* A value is abstracted to its ProviderID (context ID and metadata are    *)
(* copied through untouched).  The request, the index, the registry and    *)
(* the multihashes whose Get fails are chosen in Init and stay fixed.      *)
(***************************************************************************)
EXTENDS Naturals, Sequences

CONSTANTS
    MHashes,    \* multihashes that can be asked for
    Providers,  \* provider IDs
    MaxReq,     \* bound on the number of multihashes in a request
    MaxValues   \* bound on the number of values indexed for a multihash

ASSUME FinderAssumption == MaxReq \in Nat /\ MaxValues \in Nat

\* Sequences of length at most n over S.
SeqUpTo(S, n) == UNION {[1..k -> S] : k \in 0..n}

VARIABLES
    mhashes,    \* the request
    index,      \* index[m]: the values indexer.Get returns for m
    found,      \* the multihashes for which indexer.Get reports found
    registry,   \* providers for which registry.ProviderInfo is not nil
    getErr,     \* multihashes for which indexer.Get returns an error
    status,     \* "get" (outer loop), "scan" (inner loop), "done", "error"
    i,          \* outer loop index into mhashes
    j,          \* inner loop index into values
    values,     \* the values of mhashes[i]
    results,    \* results: <<multihash, values>> pairs
    providerResults, \* AddrInfos appended, as provider IDs
    providerSeen \* the providerSeen map, as a set

vars == <<mhashes, index, found, registry, getErr, status, i, j, values, results,
          providerResults, providerSeen>>

Init ==
    /\ mhashes \in SeqUpTo(MHashes, MaxReq)
    /\ index \in [MHashes -> SeqUpTo(Providers, MaxValues)]
    /\ found \in SUBSET MHashes
    /\ registry \in SUBSET Providers
    /\ getErr \in SUBSET MHashes
    /\ status = "get"
    /\ i = 1 /\ j = 1
    /\ values = << >>
    /\ results = << >>
    /\ providerResults = << >>
    /\ providerSeen = {}

\* values, found, err := h.indexer.Get(mhashes[i]) with err != nil: the
\* request fails with a 500 and no response.
GetFails ==
    /\ status = "get"
    /\ i <= Len(mhashes)
    /\ mhashes[i] \in getErr
    /\ status' = "error"
    /\ UNCHANGED <<mhashes, index, found, registry, getErr, i, j, values, results,
                   providerResults, providerSeen>>

\* !found: continue with the next multihash.
GetNotFound ==
    /\ status = "get"
    /\ i <= Len(mhashes)
    /\ mhashes[i] \notin getErr
    /\ mhashes[i] \notin found
    /\ i' = i + 1
    /\ UNCHANGED <<mhashes, index, found, registry, getErr, status, j, values,
                   results, providerResults, providerSeen>>

\* Mutant: the found check is dropped.
GetFoundUnchecked ==
    /\ status = "get"
    /\ i <= Len(mhashes)
    /\ mhashes[i] \notin getErr
    /\ results' = Append(results, <<mhashes[i], index[mhashes[i]]>>)
    /\ values' = index[mhashes[i]]
    /\ j' = 1
    /\ status' = "scan"
    /\ UNCHANGED <<mhashes, index, found, registry, getErr, i, providerResults,
                   providerSeen>>

\* Found: append the MultihashResult and scan its values.
GetFound ==
    /\ status = "get"
    /\ i <= Len(mhashes)
    /\ mhashes[i] \notin getErr
    /\ mhashes[i] \in found
    /\ results' = Append(results, <<mhashes[i], index[mhashes[i]]>>)
    /\ values' = index[mhashes[i]]
    /\ j' = 1
    /\ status' = "scan"
    /\ UNCHANGED <<mhashes, index, found, registry, getErr, i, providerResults,
                   providerSeen>>

\* The outer loop ends: the response is returned.
Respond ==
    /\ status = "get"
    /\ i > Len(mhashes)
    /\ status' = "done"
    /\ UNCHANGED <<mhashes, index, found, registry, getErr, i, j, values, results,
                   providerResults, providerSeen>>

\* A provider already in providerSeen: continue.
ProviderSeenBefore ==
    /\ status = "scan"
    /\ j <= Len(values)
    /\ values[j] \in providerSeen
    /\ j' = j + 1
    /\ UNCHANGED <<mhashes, index, found, registry, getErr, status, i, values,
                   results, providerResults, providerSeen>>

\* Mutant: the provider is not recorded in providerSeen.
ProviderFirstSeenUnrecorded ==
    /\ status = "scan"
    /\ j <= Len(values)
    /\ values[j] \notin providerSeen
    /\ providerResults' = IF values[j] \in registry
                          THEN Append(providerResults, values[j])
                          ELSE providerResults
    /\ j' = j + 1
    /\ UNCHANGED <<mhashes, index, found, registry, getErr, status, i, values,
                   results, providerSeen>>

\* A new provider: mark it seen, then append its AddrInfo if the registry
\* knows it (a nil ProviderInfo is skipped, and stays marked seen).
ProviderFirstSeen ==
    /\ status = "scan"
    /\ j <= Len(values)
    /\ values[j] \notin providerSeen
    /\ providerSeen' = providerSeen \cup {values[j]}
    /\ providerResults' = IF values[j] \in registry
                          THEN Append(providerResults, values[j])
                          ELSE providerResults
    /\ j' = j + 1
    /\ UNCHANGED <<mhashes, index, found, registry, getErr, status, i, values,
                   results>>

\* The inner loop ends: next multihash.
ScanDone ==
    /\ status = "scan"
    /\ j > Len(values)
    /\ i' = i + 1
    /\ status' = "get"
    /\ UNCHANGED <<mhashes, index, found, registry, getErr, j, values, results,
                   providerResults, providerSeen>>

Next ==
    \/ GetFails \/ GetNotFound \/ GetFound \/ Respond
    \/ ProviderSeenBefore \/ ProviderFirstSeen \/ ScanDone

\* One goroutine runs the call to completion.
Spec == Init /\ [][Next]_vars /\ WF_vars(Next)

-----------------------------------------------------------------------------
TypeOK ==
    /\ mhashes \in SeqUpTo(MHashes, MaxReq)
    /\ index \in [MHashes -> SeqUpTo(Providers, MaxValues)]
    /\ found \subseteq MHashes
    /\ registry \subseteq Providers /\ getErr \subseteq MHashes
    /\ status \in {"get", "scan", "done", "error"}
    /\ i \in 1..Len(mhashes) + 1
    /\ j \in 1..MaxValues + 1
    /\ values \in SeqUpTo(Providers, MaxValues)
    /\ results \in Seq(MHashes \X SeqUpTo(Providers, MaxValues))
    /\ providerResults \in Seq(Providers)
    /\ providerSeen \subseteq Providers

(* The Providers list of a response never names a provider twice, however *)
(* many multihashes and values share it: providerSeen is marked before the *)
(* registry lookup, on every path.                                         *)
ProvidersDistinct ==
    \A a, b \in 1..Len(providerResults) :
        a # b => providerResults[a] # providerResults[b]
=============================================================================
