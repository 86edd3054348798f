------------------------ MODULE FinderHandlerProofs ------------------------
(* Proofs that MakeFindResponse never lists a provider twice, and that its *)
(* steps map to FindResponse's stutters and one Answer with the right      *)
(* status, for requests of any length, indexes of any size and any         *)
(* registry.                                                               *)
EXTENDS MCFinderHandler, TLAPS

\* Every provider in providerResults was marked in providerSeen: the
\* strengthening that makes ProvidersDistinct inductive.
ResultsSeen == \A k \in 1..Len(providerResults) : providerResults[k] \in providerSeen

Typed ==
    /\ index \in [MHashes -> Seq(Providers)]
    /\ mhashes \in Seq(MHashes)
    /\ values \in Seq(Providers)
    /\ i \in Nat \ {0} /\ j \in Nat \ {0}
    /\ providerResults \in Seq(Providers)

IInv == Typed /\ ResultsSeen /\ ProvidersDistinct

LEMMA SeqUpToSeq == ASSUME NEW S, NEW n \in Nat PROVE SeqUpTo(S, n) \subseteq Seq(S)
BY DEF SeqUpTo

LEMMA IInvInit == Init => IInv
BY SeqUpToSeq, FinderAssumption DEF Init, IInv, Typed, ResultsSeen, ProvidersDistinct

\* Appending a provider that is not yet seen keeps both conjuncts.
LEMMA AppendUnseen ==
    ASSUME NEW seq \in Seq(Providers), NEW seen, NEW p \in Providers, p \notin seen,
           \A k \in 1..Len(seq) : seq[k] \in seen,
           \A a, b \in 1..Len(seq) : a # b => seq[a] # seq[b]
    PROVE  LET t == Append(seq, p) IN
           /\ \A k \in 1..Len(t) : t[k] \in seen \cup {p}
           /\ \A a, b \in 1..Len(t) : a # b => t[a] # t[b]
OBVIOUS

LEMMA IInvStep == IInv /\ [Next]_vars => IInv'
<1> SUFFICES ASSUME IInv, [Next]_vars PROVE IInv'
    OBVIOUS
<1>1. CASE GetFails
    BY <1>1 DEF GetFails, IInv, Typed, ResultsSeen, ProvidersDistinct
<1>2. CASE GetNotFound
    BY <1>2 DEF GetNotFound, IInv, Typed, ResultsSeen, ProvidersDistinct
<1>3. CASE GetFound
    BY <1>3 DEF GetFound, IInv, Typed, ResultsSeen, ProvidersDistinct
<1>4. CASE Respond
    BY <1>4 DEF Respond, IInv, Typed, ResultsSeen, ProvidersDistinct
<1>5. CASE ProviderSeenBefore
    BY <1>5 DEF ProviderSeenBefore, IInv, Typed, ResultsSeen, ProvidersDistinct
<1>6. CASE ProviderFirstSeen
    <2>1. values[j] \in Providers /\ values[j] \notin providerSeen
        BY <1>6 DEF ProviderFirstSeen, IInv, Typed
    <2>2. CASE values[j] \in registry
        BY <1>6, <2>1, <2>2, AppendUnseen
        DEF ProviderFirstSeen, IInv, Typed, ResultsSeen, ProvidersDistinct
    <2>3. CASE values[j] \notin registry
        BY <1>6, <2>3 DEF ProviderFirstSeen, IInv, Typed, ResultsSeen, ProvidersDistinct
    <2> QED BY <2>2, <2>3
<1>7. CASE ScanDone
    BY <1>7 DEF ScanDone, IInv, Typed, ResultsSeen, ProvidersDistinct
<1>8. CASE UNCHANGED vars
    BY <1>8 DEF vars, IInv, Typed, ResultsSeen, ProvidersDistinct
<1> QED BY <1>1, <1>2, <1>3, <1>4, <1>5, <1>6, <1>7, <1>8 DEF Next

(* MakeFindResponse's Providers list never names a provider twice, for    *)
(* every request, index and registry.                                      *)
THEOREM ProvidersDistinctInvariant == Spec => []ProvidersDistinct
<1>1. IInv => ProvidersDistinct
    BY DEF IInv
<1> QED BY IInvInit, IInvStep, <1>1, PTL DEF Spec

-----------------------------------------------------------------------------
(* The response as FindResponse sees it.                                   *)

\* No multihash among the first n of the request has a failing Get.
NoFailBefore(n) == \A k \in 1..n : mhashes[k] \notin getErr

\* The status FindResponse's Answer gives: an error if any lookup fails.
Verdict == IF \E k \in 1..Len(mhashes) : mhashes[k] \in getErr THEN "error" ELSE "done"

\* Where the loop is: every multihash before i was looked up without error,
\* the one being scanned too; an error stops at a failing one, and done
\* means none failed.
Progress ==
    /\ status \in {"get", "scan", "done", "error"}
    /\ i \in 1..Len(mhashes) + 1
    /\ status \in {"get", "scan"} => NoFailBefore(i - 1)
    /\ status = "scan" => i \in 1..Len(mhashes) /\ mhashes[i] \notin getErr
    /\ status = "error" => i \in 1..Len(mhashes) /\ mhashes[i] \in getErr
    /\ status = "done" => NoFailBefore(Len(mhashes))

PInv == Typed /\ Progress

LEMMA PInvInit == Init => PInv
BY SeqUpToSeq, FinderAssumption DEF Init, PInv, Typed, Progress, NoFailBefore

\* Every step keeps the types of the loop variables.
LEMMA TypedStep == Typed /\ [Next]_vars => Typed'
<1> SUFFICES ASSUME Typed, [Next]_vars PROVE Typed'
    OBVIOUS
<1> USE DEF Typed
<1>1. CASE GetFails \/ GetNotFound \/ Respond \/ ProviderSeenBefore \/ ScanDone
    BY <1>1 DEF GetFails, GetNotFound, Respond, ProviderSeenBefore, ScanDone
<1>2. CASE GetFound
    BY <1>2 DEF GetFound
<1>3. CASE ProviderFirstSeen
    BY <1>3 DEF ProviderFirstSeen
<1>4. CASE UNCHANGED vars
    BY <1>4 DEF vars
<1> QED BY <1>1, <1>2, <1>3, <1>4 DEF Next

LEMMA PInvStep == PInv /\ [Next]_vars => PInv'
<1> SUFFICES ASSUME PInv, [Next]_vars PROVE PInv'
    OBVIOUS
<1>1. Typed'
    BY TypedStep DEF PInv
<1> USE DEF PInv, Typed, Progress, NoFailBefore
<1>2. CASE GetFails
    BY <1>1, <1>2 DEF GetFails
<1>3. CASE GetNotFound
    BY <1>1, <1>3 DEF GetNotFound
<1>4. CASE GetFound
    BY <1>1, <1>4 DEF GetFound
<1>5. CASE Respond
    BY <1>1, <1>5 DEF Respond
<1>6. CASE ProviderSeenBefore
    BY <1>1, <1>6 DEF ProviderSeenBefore
<1>7. CASE ProviderFirstSeen
    BY <1>1, <1>7 DEF ProviderFirstSeen
<1>8. CASE ScanDone
    BY <1>1, <1>8 DEF ScanDone
<1>9. CASE UNCHANGED vars
    BY <1>1, <1>9 DEF vars
<1> QED BY <1>2, <1>3, <1>4, <1>5, <1>6, <1>7, <1>8, <1>9 DEF Next

\* A step of MakeFindResponse leaves the caller's view of the response
\* unchanged, or is the one step that turns it from pending to the status
\* FindResponse's Answer gives.
ResponseStep ==
    \/ Response' = Response
    \/ /\ Response = FR!Pending
       /\ Response'.status = Verdict

\* Before the call returns the caller sees a pending response.
LEMMA PendingWhileRunning ==
    ASSUME status \in {"get", "scan"} PROVE Response = FR!Pending
BY DEF Response, FR!Pending

(* The initial states of MakeFindResponse are initial states of            *)
(* FindResponse under the mapping of MCFinderHandler.                       *)
THEOREM RefinementInit == Init => FR!Init
BY DEF Init, FR!Init, Response, FR!Pending, SeqUpTo, FR!SeqUpTo

(* Every step of MakeFindResponse, for every request, index and registry,  *)
(* is a stutter of the response or the single step that answers it, and   *)
(* that answer is an error exactly when one of the requested multihashes   *)
(* fails its Get: the early return on an error and the skip on not found   *)
(* are in the right places.  Which results and providers a done response   *)
(* carries is left to the run finder_response.                             *)
THEOREM AnswerStatus == Spec => [][ResponseStep]_vars
<1>1. PInv /\ [Next]_vars => [ResponseStep]_vars
  <2> SUFFICES ASSUME PInv, [Next]_vars PROVE ResponseStep \/ UNCHANGED vars
    OBVIOUS
  <2>1. CASE UNCHANGED vars
    BY <2>1
  <2>3. CASE GetFails
    <3>1. Response = FR!Pending
      BY <2>3, PendingWhileRunning DEF GetFails
    <3>2. Response'.status = "error"
      BY <2>3 DEF GetFails, Response
    <3>3. Verdict = "error"
      BY <2>3 DEF GetFails, Verdict, PInv, Progress
    <3>4. QED
      BY <3>1, <3>2, <3>3 DEF ResponseStep
  <2>4. CASE Respond
    <3>1. Response = FR!Pending
      BY <2>4, PendingWhileRunning DEF Respond
    <3>2. Response'.status = "done"
      BY <2>4 DEF Respond, Response
    <3>3. NoFailBefore(Len(mhashes))
      BY <2>4 DEF Respond, PInv, Typed, Progress, NoFailBefore
    <3>4. Verdict = "done"
      BY <3>3 DEF Verdict, NoFailBefore
    <3>5. QED
      BY <3>1, <3>2, <3>4 DEF ResponseStep
  <2>5. CASE GetNotFound \/ GetFound \/ ProviderSeenBefore \/ ProviderFirstSeen \/ ScanDone
    <3>1. status \in {"get", "scan"} /\ status' \in {"get", "scan"}
      BY <2>5 DEF GetNotFound, GetFound, ProviderSeenBefore, ProviderFirstSeen, ScanDone
    <3>2. Response = FR!Pending /\ Response' = FR!Pending
      BY <3>1, PendingWhileRunning DEF Response, FR!Pending
    <3>3. QED
      BY <3>2 DEF ResponseStep
  <2>6. QED
    BY <2>1, <2>3, <2>4, <2>5 DEF Next
<1>2. QED
  BY <1>1, PInvInit, PInvStep, PTL DEF Spec

=============================================================================
