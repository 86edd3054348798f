----------------------------- MODULE CarWriter -----------------------------
(***************************************************************************)
(* The CAR archiver of storetheindex (src/carwriter/carwriter.go).         *)
(*                                                                         *)
(* The staging datastore holds advertisement blocks and the entry blocks   *)
(* (chunks of a linked list, or one HAMT root) they point to.  At startup  *)
(* WriteExisting lists the advertisements in the datastore and a single    *)
(* goroutine calls Write on each: Write copies the advertisement and its   *)
(* entries into a CAR file, stores the file, then deletes the blocks from  *)
(* the datastore tail first.  The daemon may crash between any two         *)
(* datastore or file-store operations and then starts WriteExisting anew.  *)
(*                                                                         *)
(* Block contents are abstracted away: an advertisement is identified by   *)
(* its CID and its entries by the sequence ChainOf[a] of entry-block CIDs  *)
(* that following Entries and Next links from it visits.                   *)
(***************************************************************************)
EXTENDS Naturals, Sequences, FiniteSets

CONSTANTS
    Ads,        \* CIDs of advertisements
    Chunks,     \* CIDs of entry chunks (EntryChunk nodes)
    Hamts,      \* CIDs of HAMT root nodes
    ChainOf,    \* ChainOf[a]: the entry blocks of a, first to last
    MaxCrashes  \* bound on daemon crashes in one behaviour

EntryBlocks == Chunks \cup Hamts
Blocks == Ads \cup EntryBlocks

\* An entry chain is empty (NoEntries), one HAMT root, or a list of chunks.
IsChain(c) ==
    \/ c = << >>
    \/ Len(c) = 1 /\ c[1] \in Hamts
    \/ \A i \in 1..Len(c) : c[i] \in Chunks

ASSUME ChainAssumption ==
    /\ Ads \cap EntryBlocks = {}
    /\ Chunks \cap Hamts = {}
    /\ ChainOf \in [Ads -> Seq(EntryBlocks)]
    /\ \A a \in Ads : IsChain(ChainOf[a])
    \* Entry blocks are not shared: chains have no repeats and are disjoint.
    /\ \A a, b \in Ads : \A i \in 1..Len(ChainOf[a]), j \in 1..Len(ChainOf[b]) :
          ChainOf[a][i] = ChainOf[b][j] => a = b /\ i = j

ASSUME MaxCrashesAssumption == MaxCrashes \in Nat

VARIABLES
    dstore,     \* CIDs whose blocks are in the staging datastore
    stored,     \* advertisements that have a CAR file in the file store
    carBlocks,  \* carBlocks[a]: the blocks written into a's CAR file
    wphase,     \* "down" | "loop" | "delete" | "done": the WriteExisting goroutine
    pending,    \* advertisements of the adCids list not yet handled
    delSeq,     \* delCids of the current Write; deleted from the end
    halt,       \* why the run ended early: "none" | "query" | "canceled" | "write"
                \* | "panic"
    failed,     \* advertisements whose Write returned an error and deleted nothing
    dropped,    \* advertisements deleted because an entry chunk failed to load
    crashes     \* number of crashes so far

vars == <<dstore, stored, carBlocks, wphase, pending, delSeq, halt, failed,
          dropped, crashes>>

Phases == {"down", "loop", "delete", "done"}
Halts == {"none", "query", "canceled", "write", "panic"}

-----------------------------------------------------------------------------
(* Helpers over the datastore contents.                                    *)

MinNat(x, y) == IF x <= y THEN x ELSE y

\* The length of the longest prefix of a's chain that is in the datastore:
\* how far loadEntryChunk gets before it meets ErrNotFound.
LoadedPrefix(a) ==
    LET c == ChainOf[a] IN
    CHOOSE k \in 0..Len(c) :
        /\ \A i \in 1..k : c[i] \in dstore
        /\ k < Len(c) => c[k + 1] \notin dstore

\* The CIDs that Write collects in delCids.  roots is <<a>> or <<a, e>>;
\* delCids copies roots, appends e again, then appends every Next link it
\* follows, including the one whose load fails.
WriteDelCids(a) ==
    LET c == ChainOf[a] IN
    IF c = << >> THEN <<a>>
    ELSE <<a, c[1]>> \o SubSeq(c, 1, MinNat(LoadedPrefix(a) + 1, Len(c)))

\* The CIDs that removeAdData collects: roots, then the Next links it follows.
RemoveDelCids(a) ==
    LET c == ChainOf[a] IN
    IF c = << >> THEN <<a>>
    ELSE <<a>> \o SubSeq(c, 1, MinNat(LoadedPrefix(a) + 1, Len(c)))

\* removeAdData calls isHAMT on the node loadNode returned; when the first
\* entry block is not found that node is nil and the call panics.
RemovePanics(a) == ChainOf[a] # << >> /\ ChainOf[a][1] \notin dstore

\* Mutant: the chunk walk breaks on a missing chunk instead of failing.
ChunkLoadFailsNever(a) == FALSE

\* Write stops with a load error when a chunk after the first is missing.
ChunkLoadFails(a) ==
    LET k == LoadedPrefix(a) IN 1 <= k /\ k < Len(ChainOf[a])

\* The blocks Write puts into the CAR file when it succeeds.
CarContent(a) ==
    {a} \cup {ChainOf[a][i] : i \in 1..LoadedPrefix(a)}

-----------------------------------------------------------------------------
(* The ingester has fetched every advertisement and, for each, a prefix of *)
(* its entry chain (a crash during the entries sync leaves a prefix).      *)
Init ==
    /\ \E k \in [Ads -> 0..Cardinality(EntryBlocks)] :
          dstore = Ads \cup
                   UNION {{ChainOf[a][i] : i \in 1..MinNat(k[a], Len(ChainOf[a]))} :
                          a \in Ads}
    /\ stored = {}
    /\ carBlocks = [a \in Ads |-> {}]
    /\ wphase = "down"
    /\ pending = {}
    /\ delSeq = << >>
    /\ halt = "none"
    /\ failed = {}
    /\ dropped = {}
    /\ crashes = 0

\* Mutant: findAds keeps every key of the datastore, not only the blocks that
\* decode as advertisements.
WriteExistingUnfiltered ==
    /\ wphase = "down"
    /\ failed' = {}
    /\ pending' = dstore
    /\ wphase' = IF pending' = {} THEN "done" ELSE "loop"
    /\ halt' = "none"
    /\ UNCHANGED <<dstore, stored, carBlocks, delSeq, dropped, crashes>>

\* WriteExisting: findAds lists the advertisements in the datastore; on a
\* query error, or when there are none, the done channel is closed at once.
WriteExisting ==
    /\ wphase = "down"
    /\ failed' = {}
    /\ \/ /\ pending' = dstore \cap Ads
          /\ wphase' = IF pending' = {} THEN "done" ELSE "loop"
          /\ halt' = "none"
       \/ /\ pending' = {}
          /\ wphase' = "done"
          /\ halt' = "query"
    /\ UNCHANGED <<dstore, stored, carBlocks, delSeq, dropped, crashes>>

\* The loop ends when the list is exhausted.
LoopEnd ==
    /\ wphase = "loop"
    /\ pending = {}
    /\ wphase' = "done"
    /\ UNCHANGED <<dstore, stored, carBlocks, pending, delSeq, halt, failed,
                   dropped, crashes>>

\* ctx.Err() is checked before each advertisement: cancellation ends the run.
Cancel ==
    /\ wphase = "loop"
    /\ pending # {}
    /\ wphase' = "done"
    /\ halt' = "canceled"
    /\ UNCHANGED <<dstore, stored, carBlocks, pending, delSeq, failed,
                   dropped, crashes>>

(***************************************************************************)
(* Write(ctx, a, false), called from the loop.  Its outcomes are the       *)
(* actions below; each starts from the datastore and file store as they    *)
(* are when Write loads the advertisement and calls Head.                  *)
(***************************************************************************)
\* Head(ctx, fileName) is tried first.  Only a nil error takes the
\* removeAdData path; any error, not only a missing file, falls through to
\* writing the CAR file, so the actions after ArchiveExists are enabled for
\* an archived advertisement too.
WriteGuard(a) ==
    /\ wphase = "loop"
    /\ a \in pending
    /\ pending' = pending \ {a}

\* Head finds the CAR file: removeAdData collects the blocks to delete and
\* Write returns the existing file.
ArchiveExists(a) ==
    /\ WriteGuard(a)
    /\ a \in dstore
    /\ a \in stored
    /\ ~RemovePanics(a)
    /\ wphase' = "delete"
    /\ delSeq' = RemoveDelCids(a)
    /\ UNCHANGED <<dstore, stored, carBlocks, halt, failed, dropped, crashes>>

\* Mutant: the panic unwinds without the deferred deleteCids.
RemoveAdDataPanicsNoDefer(a) ==
    /\ wphase = "loop"
    /\ a \in pending
    /\ a \in dstore
    /\ a \in stored
    /\ RemovePanics(a)
    /\ wphase' = "down"
    /\ pending' = {}
    /\ UNCHANGED <<dstore, stored, carBlocks, delSeq, halt, failed, dropped,
                   crashes>>

\* The same, when the first entry block is missing: isHAMT(nil) panics.  The
\* deferred deleteCids(delCids) runs while the panic unwinds, on delCids as
\* it is then (the roots), and the daemon dies after it (PanicUnwound).
RemoveAdDataPanics(a) ==
    /\ WriteGuard(a)
    /\ a \in dstore
    /\ a \in stored
    /\ RemovePanics(a)
    /\ wphase' = "delete"
    /\ delSeq' = RemoveDelCids(a)
    /\ halt' = "panic"
    /\ UNCHANGED <<dstore, stored, carBlocks, failed, dropped, crashes>>

\* Mutant: a plain error breaks the loop as a WriteError does.
CarOpenFailsBreak(a) ==
    /\ WriteGuard(a)
    /\ a \in dstore
    /\ wphase' = "done"
    /\ UNCHANGED <<dstore, stored, carBlocks, delSeq, halt, failed, dropped,
                   crashes>>

\* OpenReadWrite of the temporary CAR fails: a plain error, nothing deleted.
CarOpenFails(a) ==
    /\ WriteGuard(a)
    /\ a \in dstore
    /\ failed' = failed \cup {a}
    /\ UNCHANGED <<dstore, stored, carBlocks, wphase, delSeq, halt, dropped,
                   crashes>>

\* Mutant: the WriteError path cleans up the staged blocks before returning.
CarWriteFailsCleanup(a) ==
    /\ WriteGuard(a)
    /\ a \in dstore
    /\ wphase' = "delete"
    /\ delSeq' = WriteDelCids(a)
    /\ UNCHANGED <<dstore, stored, carBlocks, halt, failed, dropped, crashes>>

\* writeBlock, Finalize, Open or Put fails: a WriteError, which ends the run.
CarWriteFails(a) ==
    /\ WriteGuard(a)
    /\ a \in dstore
    /\ wphase' = "done"
    /\ halt' = "write"
    /\ UNCHANGED <<dstore, stored, carBlocks, delSeq, failed, dropped, crashes>>

\* A chunk after the first is missing: deleteCids(delCids), then a plain error.
EntriesLoadFails(a) ==
    /\ WriteGuard(a)
    /\ a \in dstore
    /\ ChunkLoadFails(a)
    /\ wphase' = "delete"
    /\ delSeq' = WriteDelCids(a)
    /\ dropped' = dropped \cup {a}
    /\ UNCHANGED <<dstore, stored, carBlocks, halt, failed, crashes>>

\* The CAR file is finalized and Put into the file store; then deleteCids.
CarStored(a) ==
    /\ WriteGuard(a)
    /\ a \in dstore
    /\ ~ChunkLoadFails(a)
    /\ stored' = stored \cup {a}
    /\ carBlocks' = [carBlocks EXCEPT ![a] = CarContent(a)]
    /\ wphase' = "delete"
    /\ delSeq' = WriteDelCids(a)
    /\ UNCHANGED <<dstore, halt, failed, dropped, crashes>>

\* Mutant: deleteCids walks delCids from the first CID, the advertisement.
DeleteCidForward ==
    /\ wphase = "delete"
    /\ delSeq # << >>
    /\ dstore' = dstore \ {delSeq[1]}
    /\ delSeq' = Tail(delSeq)
    /\ UNCHANGED <<stored, carBlocks, wphase, pending, halt, failed, dropped,
                   crashes>>

\* deleteCids: one datastore Delete, from the last CID of delCids back.
DeleteCid ==
    /\ wphase = "delete"
    /\ delSeq # << >>
    /\ dstore' = dstore \ {delSeq[Len(delSeq)]}
    /\ delSeq' = SubSeq(delSeq, 1, Len(delSeq) - 1)
    /\ UNCHANGED <<stored, carBlocks, wphase, pending, halt, failed, dropped,
                   crashes>>

\* Every CID deleted: Write returns and the loop takes the next advertisement.
WriteReturns ==
    /\ wphase = "delete"
    /\ delSeq = << >>
    /\ halt # "panic"
    /\ wphase' = "loop"
    /\ UNCHANGED <<dstore, stored, carBlocks, pending, delSeq, halt, failed,
                   dropped, crashes>>

\* The deferred deleteCids is done and the panic ends the daemon.
PanicUnwound ==
    /\ wphase = "delete"
    /\ delSeq = << >>
    /\ halt = "panic"
    /\ wphase' = "down"
    /\ pending' = {}
    /\ UNCHANGED <<dstore, stored, carBlocks, delSeq, halt, failed, dropped,
                   crashes>>

\* The daemon crashes (or is killed) between two operations.  The datastore
\* and the file store persist; the goroutine's state is lost.
Crash ==
    /\ wphase # "down"
    /\ crashes < MaxCrashes
    /\ wphase' = "down"
    /\ pending' = {}
    /\ delSeq' = << >>
    /\ crashes' = crashes + 1
    /\ UNCHANGED <<dstore, stored, carBlocks, halt, failed, dropped>>

Archiver ==
    \/ WriteExisting
    \/ LoopEnd
    \/ Cancel
    \/ \E a \in Ads :
          \/ ArchiveExists(a)
          \/ RemoveAdDataPanics(a)
          \/ CarOpenFails(a)
          \/ CarWriteFails(a)
          \/ EntriesLoadFails(a)
          \/ CarStored(a)
    \/ DeleteCid
    \/ WriteReturns
    \/ PanicUnwound

Next == Archiver \/ Crash

\* The goroutine runs whenever it can; crashes are not forced.
Spec == Init /\ [][Next]_vars /\ WF_vars(Archiver)

\* deleteCids when the datastore's Delete returns an error: the error is
\* logged, the block stays, and the loop goes on with the CID before it.
DeleteCidFails ==
    /\ wphase = "delete"
    /\ delSeq # << >>
    /\ delSeq' = SubSeq(delSeq, 1, Len(delSeq) - 1)
    /\ UNCHANGED <<dstore, stored, carBlocks, wphase, pending, halt, failed,
                   dropped, crashes>>

\* The archiver over a datastore whose Deletes may fail.
FaultySpec == Init /\ [][Next \/ DeleteCidFails]_vars /\ WF_vars(Archiver)

-----------------------------------------------------------------------------
TypeOK ==
    /\ dstore \subseteq Blocks
    /\ stored \subseteq Ads
    /\ carBlocks \in [Ads -> SUBSET Blocks]
    /\ wphase \in Phases
    /\ pending \subseteq Ads
    /\ delSeq \in Seq(Blocks)
    /\ halt \in Halts
    /\ failed \subseteq Ads
    /\ dropped \subseteq Ads
    /\ crashes \in 0..MaxCrashes

(* No entry block is left in the datastore once its advertisement is gone.  *)
(* findAds only lists advertisements, so such a block would never be        *)
(* archived or deleted.  deleteCids deletes delCids from the last to the    *)
(* first, the advertisement last, so that a crash between two Deletes       *)
(* cannot leave one behind.                                                 *)
NoOrphanEntries ==
    \A a \in Ads : \A i \in 1..Len(ChainOf[a]) :
        ChainOf[a][i] \in dstore => a \in dstore

(* Every CAR file holds its advertisement and either all of its entry       *)
(* blocks or none of them (the first entry was never fetched): Write never  *)
(* stores a file with a truncated chunk list, whatever was deleted before a *)
(* crash.                                                                   *)
ArchivesAllOrNothing ==
    \A a \in stored :
        /\ a \in carBlocks[a]
        /\ \/ carBlocks[a] \cap EntryBlocks = {}
           \/ carBlocks[a] \cap EntryBlocks = {ChainOf[a][i] : i \in 1..Len(ChainOf[a])}

(* An advertisement leaves the datastore only when its CAR file is in the   *)
(* file store, or when Write gave it up because an entry chunk could not be *)
(* loaded: Write Puts the file before deleteCids, and a WriteError deletes  *)
(* nothing.                                                                 *)
NoSilentLoss ==
    \A a \in Ads : a \in dstore \/ a \in stored \/ a \in dropped

(* A CAR file, once in the file store, is never removed or rewritten:     *)
(* Write's comment "If the destination file already exists, do not        *)
(* rewrite it".  Violated when Head errs on an archived advertisement that *)
(* a crash left staged after some of its entries were deleted.             *)
ArchiveNeverRewritten ==
    [][\A a \in stored : a \in stored' /\ carBlocks'[a] = carBlocks[a]]_vars

(* Liveness of one WriteExisting run: it ends, and unless it was stopped by *)
(* a WriteError, a cancellation or a query error, every advertisement left  *)
(* in the datastore is one whose Write returned an error without deleting.  *)
(* This is the resumability promise: what a crash left over is archived.    *)
LeftoversHandled ==
    <>[](wphase = "done" /\ (halt = "none" => \A a \in Ads \cap dstore : a \in failed))
=============================================================================
