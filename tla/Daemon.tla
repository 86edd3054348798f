------------------------------- MODULE Daemon -------------------------------
(***************************************************************************)
(* The main event loop of the storetheindex daemon and its shutdown        *)
(* (src/command/daemon.go, daemonAction from the select loop on).          *)
(*                                                                         *)
(* One goroutine runs the loop.  It selects among: the command context     *)
(* being cancelled (ctrl-c), a server failing to start (svrErrChan),       *)
(* SIGHUP (reloadSig, buffer 1), a reload request on reloadErrsChan        *)
(* (buffer 1; an error channel from the admin server's reload handler, or  *)
(* nil), and the config-check ticker.  On SIGHUP and on a changed config   *)
(* file the loop itself sends nil on reloadErrsChan, of which it is the    *)
(* only receiver.  A reload calls reloadConfig and reloadPeering and       *)
(* answers the admin handler on its unbuffered error channel.  When the    *)
(* loop ends, the daemon closes its components in order, under an          *)
(* optional shutdown timer that exits the process.                         *)
(*                                                                         *)
(* A configuration is a record: the config-check interval, whether a       *)
(* shutdown timeout is set, and the peering list ("none", "some", or       *)
(* "bad" when PeerAddrs fails).  A config file that reloadConfig rejects   *)
(* (parse error, SetPolicy, SetRateLimit or logging failure) is fileFault.   *)
(***************************************************************************)
EXTENDS Naturals, Sequences

CONSTANTS
    Admins,      \* reload requests made through the admin HTTP API
    Configs,     \* configurations the file may hold
    InitCfg,     \* the configuration the daemon started with
    WatchConfig, \* the watch-config flag: cfgPath is set and the ticker runs
    HasP2P,      \* a libp2p host was created (p2pHost != nil)
    MaxSignals,  \* bound on SIGHUPs
    MaxTicks,    \* bound on ticker ticks
    MaxEdits,    \* bound on edits of the config file
    FileFaults   \* the ways a config file can fail to load (see Faults)

PeerLists == {"none", "some", "bad"}
\* The step of reloadConfig that rejects a file: loadConfig (parse error or
\* datastore type), reg.SetPolicy, ingester.SetRateLimit, setLoggingConfig.
Faults == {"load", "policy", "rate", "logging"}
Nil == "nil"

ASSUME ConstantsAssumption ==
    /\ Configs \subseteq [chk : Nat, shto : BOOLEAN, peers : PeerLists]
    /\ InitCfg \in Configs /\ InitCfg.peers # "bad"
    /\ Nil \notin Admins
    /\ WatchConfig \in BOOLEAN /\ HasP2P \in BOOLEAN
    /\ {MaxSignals, MaxTicks, MaxEdits} \subseteq Nat
    /\ FileFaults \subseteq Faults

\* The components closed after the loop, in the order of daemonAction.
Closers == <<"peering", "ingestSvr", "findSvr", "adminSvr", "ingester",
             "valueStore", "registry", "dstore">>
\* The closers whose error daemonAction turns into ErrDaemonStop.
CheckedClosers == {"ingestSvr", "findSvr", "adminSvr", "ingester", "valueStore"}
\* The closers that can fail at all (registry.Close returns nothing); the
\* errors of peeringService.Stop and dstore.Close are not checked.
FailingClosers == CheckedClosers \cup {"peering", "dstore"}

VARIABLES
    pc,         \* main goroutine: "loop", "sendNil" (blocked sending on
                \* reloadErrsChan), "panicked", "shutdown", "exited", "killed"
    cfg,        \* the cfg variable (meaningful when ~cfgNil)
    cfgNil,     \* cfg was set to nil by a failed reloadConfig
    file,       \* the configuration in the config file
    fileFault,  \* "none", or the step of reloadConfig that rejects the file
    seenVer,    \* modTime: the number of edits FileChanged last saw
    tickerIv,   \* the interval the ticker runs at
    shutdownTimeout, \* whether a shutdown timeout is configured
    peering,    \* peeringService: "nil" or "running"
    orphans,    \* peering services still running that nothing refers to
    sigBuf,     \* a SIGHUP is buffered in reloadSig
    tickBuf,    \* a tick is buffered in the ticker channel
    rq,         \* reloadErrsChan contents: admin requests or Nil
    admin,      \* admin[r]: "idle", "waiting", "ok" or "err"
    canceled,   \* the command context was cancelled
    svrErr,     \* a server start error is in svrErrChan
    startFailed, \* some server failed to start
    stage,      \* index into Closers during shutdown
    failedClose, \* closers that returned an error
    finalErr,   \* "none", "start" (ErrDaemonStart) or "stop" (ErrDaemonStop)
    sigs, ticks, edits, \* bounded event counters
    policyOf,   \* the config whose policy the registry enforces
    rateOf,     \* the config whose rate limit and worker count the ingester uses
    sstep,      \* start-up: index into StartSteps
    opened      \* components created and not closed

vars == <<pc, cfg, cfgNil, file, fileFault, seenVer, tickerIv,
          shutdownTimeout, peering, orphans, sigBuf, tickBuf, rq, admin,
          canceled, svrErr, startFailed, stage, failedClose, finalErr,
          sigs, ticks, edits, policyOf, rateOf, sstep, opened>>
startVars == <<sstep, opened>>
appliedVars == <<policyOf, rateOf>>

Running == pc \in {"loop", "sendNil"}
Ended == {"exited", "killed", "panicked"}

-----------------------------------------------------------------------------
(* Helpers.                                                                *)

\* The admin handler's answer: the loop sends on the request's errChan;
\* nothing is sent for a nil request.
Answer(e, v) == IF e = Nil THEN admin ELSE [admin EXCEPT ![e] = v]

\* reloadPeering(cfg.Peering, peeringService, p2pHost): the new value of
\* peeringService, whether it returned an error, and how many running
\* services it leaves unreferenced.  stopFails: Stop returned an error;
\* startFails: Start returned an error.
PeeringResult(peers, ps, stopFails, startFails) ==
    CASE peers = "none" /\ ps = "running" /\ stopFails
              -> [ps |-> Nil, err |-> TRUE, lost |-> 1]
      [] peers = "none"
              -> [ps |-> Nil, err |-> FALSE, lost |-> 0]
      [] peers = "bad"
              -> [ps |-> Nil, err |-> TRUE, lost |-> IF ps = "running" THEN 1 ELSE 0]
      [] ps = Nil /\ startFails
              -> [ps |-> Nil, err |-> TRUE, lost |-> 0]
      [] OTHER
              -> [ps |-> "running", err |-> FALSE, lost |-> 0]

\* The step at which reloadConfig fails on the file: SetRateLimit is only
\* called when there is an ingester.
ReloadFault == IF fileFault = "rate" /\ ~HasP2P THEN "none" ELSE fileFault

\* reloadConfig returns an error.
ReloadConfigFails == ReloadFault # "none"

\* reloadConfig has called reg.SetPolicy, and ingester.SetRateLimit with
\* RunWorkers, before it returns (with or without an error).
PolicySet == ReloadFault \notin {"load", "policy"}
RateSet == HasP2P /\ ReloadFault \notin {"load", "policy", "rate"}

-----------------------------------------------------------------------------
Init ==
    /\ pc = "start"
    /\ cfg = InitCfg
    /\ cfgNil = FALSE
    /\ file = InitCfg
    /\ fileFault = "none"
    /\ seenVer = 0
    /\ tickerIv = InitCfg.chk
    /\ shutdownTimeout = InitCfg.shto
    /\ peering = Nil
    /\ orphans = 0
    /\ sigBuf = FALSE
    /\ tickBuf = FALSE
    /\ rq = << >>
    /\ admin = [r \in Admins |-> "idle"]
    /\ canceled = FALSE
    /\ svrErr = FALSE
    /\ startFailed = FALSE
    /\ stage = 0
    /\ failedClose = {}
    /\ finalErr = "none"
    /\ sigs = 0 /\ ticks = 0 /\ edits = 0
    /\ policyOf = InitCfg /\ rateOf = InitCfg
    /\ sstep = 1
    /\ opened = {}

-----------------------------------------------------------------------------
(* Start-up: daemonAction up to the loop.                                  *)

\* What daemonAction creates, in order.  The steps under a p2p address
\* exist only with a libp2p host.
StartSteps == <<"loadConfig", "setLogging", "valueStore", "datastore",
                "unfreeze", "registry", "findSvr", "identity", "p2pHost",
                "ingester", "bootstrap", "peering", "ingestSvr", "adminSvr">>
P2PSteps == {"p2pHost", "ingester", "bootstrap", "peering"}

\* The closable component each step creates (reloadPeering sets peering).
Creates == [loadConfig |-> {}, setLogging |-> {}, valueStore |-> {"valueStore"},
            datastore |-> {"dstore"}, unfreeze |-> {}, registry |-> {"registry"},
            findSvr |-> {"findSvr"}, identity |-> {}, p2pHost |-> {"p2pHost"},
            ingester |-> {"ingester"}, bootstrap |-> {"bootstrapper"},
            peering |-> {}, ingestSvr |-> {"ingestSvr"}, adminSvr |-> {"adminSvr"}]

\* Every component that can be open.
Components == {"valueStore", "dstore", "registry", "findSvr", "p2pHost",
               "ingester", "bootstrapper", "ingestSvr", "adminSvr"}

\* defer dstore.Close() and defer bootstrapper.Close(): run whenever
\* daemonAction returns.
Deferred == {"dstore", "bootstrapper"}

\* The start-up step succeeds.
StartStep ==
    /\ pc = "start"
    /\ sstep <= Len(StartSteps)
    /\ LET s == StartSteps[sstep] IN
       IF s \in P2PSteps /\ ~HasP2P
       THEN UNCHANGED <<opened, peering>>
       ELSE /\ opened' = opened \cup Creates[s]
            /\ peering' = IF s = "peering"
                           THEN PeeringResult(InitCfg.peers, Nil, FALSE, FALSE).ps
                           ELSE peering
    /\ sstep' = sstep + 1
    /\ UNCHANGED <<pc, cfg, cfgNil, file, fileFault, seenVer, tickerIv,
                   shutdownTimeout, orphans, sigBuf, tickBuf, rq, admin,
                   canceled, svrErr, startFailed, stage, failedClose,
                   finalErr, sigs, ticks, edits, appliedVars>>

\* The step returns an error (reloadPeering only when Start fails), and so
\* does daemonAction, running its defers; an uninitialized repository
\* exits at once.
StartFails ==
    /\ pc = "start"
    /\ sstep <= Len(StartSteps)
    /\ LET s == StartSteps[sstep] IN
       /\ s \in P2PSteps => HasP2P
       /\ s = "peering" => PeeringResult(InitCfg.peers, Nil, FALSE, TRUE).err
    /\ pc' = "exited"
    /\ finalErr' = "init"
    /\ opened' = opened \ Deferred
    /\ UNCHANGED <<cfg, cfgNil, file, fileFault, seenVer, tickerIv,
                   shutdownTimeout, peering, orphans, sigBuf, tickBuf, rq,
                   admin, canceled, svrErr, startFailed, stage, failedClose,
                   sigs, ticks, edits, sstep, appliedVars>>

\* The servers are started, SIGHUP is routed to reloadSig, the ticker is
\* created, and the loop begins.
StartDone ==
    /\ pc = "start"
    /\ sstep > Len(StartSteps)
    /\ pc' = "loop"
    /\ UNCHANGED <<cfg, cfgNil, file, fileFault, seenVer, tickerIv,
                   shutdownTimeout, peering, orphans, sigBuf, tickBuf, rq,
                   admin, canceled, svrErr, startFailed, stage, failedClose,
                   finalErr, sigs, ticks, edits, startVars, appliedVars>>

-----------------------------------------------------------------------------
(* The environment.                                                        *)

\* SIGHUP: signal.Notify drops the signal when reloadSig is full.  (Before
\* Notify, SIGHUP terminates the process; that is left out.)
Sighup ==
    /\ pc \notin Ended \cup {"start"}
    /\ sigs < MaxSignals
    /\ sigs' = sigs + 1
    /\ sigBuf' = TRUE
    /\ UNCHANGED <<pc, cfg, cfgNil, file, fileFault, seenVer, tickerIv,
                   shutdownTimeout, peering, orphans, tickBuf, rq, admin,
                   canceled, svrErr, startFailed, stage, failedClose,
                   finalErr, ticks, edits>>
    /\ UNCHANGED <<startVars, appliedVars>>

\* A tick of time.Ticker, dropped when the channel is full; none after Stop.
Tick ==
    /\ WatchConfig
    /\ Running
    /\ ticks < MaxTicks
    /\ ticks' = ticks + 1
    /\ tickBuf' = TRUE
    /\ UNCHANGED <<pc, cfg, cfgNil, file, fileFault, seenVer, tickerIv,
                   shutdownTimeout, peering, orphans, sigBuf, rq, admin,
                   canceled, svrErr, startFailed, stage, failedClose,
                   finalErr, sigs, edits>>
    /\ UNCHANGED <<startVars, appliedVars>>

\* The operator edits the config file.
EditConfig ==
    /\ edits < MaxEdits
    /\ edits' = edits + 1
    /\ \E c \in Configs, f \in FileFaults \cup {"none"} : file' = c /\ fileFault' = f
    /\ UNCHANGED <<pc, cfg, cfgNil, seenVer, tickerIv, shutdownTimeout,
                   peering, orphans, sigBuf, tickBuf, rq, admin, canceled,
                   svrErr, startFailed, stage, failedClose, finalErr, sigs,
                   ticks>>
    /\ UNCHANGED <<startVars, appliedVars>>

\* ctrl-c: the command context is cancelled.
Cancel ==
    /\ ~canceled
    /\ pc \notin Ended
    /\ canceled' = TRUE
    /\ UNCHANGED <<pc, cfg, cfgNil, file, fileFault, seenVer, tickerIv,
                   shutdownTimeout, peering, orphans, sigBuf, tickBuf, rq,
                   admin, svrErr, startFailed, stage, failedClose, finalErr,
                   sigs, ticks, edits>>
    /\ UNCHANGED <<startVars, appliedVars>>

\* A server's Start returns an error into svrErrChan (room for all three).
ServerFails ==
    /\ Running
    /\ ~startFailed
    /\ svrErr' = TRUE
    /\ startFailed' = TRUE
    /\ UNCHANGED <<pc, cfg, cfgNil, file, fileFault, seenVer, tickerIv,
                   shutdownTimeout, peering, orphans, sigBuf, tickBuf, rq,
                   admin, canceled, stage, failedClose, finalErr, sigs,
                   ticks, edits>>
    /\ UNCHANGED <<startVars, appliedVars>>

\* POST /admin/reload: the handler sends a fresh error channel on
\* reloadErrsChan, blocking while the buffer is full, then waits on it.
AdminReload(r) ==
    /\ Running
    /\ admin[r] = "idle"
    /\ Len(rq) < 1
    /\ rq' = Append(rq, r)
    /\ admin' = [admin EXCEPT ![r] = "waiting"]
    /\ UNCHANGED <<pc, cfg, cfgNil, file, fileFault, seenVer, tickerIv,
                   shutdownTimeout, peering, orphans, sigBuf, tickBuf,
                   canceled, svrErr, startFailed, stage, failedClose,
                   finalErr, sigs, ticks, edits>>
    /\ UNCHANGED <<startVars, appliedVars>>

-----------------------------------------------------------------------------
(* The main loop: one action per select case.                              *)

\* Mutant: the send does not wait for room in the buffer.
SendNilUnbuffered == rq' = Append(rq, Nil) /\ pc' = "loop"

\* The loop's own reloadErrsChan <- nil: into the buffer if there is room,
\* otherwise the goroutine blocks, and no one else receives from it.
SendNil ==
    IF Len(rq) < 1 THEN rq' = Append(rq, Nil) /\ pc' = "loop"
                   ELSE rq' = rq /\ pc' = "sendNil"

\* case <-cctx.Done(): the loop ends.
LoopCanceled ==
    /\ pc = "loop"
    /\ canceled
    /\ pc' = "shutdown"
    /\ stage' = 1
    /\ UNCHANGED <<cfg, cfgNil, file, fileFault, seenVer, tickerIv,
                   shutdownTimeout, peering, orphans, sigBuf, tickBuf, rq,
                   admin, canceled, svrErr, startFailed, failedClose,
                   finalErr, sigs, ticks, edits>>
    /\ UNCHANGED <<startVars, appliedVars>>

\* case err = <-svrErrChan: finalErr = ErrDaemonStart and the loop ends.
LoopServerError ==
    /\ pc = "loop"
    /\ svrErr
    /\ svrErr' = FALSE
    /\ finalErr' = "start"
    /\ pc' = "shutdown"
    /\ stage' = 1
    /\ UNCHANGED <<cfg, cfgNil, file, fileFault, seenVer, tickerIv,
                   shutdownTimeout, peering, orphans, sigBuf, tickBuf, rq,
                   admin, canceled, startFailed, failedClose, sigs, ticks,
                   edits>>
    /\ UNCHANGED <<startVars, appliedVars>>

\* case <-reloadSig: reloadErrsChan <- nil.
LoopSighup ==
    /\ pc = "loop"
    /\ sigBuf
    /\ sigBuf' = FALSE
    /\ SendNil
    /\ UNCHANGED <<cfg, cfgNil, file, fileFault, seenVer, tickerIv,
                   shutdownTimeout, peering, orphans, tickBuf, admin,
                   canceled, svrErr, startFailed, stage, failedClose,
                   finalErr, sigs, ticks, edits>>
    /\ UNCHANGED <<startVars, appliedVars>>

\* case <-timeChan: FileChanged compares the modification time with the
\* last one seen; a change sends nil on reloadErrsChan.
LoopTick ==
    /\ pc = "loop"
    /\ tickBuf
    /\ tickBuf' = FALSE
    /\ seenVer' = edits
    /\ IF edits # seenVer THEN SendNil ELSE UNCHANGED <<rq, pc>>
    /\ UNCHANGED <<cfg, cfgNil, file, fileFault, tickerIv,
                   shutdownTimeout, peering, orphans, sigBuf, admin,
                   canceled, svrErr, startFailed, stage, failedClose,
                   finalErr, sigs, ticks, edits>>
    /\ UNCHANGED <<startVars, appliedVars>>

\* Mutant: the reload does not answer the admin when reloadConfig fails.
LoopReloadNoAnswer ==
    /\ pc = "loop"
    /\ rq # << >>
    /\ rq' = Tail(rq)
    /\ ~cfgNil
    /\ ReloadConfigFails
    /\ cfgNil' = TRUE
    /\ UNCHANGED <<pc, cfg, file, fileFault, seenVer, tickerIv,
                   shutdownTimeout, peering, orphans, sigBuf, tickBuf, admin,
                   canceled, svrErr, startFailed, stage, failedClose,
                   finalErr, sigs, ticks, edits>>
    /\ UNCHANGED <<startVars, appliedVars>>

\* case errChan := <-reloadErrsChan.  prevCfgChk is read from cfg before
\* reloadConfig replaces it, so the ticker is reset only if the interval
\* differs from itself.  With cfg nil from an earlier failed reload, the
\* read of cfg.Indexer panics.  reloadConfig sets the new policy, then the
\* new rate limit, before the step that may reject the file; on an error
\* cfg becomes nil and
\* answers an error; otherwise the shutdown timeout is taken, the peering
\* service reloaded (an error is answered to an admin request, and falls
\* through for a nil one) and the admin request answered.
LoopReload ==
    /\ pc = "loop"
    /\ rq # << >>
    /\ rq' = Tail(rq)
    /\ LET e == Head(rq) IN
       IF cfgNil
       THEN /\ pc' = "panicked"
            /\ UNCHANGED <<cfg, cfgNil, tickerIv, shutdownTimeout, peering,
                           orphans, admin, appliedVars>>
       ELSE LET prevCfgChk == cfg.chk IN
            /\ tickerIv' = IF prevCfgChk # cfg.chk THEN cfg.chk ELSE tickerIv
            /\ pc' = "loop"
            /\ policyOf' = IF PolicySet THEN file ELSE policyOf
            /\ rateOf' = IF RateSet THEN file ELSE rateOf
            /\ IF ReloadConfigFails
               THEN /\ cfgNil' = TRUE
                    /\ admin' = Answer(e, "err")
                    /\ UNCHANGED <<cfg, shutdownTimeout, peering, orphans>>
               ELSE \E stopFails, startFails \in BOOLEAN :
                    LET pr == IF HasP2P
                              THEN PeeringResult(file.peers, peering, stopFails, startFails)
                              ELSE [ps |-> peering, err |-> FALSE, lost |-> 0]
                    IN /\ cfg' = file
                       /\ cfgNil' = FALSE
                       /\ shutdownTimeout' = file.shto
                       /\ peering' = pr.ps
                       /\ orphans' = orphans + pr.lost
                       /\ admin' = Answer(e, IF pr.err THEN "err" ELSE "ok")
    /\ UNCHANGED <<file, fileFault, seenVer, sigBuf, tickBuf, canceled,
                   svrErr, startFailed, stage, failedClose, finalErr, sigs,
                   ticks, edits>>
    /\ UNCHANGED startVars

-----------------------------------------------------------------------------
(* Shutdown, after ticker.Stop.                                            *)

\* Closing one component: peeringService.Stop (if running; an error is only
\* logged), ingestSvr, findSvr and adminSvr Close, ingester.Close and
\* valueStore.Close (an error sets ErrDaemonStop), reg.Close, and
\* dstore.Close (its error is dropped).
ShutdownStep ==
    /\ pc = "shutdown"
    /\ stage <= Len(Closers)
    /\ LET c == Closers[stage]
           live == IF c = "peering" THEN peering = "running" ELSE c \in opened
       IN \E fails \in IF live /\ c \in FailingClosers THEN BOOLEAN ELSE {FALSE} :
          /\ failedClose' = IF fails THEN failedClose \cup {c} ELSE failedClose
          /\ finalErr' = IF fails /\ c \in CheckedClosers THEN "stop" ELSE finalErr
          /\ peering' = IF c = "peering" THEN Nil ELSE peering
          /\ opened' = opened \ {c}
    /\ stage' = stage + 1
    /\ UNCHANGED <<pc, cfg, cfgNil, file, fileFault, seenVer, tickerIv,
                   shutdownTimeout, orphans, sigBuf, tickBuf, rq, admin,
                   canceled, svrErr, startFailed, sigs, ticks, edits, sstep>>
    /\ UNCHANGED appliedVars

\* Mutant: the last closer is never reached, so daemonAction never returns.
ShutdownDoneOffByOne ==
    /\ pc = "shutdown"
    /\ stage > Len(Closers) + 1
    /\ pc' = "exited"
    /\ opened' = opened \ Deferred
    /\ UNCHANGED <<cfg, cfgNil, file, fileFault, seenVer, tickerIv,
                   shutdownTimeout, peering, orphans, sigBuf, tickBuf, rq,
                   admin, canceled, svrErr, startFailed, stage, failedClose,
                   finalErr, sigs, ticks, edits, sstep>>
    /\ UNCHANGED appliedVars

\* daemonAction returns finalErr; its defers run.
ShutdownDone ==
    /\ pc = "shutdown"
    /\ stage > Len(Closers)
    /\ pc' = "exited"
    /\ opened' = opened \ Deferred
    /\ UNCHANGED <<cfg, cfgNil, file, fileFault, seenVer, tickerIv,
                   shutdownTimeout, peering, orphans, sigBuf, tickBuf, rq,
                   admin, canceled, svrErr, startFailed, stage, failedClose,
                   finalErr, sigs, ticks, edits, sstep>>
    /\ UNCHANGED appliedVars

\* The shutdown timer goroutine: os.Exit(-1) when the timeout passes first.
ShutdownTimer ==
    /\ pc = "shutdown"
    /\ shutdownTimeout
    /\ pc' = "killed"
    /\ UNCHANGED <<cfg, cfgNil, file, fileFault, seenVer, tickerIv,
                   shutdownTimeout, peering, orphans, sigBuf, tickBuf, rq,
                   admin, canceled, svrErr, startFailed, stage, failedClose,
                   finalErr, sigs, ticks, edits>>
    /\ UNCHANGED <<startVars, appliedVars>>

-----------------------------------------------------------------------------
MainLoop ==
    \/ StartStep
    \/ StartFails
    \/ StartDone
    \/ LoopCanceled
    \/ LoopServerError
    \/ LoopSighup
    \/ LoopTick
    \/ LoopReload
    \/ ShutdownStep
    \/ ShutdownDone

Environment ==
    \/ Sighup
    \/ Tick
    \/ EditConfig
    \/ Cancel
    \/ ServerFails
    \/ \E r \in Admins : AdminReload(r)
    \/ ShutdownTimer

Next == MainLoop \/ Environment

\* The main goroutine is scheduled whenever one of its select cases is
\* ready; signals, ticks, edits, requests and failures are not forced.
Spec == Init /\ [][Next]_vars /\ WF_vars(MainLoop)

-----------------------------------------------------------------------------
TypeOK ==
    /\ pc \in {"start", "loop", "sendNil", "panicked", "shutdown", "exited", "killed"}
    /\ cfg \in Configs /\ file \in Configs
    /\ cfgNil \in BOOLEAN /\ fileFault \in FileFaults \cup {"none"}
    /\ seenVer \in 0..MaxEdits
    /\ tickerIv \in Nat
    /\ shutdownTimeout \in BOOLEAN
    /\ peering \in {Nil, "running"}
    /\ orphans \in Nat
    /\ sigBuf \in BOOLEAN /\ tickBuf \in BOOLEAN
    /\ rq \in Seq(Admins \cup {Nil}) /\ Len(rq) <= 1
    /\ admin \in [Admins -> {"idle", "waiting", "ok", "err"}]
    /\ canceled \in BOOLEAN /\ svrErr \in BOOLEAN /\ startFailed \in BOOLEAN
    /\ stage \in 0..Len(Closers) + 1
    /\ failedClose \subseteq FailingClosers
    /\ finalErr \in {"none", "init", "start", "stop"}
    /\ sigs \in 0..MaxSignals /\ ticks \in 0..MaxTicks /\ edits \in 0..MaxEdits
    /\ policyOf \in Configs /\ rateOf \in Configs
    /\ sstep \in 1..Len(StartSteps) + 1
    /\ opened \subseteq Components

(* An admin reload handler that is waiting for its answer has its request  *)
(* still in reloadErrsChan, or the daemon has stopped serving reloads: the *)
(* loop answers every errChan it takes, on every path of the reload.       *)
NoForgottenRequest ==
    \A r \in Admins :
        admin[r] = "waiting" => (rq # << >> /\ Head(rq) = r) \/ ~Running

(* The loop never dereferences a nil cfg: a reload after a failed reload   *)
(* must not panic the daemon.                                              *)
NoNilConfigDeref == pc # "panicked"

(* At most one peering service runs at a time, so that reloads never leave *)
(* a stale one connecting to peers that were removed from the config.      *)
AtMostOnePeering == orphans + (IF peering = "running" THEN 1 ELSE 0) <= 1

(* Exit code: daemonAction returns an error whenever stopping a component  *)
(* failed, as the CLI promises (non-zero on daemon stop failure).          *)
ExitStatusReflectsFailures == pc = "exited" /\ failedClose # {} => finalErr # "none"

(* ctrl-c always ends the daemon: once the command context is cancelled    *)
(* the process eventually exits (or is killed by the shutdown timer).      *)
CancelHonoured == canceled ~> pc \in Ended

(* Every admin reload request is answered, unless the daemon stops first.  *)
AdminAnswered ==
    \A r \in Admins :
        admin[r] = "waiting" ~> (admin[r] \in {"ok", "err"} \/ ~Running)

(* A reload that reports failure (cfg becomes nil) changes no setting: the *)
(* registry keeps its policy and the ingester its rate limit, as a reload  *)
(* that swaps the runtime parameters as one unit would.                    *)
ReloadAtomic ==
    [][~cfgNil /\ cfgNil' => UNCHANGED appliedVars]_vars
=============================================================================
