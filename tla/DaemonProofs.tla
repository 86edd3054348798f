---------------------------- MODULE DaemonProofs ----------------------------
(* Proofs about the daemon's main loop: its state stays well typed (the    *)
(* reload channel never holds more than its one slot), and no admin reload *)
(* request is forgotten, for every set of admins, configs and bounds.      *)
EXTENDS Daemon, TLAPS

USE ConstantsAssumption

\* reloadPeering leaves peeringService nil or running, and leaks at most one.
LEMMA PeeringResultType ==
    ASSUME NEW peers \in PeerLists, NEW ps \in {Nil, "running"},
           NEW stopFails \in BOOLEAN, NEW startFails \in BOOLEAN
    PROVE  /\ PeeringResult(peers, ps, stopFails, startFails).ps \in {Nil, "running"}
           /\ PeeringResult(peers, ps, stopFails, startFails).lost \in Nat
           /\ PeeringResult(peers, ps, stopFails, startFails).err \in BOOLEAN
BY DEF PeeringResult, PeerLists, Nil

\* Each start-up step creates only components of Components.
LEMMA CreatesType ==
    ASSUME NEW i \in 1..Len(StartSteps) PROVE Creates[StartSteps[i]] \subseteq Components
BY DEF Creates, StartSteps, Components

\* The loop's answer to an admin request keeps admin a function on Admins.
LEMMA AnswerType ==
    ASSUME NEW e \in Admins \cup {Nil}, NEW v \in {"ok", "err"},
           admin \in [Admins -> {"idle", "waiting", "ok", "err"}]
    PROVE  Answer(e, v) \in [Admins -> {"idle", "waiting", "ok", "err"}]
BY DEF Answer

\* The loop's own send keeps the one-slot channel within its capacity.
LEMMA SendNilType ==
    ASSUME NEW S, rq \in Seq(S), Len(rq) <= 1, Nil \in S, SendNil
    PROVE  rq' \in Seq(S) /\ Len(rq') <= 1 /\ pc' \in {"loop", "sendNil"}
BY DEF SendNil

\* Receiving from the one-slot channel empties it.
LEMMA TailOne ==
    ASSUME NEW S, NEW q \in Seq(S), Len(q) <= 1, q # << >>
    PROVE  Tail(q) = << >> /\ Head(q) \in S
OBVIOUS

(* TypeOK split in two: the flags, which Zenon handles, and the rest,      *)
(* which needs arithmetic and sequences and goes to SMT.                   *)
TypeBool ==
    /\ cfgNil \in BOOLEAN /\ shutdownTimeout \in BOOLEAN
    /\ sigBuf \in BOOLEAN /\ tickBuf \in BOOLEAN
    /\ canceled \in BOOLEAN /\ svrErr \in BOOLEAN /\ startFailed \in BOOLEAN

TypeRest ==
    /\ pc \in {"start", "loop", "sendNil", "panicked", "shutdown", "exited", "killed"}
    /\ cfg \in Configs /\ file \in Configs
    /\ fileFault \in FileFaults \cup {"none"}
    /\ seenVer \in 0..MaxEdits
    /\ tickerIv \in Nat
    /\ peering \in {Nil, "running"}
    /\ orphans \in Nat
    /\ rq \in Seq(Admins \cup {Nil}) /\ Len(rq) <= 1
    /\ admin \in [Admins -> {"idle", "waiting", "ok", "err"}]
    /\ stage \in 0..Len(Closers) + 1
    /\ failedClose \subseteq FailingClosers
    /\ finalErr \in {"none", "init", "start", "stop"}
    /\ sigs \in 0..MaxSignals /\ ticks \in 0..MaxTicks /\ edits \in 0..MaxEdits
    /\ policyOf \in Configs /\ rateOf \in Configs
    /\ sstep \in 1..Len(StartSteps) + 1
    /\ opened \subseteq Components

(* The two halves of TypeRest, for steps too large for one SMT call.       *)
TypeCfg ==
    /\ cfg \in Configs /\ file \in Configs
    /\ policyOf \in Configs /\ rateOf \in Configs
    /\ fileFault \in FileFaults \cup {"none"}
    /\ tickerIv \in Nat
    /\ peering \in {Nil, "running"}
    /\ orphans \in Nat
    /\ admin \in [Admins -> {"idle", "waiting", "ok", "err"}]

TypeCtl ==
    /\ pc \in {"start", "loop", "sendNil", "panicked", "shutdown", "exited", "killed"}
    /\ seenVer \in 0..MaxEdits
    /\ rq \in Seq(Admins \cup {Nil}) /\ Len(rq) <= 1
    /\ stage \in 0..Len(Closers) + 1
    /\ failedClose \subseteq FailingClosers
    /\ finalErr \in {"none", "init", "start", "stop"}
    /\ sigs \in 0..MaxSignals /\ ticks \in 0..MaxTicks /\ edits \in 0..MaxEdits
    /\ sstep \in 1..Len(StartSteps) + 1
    /\ opened \subseteq Components

LEMMA TypeRestParts == TypeRest <=> TypeCfg /\ TypeCtl
BY Zenon DEF TypeRest, TypeCfg, TypeCtl

LEMMA TypeOKParts == TypeOK <=> TypeBool /\ TypeRest
BY Zenon DEF TypeOK, TypeBool, TypeRest

\* Sending on the empty one-slot channel.
LEMMA AppendEmpty ==
    ASSUME NEW S, NEW q \in Seq(S), Len(q) < 1, NEW x
    PROVE  q = << >> /\ Append(q, x) = << x >>
<1>1. Len(q) = 0
    OBVIOUS
<1>2. q = << >>
    BY <1>1
<1> QED BY <1>2

LEMMA TypeOKInit == Init => TypeOK
<1> SUFFICES ASSUME Init PROVE TypeBool /\ TypeRest
    BY TypeOKParts
<1>1. TypeBool
    BY Zenon DEF Init, TypeBool
<1>2. TypeRest
    BY DEF Init, TypeRest, StartSteps, Closers
<1> QED BY <1>1, <1>2

\* One lemma per action: each keeps TypeOK.
LEMMA StartFailsType == TypeOK /\ StartFails => TypeOK'
<1> SUFFICES ASSUME TypeBool, TypeRest, StartFails PROVE TypeBool' /\ TypeRest'
    BY TypeOKParts, Zenon DEF TypeOK, TypeBool, TypeRest
<1>1. TypeBool'
    BY Zenon DEF StartFails, TypeBool, Deferred, appliedVars
<1>2. TypeRest'
    BY DEF StartFails, TypeRest, Deferred, appliedVars
<1> QED BY <1>1, <1>2

LEMMA StartDoneType == TypeOK /\ StartDone => TypeOK'
<1> SUFFICES ASSUME TypeBool, TypeRest, StartDone PROVE TypeBool' /\ TypeRest'
    BY TypeOKParts, Zenon DEF TypeOK, TypeBool, TypeRest
<1>1. TypeBool'
    BY Zenon DEF StartDone, TypeBool, startVars, appliedVars
<1>2. TypeRest'
    BY DEF StartDone, TypeRest, startVars, appliedVars
<1> QED BY <1>1, <1>2

LEMMA CanceledType == TypeOK /\ LoopCanceled => TypeOK'
<1> SUFFICES ASSUME TypeBool, TypeRest, LoopCanceled PROVE TypeBool' /\ TypeRest'
    BY TypeOKParts, Zenon DEF TypeOK, TypeBool, TypeRest
<1>1. TypeBool'
    BY Zenon DEF LoopCanceled, TypeBool, startVars, appliedVars, Closers
<1>2. TypeRest'
    BY DEF LoopCanceled, TypeRest, startVars, appliedVars, Closers
<1> QED BY <1>1, <1>2

LEMMA ServerErrorType == TypeOK /\ LoopServerError => TypeOK'
<1> SUFFICES ASSUME TypeBool, TypeRest, LoopServerError PROVE TypeBool' /\ TypeRest'
    BY TypeOKParts, Zenon DEF TypeOK, TypeBool, TypeRest
<1>1. TypeBool'
    BY Zenon DEF LoopServerError, TypeBool, startVars, appliedVars, Closers
<1>2. TypeRest'
    BY DEF LoopServerError, TypeRest, startVars, appliedVars, Closers
<1> QED BY <1>1, <1>2

LEMMA ShutdownDoneType == TypeOK /\ ShutdownDone => TypeOK'
<1> SUFFICES ASSUME TypeBool, TypeRest, ShutdownDone PROVE TypeBool' /\ TypeRest'
    BY TypeOKParts, Zenon DEF TypeOK, TypeBool, TypeRest
<1>1. TypeBool'
    BY Zenon DEF ShutdownDone, TypeBool, appliedVars, Deferred
<1>2. TypeRest'
    BY DEF ShutdownDone, TypeRest, appliedVars, Deferred
<1> QED BY <1>1, <1>2

LEMMA ShutdownTimerType == TypeOK /\ ShutdownTimer => TypeOK'
<1> SUFFICES ASSUME TypeBool, TypeRest, ShutdownTimer PROVE TypeBool' /\ TypeRest'
    BY TypeOKParts, Zenon DEF TypeOK, TypeBool, TypeRest
<1>1. TypeBool'
    BY Zenon DEF ShutdownTimer, TypeBool, startVars, appliedVars
<1>2. TypeRest'
    BY DEF ShutdownTimer, TypeRest, startVars, appliedVars
<1> QED BY <1>1, <1>2

LEMMA EnvSighupType == TypeOK /\ Sighup => TypeOK'
<1> SUFFICES ASSUME TypeBool, TypeRest, Sighup PROVE TypeBool' /\ TypeRest'
    BY TypeOKParts, Zenon DEF TypeOK, TypeBool, TypeRest
<1>1. TypeBool'
    BY Zenon DEF Sighup, TypeBool, startVars, appliedVars
<1>2. TypeRest'
    BY DEF Sighup, TypeRest, startVars, appliedVars
<1> QED BY <1>1, <1>2

LEMMA EnvTickType == TypeOK /\ Tick => TypeOK'
<1> SUFFICES ASSUME TypeBool, TypeRest, Tick PROVE TypeBool' /\ TypeRest'
    BY TypeOKParts, Zenon DEF TypeOK, TypeBool, TypeRest
<1>1. TypeBool'
    BY Zenon DEF Tick, TypeBool, startVars, appliedVars
<1>2. TypeRest'
    BY DEF Tick, TypeRest, startVars, appliedVars
<1> QED BY <1>1, <1>2

LEMMA CancelType == TypeOK /\ Cancel => TypeOK'
<1> SUFFICES ASSUME TypeBool, TypeRest, Cancel PROVE TypeBool' /\ TypeRest'
    BY TypeOKParts, Zenon DEF TypeOK, TypeBool, TypeRest
<1>1. TypeBool'
    BY Zenon DEF Cancel, TypeBool, startVars, appliedVars
<1>2. TypeRest'
    BY DEF Cancel, TypeRest, startVars, appliedVars
<1> QED BY <1>1, <1>2

LEMMA ServerFailsType == TypeOK /\ ServerFails => TypeOK'
<1> SUFFICES ASSUME TypeBool, TypeRest, ServerFails PROVE TypeBool' /\ TypeRest'
    BY TypeOKParts, Zenon DEF TypeOK, TypeBool, TypeRest
<1>1. TypeBool'
    BY Zenon DEF ServerFails, TypeBool, startVars, appliedVars
<1>2. TypeRest'
    BY DEF ServerFails, TypeRest, startVars, appliedVars
<1> QED BY <1>1, <1>2

LEMMA StartStepType == TypeOK /\ StartStep => TypeOK'
<1> SUFFICES ASSUME TypeBool, TypeRest, StartStep PROVE TypeBool' /\ TypeRest'
    BY TypeOKParts, Zenon DEF TypeOK, TypeBool, TypeRest
<1>1. TypeBool'
    BY Zenon DEF StartStep, TypeBool, appliedVars
<1>2. sstep \in 1..Len(StartSteps)
    BY DEF StartStep, TypeRest
<1>3. PeeringResult(InitCfg.peers, Nil, FALSE, FALSE).ps \in {Nil, "running"}
    BY PeeringResultType
<1>4. opened' \subseteq Components
    BY <1>2, CreatesType DEF StartStep, TypeRest
<1>5. peering' \in {Nil, "running"}
    BY <1>3 DEF StartStep, TypeRest
<1>6. TypeRest'
    BY <1>2, <1>4, <1>5, SMTT(60) DEF StartStep, TypeRest, appliedVars
<1> QED BY <1>1, <1>6

LEMMA SighupType == TypeOK /\ LoopSighup => TypeOK'
<1> SUFFICES ASSUME TypeBool, TypeRest, LoopSighup PROVE TypeBool' /\ TypeRest'
    BY TypeOKParts, Zenon DEF TypeOK, TypeBool, TypeRest
<1>1. TypeBool'
    BY Zenon DEF LoopSighup, TypeBool, startVars, appliedVars
<1>2. rq' \in Seq(Admins \cup {Nil}) /\ Len(rq') <= 1 /\ pc' \in {"loop", "sendNil"}
    BY SendNilType DEF LoopSighup, TypeRest
<1>3. TypeRest'
    BY <1>2 DEF LoopSighup, TypeRest, startVars, appliedVars
<1> QED BY <1>1, <1>3

LEMMA TickType == TypeOK /\ LoopTick => TypeOK'
<1> SUFFICES ASSUME TypeBool, TypeRest, LoopTick PROVE TypeBool' /\ TypeRest'
    BY TypeOKParts, Zenon DEF TypeOK, TypeBool, TypeRest
<1>1. TypeBool'
    BY Zenon DEF LoopTick, TypeBool, startVars, appliedVars
<1>2. rq' \in Seq(Admins \cup {Nil}) /\ Len(rq') <= 1 /\ pc' \in {"loop", "sendNil"}
    <2>1. CASE edits # seenVer
        BY <2>1, SendNilType DEF LoopTick, TypeRest
    <2>2. CASE edits = seenVer
        BY <2>2 DEF LoopTick, TypeRest
    <2> QED BY <2>1, <2>2
<1>3. TypeRest'
    BY <1>2 DEF LoopTick, TypeRest, startVars, appliedVars
<1> QED BY <1>1, <1>3

LEMMA ShutdownStepType == TypeOK /\ ShutdownStep => TypeOK'
<1> SUFFICES ASSUME TypeBool, TypeRest, ShutdownStep PROVE TypeBool' /\ TypeRest'
    BY TypeOKParts, Zenon DEF TypeOK, TypeBool, TypeRest
<1>1. TypeBool'
    BY Zenon DEF ShutdownStep, TypeBool
<1>2. stage \in 0..Len(Closers) /\ stage' = stage + 1
    BY DEF ShutdownStep, TypeRest
<1>3. PICK fails \in BOOLEAN :
        /\ failedClose' = IF fails THEN failedClose \cup {Closers[stage]} ELSE failedClose
        /\ fails => Closers[stage] \in FailingClosers
        /\ finalErr' = IF fails /\ Closers[stage] \in CheckedClosers THEN "stop" ELSE finalErr
        /\ peering' = IF Closers[stage] = "peering" THEN Nil ELSE peering
        /\ opened' = opened \ {Closers[stage]}
    BY DEF ShutdownStep
<1>4. /\ failedClose' \subseteq FailingClosers
      /\ finalErr' \in {"none", "init", "start", "stop"}
      /\ peering' \in {Nil, "running"}
      /\ opened' \subseteq Components
    BY <1>3 DEF TypeRest
<1>5. /\ UNCHANGED <<pc, cfg, file, fileFault, seenVer, tickerIv, orphans, rq, admin>>
      /\ UNCHANGED <<sigs, ticks, edits, sstep, policyOf, rateOf>>
    BY DEF ShutdownStep, appliedVars
<1>6. TypeRest'
    <2>1. TypeCfg'
        BY <1>4, <1>5, SMTT(60) DEF TypeRest, TypeCfg
    <2>2. TypeCtl'
        BY <1>2, <1>4, <1>5, SMTT(60) DEF TypeRest, TypeCtl
    <2> QED BY <2>1, <2>2, Zenon DEF TypeRest, TypeCfg, TypeCtl
<1> QED BY <1>1, <1>6

LEMMA EditConfigType == TypeOK /\ EditConfig => TypeOK'
<1> SUFFICES ASSUME TypeBool, TypeRest, EditConfig PROVE TypeBool' /\ TypeRest'
    BY TypeOKParts, Zenon DEF TypeOK, TypeBool, TypeRest
<1>1. TypeBool'
    BY Zenon DEF EditConfig, TypeBool
<1>2. PICK c \in Configs, f \in FileFaults \cup {"none"} : file' = c /\ fileFault' = f
    BY DEF EditConfig
<1>3. /\ edits' = edits + 1 /\ edits < MaxEdits
      /\ UNCHANGED <<pc, cfg, seenVer, tickerIv, peering, orphans, rq, admin>>
      /\ UNCHANGED <<stage, failedClose, finalErr, sigs, ticks>>
      /\ UNCHANGED <<sstep, opened, policyOf, rateOf>>
    BY DEF EditConfig, startVars, appliedVars
<1>4. TypeRest'
    <2>1. TypeCfg'
        BY <1>2, <1>3, SMTT(60) DEF TypeRest, TypeCfg
    <2>2. TypeCtl'
        BY <1>3, SMTT(60) DEF TypeRest, TypeCtl
    <2> QED BY <2>1, <2>2, Zenon DEF TypeRest, TypeCfg, TypeCtl
<1> QED BY <1>1, <1>4

LEMMA AdminReloadType ==
    ASSUME NEW r \in Admins PROVE  TypeOK /\ AdminReload(r) => TypeOK'
<1> SUFFICES ASSUME TypeBool, TypeRest, AdminReload(r) PROVE TypeBool' /\ TypeRest'
    BY TypeOKParts, Zenon DEF TypeOK, TypeBool, TypeRest
<1>1. TypeBool'
    BY Zenon DEF AdminReload, TypeBool
<1>2. TypeRest'
    BY DEF AdminReload, TypeRest, startVars, appliedVars
<1> QED BY <1>1, <1>2

LEMMA StutterType == TypeOK /\ UNCHANGED vars => TypeOK'
BY DEF vars, TypeOK

LEMMA ReloadType == TypeOK /\ LoopReload => TypeOK'
<1> SUFFICES ASSUME TypeBool, TypeRest, LoopReload PROVE TypeBool' /\ TypeRest'
    BY TypeOKParts, Zenon DEF TypeOK, TypeBool, TypeRest
<1>1. rq' = << >> /\ Head(rq) \in Admins \cup {Nil}
    BY TailOne DEF LoopReload, TypeRest
<1>2. policyOf' \in Configs /\ rateOf' \in Configs /\ pc' \in {"loop", "panicked"}
    BY DEF LoopReload, TypeRest, appliedVars
<1>3. /\ UNCHANGED <<file, fileFault, seenVer, sigBuf, tickBuf, canceled, svrErr>>
      /\ UNCHANGED <<startFailed, stage, failedClose, finalErr, sigs, ticks, edits>>
      /\ UNCHANGED <<sstep, opened>>
    BY DEF LoopReload, startVars
<1>4. tickerIv' \in Nat
    BY DEF LoopReload, TypeRest
<1>5. CASE cfgNil
    <2>1. UNCHANGED <<cfg, cfgNil, shutdownTimeout, peering, orphans, admin>>
        BY <1>5 DEF LoopReload
    <2>2. TypeBool'
        BY <1>3, <2>1, Zenon DEF TypeBool
    <2>3. TypeRest'
        <3>1. TypeCfg'
            BY <1>1, <1>2, <1>3, <1>4, <2>1, SMTT(60) DEF TypeRest, TypeCfg
        <3>2. TypeCtl'
            BY <1>1, <1>2, <1>3, SMTT(60) DEF TypeRest, TypeCtl
        <3> QED BY <3>1, <3>2, Zenon DEF TypeRest, TypeCfg, TypeCtl
    <2> QED BY <2>2, <2>3
<1>6. CASE ~cfgNil /\ ReloadConfigFails
    <2>1. /\ cfgNil' = TRUE
          /\ admin' = Answer(Head(rq), "err")
          /\ UNCHANGED <<cfg, shutdownTimeout, peering, orphans>>
        BY <1>6 DEF LoopReload
    <2>2. TypeBool'
        BY <1>3, <2>1, Zenon DEF TypeBool
    <2>3. admin' \in [Admins -> {"idle", "waiting", "ok", "err"}]
        BY <1>1, <2>1, AnswerType DEF TypeRest
    <2>4. TypeRest'
        <3>1. TypeCfg'
            BY <1>1, <1>2, <1>3, <1>4, <2>1, <2>3, SMTT(60) DEF TypeRest, TypeCfg
        <3>2. TypeCtl'
            BY <1>1, <1>2, <1>3, SMTT(60) DEF TypeRest, TypeCtl
        <3> QED BY <3>1, <3>2, Zenon DEF TypeRest, TypeCfg, TypeCtl
    <2> QED BY <2>2, <2>4
<1>7. CASE ~cfgNil /\ ~ReloadConfigFails
    <2>1. PICK pr \in [ps : {Nil, "running"}, lost : Nat, err : BOOLEAN] :
               /\ cfg' = file
               /\ cfgNil' = FALSE
               /\ shutdownTimeout' = file.shto
               /\ peering' = pr.ps
               /\ orphans' = orphans + pr.lost
               /\ admin' = Answer(Head(rq), IF pr.err THEN "err" ELSE "ok")
        <3>1. PICK stopFails \in BOOLEAN, startFails \in BOOLEAN :
                LET pr == IF HasP2P
                          THEN PeeringResult(file.peers, peering, stopFails, startFails)
                          ELSE [ps |-> peering, err |-> FALSE, lost |-> 0]
                IN /\ cfg' = file
                   /\ cfgNil' = FALSE
                   /\ shutdownTimeout' = file.shto
                   /\ peering' = pr.ps
                   /\ orphans' = orphans + pr.lost
                   /\ admin' = Answer(Head(rq), IF pr.err THEN "err" ELSE "ok")
            BY <1>7 DEF LoopReload
        <3>2. file.peers \in PeerLists
            BY DEF TypeRest
        <3>3. CASE HasP2P
            <4>1. PeeringResult(file.peers, peering, stopFails, startFails)
                    \in [ps : {Nil, "running"}, lost : Nat, err : BOOLEAN]
                BY <3>2, PeeringResultType DEF TypeRest, PeeringResult
            <4> QED BY <3>1, <3>3, <4>1
        <3>4. CASE ~HasP2P
            BY <3>1, <3>4 DEF TypeRest
        <3> QED BY <3>3, <3>4
    <2>2. file.shto \in BOOLEAN
        BY DEF TypeRest
    <2>3. TypeBool'
        BY <1>3, <2>1, <2>2, Zenon DEF TypeBool
    <2>4. /\ cfg' \in Configs
          /\ peering' \in {Nil, "running"} /\ orphans' \in Nat
          /\ admin' \in [Admins -> {"idle", "waiting", "ok", "err"}]
        <3>1. cfg' \in Configs /\ peering' \in {Nil, "running"} /\ orphans' \in Nat
            BY <2>1, SMTT(60) DEF TypeRest, TypeCfg
        <3>2. (IF pr.err THEN "err" ELSE "ok") \in {"ok", "err"}
            OBVIOUS
        <3>3. admin' \in [Admins -> {"idle", "waiting", "ok", "err"}]
            BY <1>1, <2>1, <3>2, AnswerType DEF TypeRest
        <3> QED BY <3>1, <3>3
    <2>5. TypeRest'
        <3>1. TypeCfg'
            BY <1>1, <1>2, <1>3, <1>4, <2>4, SMTT(60) DEF TypeRest, TypeCfg
        <3>2. TypeCtl'
            BY <1>1, <1>2, <1>3, SMTT(60) DEF TypeRest, TypeCtl
        <3> QED BY <3>1, <3>2, Zenon DEF TypeRest, TypeCfg, TypeCtl
    <2> QED BY <2>3, <2>5
<1> QED BY <1>5, <1>6, <1>7

\* TypeOK is inductive.
THEOREM TypeOKStep == TypeOK /\ [Next]_vars => TypeOK'
BY StartStepType, StartFailsType, StartDoneType, CanceledType, ServerErrorType,
   SighupType, TickType, ReloadType, ShutdownStepType, ShutdownDoneType,
   ShutdownTimerType, EnvSighupType, EnvTickType, EditConfigType, CancelType,
   ServerFailsType, AdminReloadType, StutterType
   DEF Next, MainLoop, Environment

(* The daemon's state keeps its types for every set of admins and configs  *)
(* and every bound: in particular reloadErrsChan, a channel of capacity    *)
(* one, never holds more than one errChan however SIGHUPs, ticks and admin *)
(* requests interleave (the loop's own send blocks instead).               *)
THEOREM TypeCorrect == Spec => []TypeOK
BY TypeOKInit, TypeOKStep, PTL DEF Spec

-----------------------------------------------------------------------------
(* No forgotten admin request.  NoForgottenRequest alone is not inductive: *)
(* StartDone enters the loop, and it holds there only because no admin can *)
(* be waiting before the loop runs (AdminReload needs Running).            *)
StartIdle == pc = "start" => \A r \in Admins : admin[r] = "idle"

IInv == TypeOK /\ NoForgottenRequest /\ StartIdle

\* Steps that touch neither pc, the channel nor the admins keep both.
LEMMA NFRUnchanged ==
    ASSUME NoForgottenRequest, StartIdle, UNCHANGED <<pc, rq, admin>>
    PROVE  NoForgottenRequest' /\ StartIdle'
BY DEF NoForgottenRequest, StartIdle, Running

\* Once the loop is left, no admin can be owed an answer by it.
LEMMA NFRStopped ==
    ASSUME pc' \in {"shutdown", "exited", "killed", "panicked"}
    PROVE  NoForgottenRequest' /\ StartIdle'
BY DEF NoForgottenRequest, StartIdle, Running

\* The loop's own send: it only adds nil to an empty channel, which no
\* waiting admin can be relying on while the loop runs.
LEMMA NFRSendNil ==
    ASSUME TypeOK, NoForgottenRequest, pc = "loop", admin' = admin, SendNil
    PROVE  NoForgottenRequest' /\ StartIdle'
<1>1. CASE Len(rq) < 1
    <2>0. rq \in Seq(Admins \cup {Nil})
        BY DEF TypeOK
    <2>3. rq' = Append(rq, Nil) /\ pc' = "loop"
        BY <1>1 DEF SendNil
    <2>1. rq = << >> /\ rq' = << Nil >> /\ pc' = "loop"
        BY <1>1, <2>0, <2>3, AppendEmpty
    <2>2. \A r \in Admins : admin[r] # "waiting"
        BY <2>1 DEF NoForgottenRequest, Running
    <2> QED BY <2>1, <2>2 DEF NoForgottenRequest, StartIdle, Running
<1>2. CASE ~(Len(rq) < 1)
    <2>1. rq' = rq /\ pc' = "sendNil"
        BY <1>2 DEF SendNil
    <2> QED BY <2>1 DEF NoForgottenRequest, StartIdle, Running
<1> QED BY <1>1, <1>2

\* The reload case answers the errChan it received, on every path but the
\* nil-cfg panic, which ends the loop.
LEMMA NFRReload ==
    ASSUME TypeOK, NoForgottenRequest, LoopReload
    PROVE  NoForgottenRequest' /\ StartIdle'
<1>1. rq' = << >> /\ Head(rq) \in Admins \cup {Nil} /\ pc = "loop"
    BY TailOne DEF LoopReload, TypeOK
<1>2. CASE cfgNil
    BY <1>2, NFRStopped DEF LoopReload
<1>3. CASE ~cfgNil
    <2>1. pc' = "loop"
        BY <1>3 DEF LoopReload
    <2>2. PICK v \in {"ok", "err"} : admin' = Answer(Head(rq), v)
        <3>1. CASE ReloadConfigFails
            BY <1>3, <3>1 DEF LoopReload
        <3>2. CASE ~ReloadConfigFails
            <4>1. PICK stopFails \in BOOLEAN, startFails \in BOOLEAN :
                    LET pr == IF HasP2P
                              THEN PeeringResult(file.peers, peering, stopFails, startFails)
                              ELSE [ps |-> peering, err |-> FALSE, lost |-> 0]
                    IN admin' = Answer(Head(rq), IF pr.err THEN "err" ELSE "ok")
                BY <1>3, <3>2 DEF LoopReload
            <4> QED BY <4>1
        <3> QED BY <3>1, <3>2
    <2>3. ASSUME NEW r \in Admins PROVE admin'[r] # "waiting"
        <3>1. CASE r = Head(rq)
            BY <2>2, <3>1 DEF Answer, TypeOK
        <3>2. CASE r # Head(rq)
            <4>1. admin'[r] = admin[r]
                BY <2>2, <3>2 DEF Answer, TypeOK
            <4> QED BY <1>1, <3>2, <4>1 DEF NoForgottenRequest, Running
        <3> QED BY <3>1, <3>2
    <2> QED BY <2>1, <2>3 DEF NoForgottenRequest, StartIdle
<1> QED BY <1>2, <1>3

\* An admin request goes into an empty channel, so it is at its head.
LEMMA NFRAdminReload ==
    ASSUME TypeOK, NoForgottenRequest, NEW a \in Admins, AdminReload(a)
    PROVE  NoForgottenRequest' /\ StartIdle'
<1>1. rq = << >> /\ rq' = << a >> /\ pc' = pc /\ Running
    <2>1. rq \in Seq(Admins \cup {Nil})
        BY DEF TypeOK
    <2>2. Len(rq) < 1 /\ rq' = Append(rq, a) /\ pc' = pc /\ Running
        BY DEF AdminReload
    <2> QED BY <2>1, <2>2, AppendEmpty
<1>2. ASSUME NEW r \in Admins, admin'[r] = "waiting" PROVE r = a
    <2>1. SUFFICES ASSUME r # a PROVE FALSE
        OBVIOUS
    <2>2. admin[r] = "waiting"
        BY <1>2, <2>1 DEF AdminReload, TypeOK
    <2> QED BY <1>1, <2>2 DEF NoForgottenRequest
<1> QED BY <1>1, <1>2 DEF NoForgottenRequest, StartIdle, Running

LEMMA IInvInit == Init => IInv
BY TypeOKInit DEF Init, IInv, NoForgottenRequest, StartIdle, Running

LEMMA IInvStep == IInv /\ [Next]_vars => IInv'
<1> SUFFICES ASSUME IInv, [Next]_vars PROVE IInv'
    OBVIOUS
<1>1. TypeOK /\ NoForgottenRequest /\ StartIdle
    BY DEF IInv
<1>2. TypeOK'
    BY <1>1, TypeOKStep
<1>3. NoForgottenRequest' /\ StartIdle'
    <2>1. CASE StartStep
        <3>1. UNCHANGED <<pc, rq, admin>>
            BY <2>1 DEF StartStep
        <3> QED BY <1>1, <3>1, NFRUnchanged
    <2>2. CASE ShutdownStep
        <3>1. UNCHANGED <<pc, rq, admin>>
            BY <2>2 DEF ShutdownStep
        <3> QED BY <1>1, <3>1, NFRUnchanged
    <2>3. CASE Sighup
        <3>1. UNCHANGED <<pc, rq, admin>>
            BY <2>3 DEF Sighup
        <3> QED BY <1>1, <3>1, NFRUnchanged
    <2>4. CASE Tick
        <3>1. UNCHANGED <<pc, rq, admin>>
            BY <2>4 DEF Tick
        <3> QED BY <1>1, <3>1, NFRUnchanged
    <2>5. CASE EditConfig
        <3>1. UNCHANGED <<pc, rq, admin>>
            BY <2>5 DEF EditConfig
        <3> QED BY <1>1, <3>1, NFRUnchanged
    <2>6. CASE Cancel
        <3>1. UNCHANGED <<pc, rq, admin>>
            BY <2>6 DEF Cancel
        <3> QED BY <1>1, <3>1, NFRUnchanged
    <2>7. CASE ServerFails
        <3>1. UNCHANGED <<pc, rq, admin>>
            BY <2>7 DEF ServerFails
        <3> QED BY <1>1, <3>1, NFRUnchanged
    <2>8. CASE StartFails
        BY <2>8, NFRStopped DEF StartFails
    <2>9. CASE LoopCanceled
        BY <2>9, NFRStopped DEF LoopCanceled
    <2>10. CASE LoopServerError
        BY <2>10, NFRStopped DEF LoopServerError
    <2>11. CASE ShutdownDone
        BY <2>11, NFRStopped DEF ShutdownDone
    <2>12. CASE ShutdownTimer
        BY <2>12, NFRStopped DEF ShutdownTimer
    <2>13. CASE StartDone
        <3>1. pc = "start" /\ pc' = "loop" /\ UNCHANGED <<rq, admin>>
            BY <2>13 DEF StartDone
        <3> QED BY <1>1, <3>1 DEF NoForgottenRequest, StartIdle
    <2>14. CASE LoopSighup
        <3>1. pc = "loop" /\ admin' = admin /\ SendNil
            BY <2>14 DEF LoopSighup
        <3> QED BY <1>1, <3>1, NFRSendNil
    <2>15. CASE LoopTick
        <3>1. pc = "loop" /\ admin' = admin
            BY <2>15 DEF LoopTick
        <3>2. CASE edits # seenVer
            BY <1>1, <3>1, <3>2, <2>15, NFRSendNil DEF LoopTick
        <3>3. CASE edits = seenVer
            <4>1. UNCHANGED <<pc, rq, admin>>
                BY <3>1, <3>3, <2>15 DEF LoopTick
            <4> QED BY <1>1, <4>1, NFRUnchanged
        <3> QED BY <3>2, <3>3
    <2>16. CASE LoopReload
        BY <1>1, <2>16, NFRReload
    <2>17. CASE \E a \in Admins : AdminReload(a)
        BY <1>1, <2>17, NFRAdminReload
    <2>18. CASE UNCHANGED vars
        <3>1. UNCHANGED <<pc, rq, admin>>
            BY <2>18 DEF vars
        <3> QED BY <1>1, <3>1, NFRUnchanged
    <2> QED BY <2>1, <2>2, <2>3, <2>4, <2>5, <2>6, <2>7, <2>8, <2>9, <2>10, <2>11, <2>12, <2>13, <2>14, <2>15, <2>16, <2>17, <2>18
        DEF Next, MainLoop, Environment
<1> QED BY <1>2, <1>3 DEF IInv

(* Every admin reload request the loop takes from reloadErrsChan is        *)
(* answered: a handler waiting on its errChan always has its request still *)
(* in the channel, or the loop has stopped (LoopReload answers on every    *)
(* path of reloadConfig and reloadPeering), for every number of admins.    *)
THEOREM NoForgottenRequestInvariant == Spec => []NoForgottenRequest
<1>1. IInv => NoForgottenRequest
    BY DEF IInv
<1> QED BY IInvInit, IInvStep, <1>1, PTL DEF Spec

=============================================================================
