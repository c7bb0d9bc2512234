-------------------------- MODULE SchedulerProofs ---------------------------
(***************************************************************************)
(* The scheduler, for any number of models, requests, runners and GPUs,    *)
(* any queue length and any set of faults.  Its types are right.  No       *)
(* runner is left behind and no wake-up is lost, the two safety properties *)
(* on which its progress rests.  What is checked early is still true when  *)
(* it is used: a runner is idle when it is unloaded, and a model has no    *)
(* runner when one is recorded for it.  And no request is lost or held     *)
(* twice while the queue, processPending, the goroutines that re-queue and *)
(* the loaders hand it to each other.  In a steady environment the counts  *)
(* of requests are exact, and what they count is live.                     *)
(***************************************************************************)
EXTENDS SchedulerProperties, TLAPS, SequenceTheorems, FiniteSetTheorems

(* A loop that is past a receive or a look-up has the request or the       *)
(* runner that it found there in hand.                                     *)
PendingHand ==
  /\ pPC \notin {"select", "exit"} => pReq \in Requests
  /\ pPC \in {"check", "use", "scan", "expire", "send", "wait"} => pRunner \in Runners
  /\ pPC = "scan" => pList # <<>>
CompletedHand ==
  /\ cPC \in {"finish", "send", "expired", "unload"} => cRunner \in Runners
  /\ cPC = "finished" => cReq \in Requests

(* TypeOK is not inductive on its own: what a loop looks up with the       *)
(* request or runner in its hand has a type only if there is one.          *)
TypeInv == TypeOK /\ PendingHand /\ CompletedHand

(* The steps that belong to neither loop.                                  *)
Other ==
  \/ GetRunner \/ (\E q \in Requests : ContextDone(q)) \/ Stopper
  \/ (\E q \in Requests : RequestStep(q))
  \/ (\E r \in Runners : RunnerStep(r))
  \/ (\E m \in Models : ExpireRunner(m))
  \/ Shutdown \/ UnloadAllRunners

-----------------------------------------------------------------------------
(* Lemmas about the operators of the model.                                *)

(* A part of the type invariant holds after a step that leaves its         *)
(* variables alone.                                                        *)
LEMMA Stable ==
  /\ ChannelsOK /\ UNCHANGED chans => ChannelsOK'
  /\ LoadedOK /\ UNCHANGED maps => LoadedOK'
  /\ LifeOK /\ UNCHANGED life => LifeOK'
  /\ RefsOK /\ UNCHANGED <<refMu, refs>> => RefsOK'
  /\ TimersOK /\ UNCHANGED <<keeps, events>> => TimersOK'
  /\ RequestsOK /\ UNCHANGED reqs => RequestsOK'
  /\ PendingOK /\ UNCHANGED pvars => PendingOK'
  /\ PendingHand /\ UNCHANGED pvars => PendingHand'
  /\ CompletedOK /\ UNCHANGED cvars => CompletedOK'
  /\ CompletedHand /\ UNCHANGED cvars => CompletedHand'
  /\ ControlOK /\ UNCHANGED ctl => ControlOK'
<1>1. ChannelsOK /\ UNCHANGED chans => ChannelsOK'
  BY Zenon DEF ChannelsOK, chans
<1>2. LoadedOK /\ UNCHANGED maps => LoadedOK'
  BY Zenon DEF LoadedOK, maps
<1>3. LifeOK /\ UNCHANGED life => LifeOK'
  BY Zenon DEF LifeOK, life
<1>4. RefsOK /\ UNCHANGED <<refMu, refs>> => RefsOK'
  BY Zenon DEF RefsOK, refs
<1>5. TimersOK /\ UNCHANGED <<keeps, events>> => TimersOK'
  BY Zenon DEF TimersOK, keeps, events
<1>6. RequestsOK /\ UNCHANGED reqs => RequestsOK'
  BY Zenon DEF RequestsOK, reqs, replies
<1>7. PendingOK /\ UNCHANGED pvars => PendingOK'
  BY Zenon DEF PendingOK, pvars, scan, place
<1>8. PendingHand /\ UNCHANGED pvars => PendingHand'
  BY Zenon DEF PendingHand, pvars, scan, place
<1>9. CompletedOK /\ UNCHANGED cvars => CompletedOK'
  BY Zenon DEF CompletedOK, cvars
<1>10. CompletedHand /\ UNCHANGED cvars => CompletedHand'
  BY Zenon DEF CompletedHand, cvars
<1>11. ControlOK /\ UNCHANGED ctl => ControlOK'
  BY Zenon DEF ControlOK, ctl
<1> QED BY <1>1, <1>2, <1>3, <1>4, <1>5, <1>6, <1>7, <1>8, <1>9, <1>10, <1>11

(* No request and no runner has the number that stands for none.           *)
LEMMA Numbers == NoRunner \notin Runners /\ NoRequest \notin Requests
BY DEF NoRunner, Runners, NoRequest, Requests

(* What a channel of requests or runners delivers and keeps.               *)
LEMMA ChannelTypes ==
  ASSUME NEW S, NEW ch \in Seq(S), ch # <<>>
  PROVE  Head(ch) \in S /\ Tail(ch) \in Seq(S)
OBVIOUS

(* What a channel holds after a send.                                      *)
LEMMA SendTypes ==
  ASSUME NEW S, NEW ch \in Seq(S), NEW e \in S
  PROVE  Append(ch, e) \in Seq(S)
OBVIOUS

(* The parts of what a client chooses.                                     *)
LEMMA OptionsTypes ==
  ASSUME NEW q \in Requests, RequestsOK
  PROVE  /\ opts[q].model \in Models /\ opts[q].numCtx \in Nat \ {0}
         /\ opts[q].keep \in Nat \/ opts[q].keep = Default
BY DEF RequestsOK, Options

(* The map of loaded runners holds runners only.                           *)
LEMMA LoadedRunnersTypes == LoadedOK => LoadedRunners \subseteq Runners
BY DEF LoadedOK, LoadedRunners

(* The values of numParallel are positive.                                 *)
LEMMA ParallelTypes ==
  /\ ParallelToTry \subseteq Nat \ {0}
  /\ LastParallel \in Nat \ {0} /\ CpuParallel \in Nat \ {0}
BY SchedulerAssumption DEF ParallelToTry, LastParallel, CpuParallel

(* refCount stays in its unsigned range.                                   *)
LEMMA RefCountTypes ==
  ASSUME NEW n \in 0 .. RefMod - 1
  PROVE  Inc(n) \in 0 .. RefMod - 1 /\ Dec(n) \in 0 .. RefMod - 1
BY SchedulerAssumption DEF Inc, Dec

(* The limit that the first placement sets is a number.                    *)
LEMMA MaxRunnersTypes == LoadedOK /\ SetMaxRunners => maxRunners' \in Nat
<1>1. Cardinality(Gpus) \in Nat
  BY SchedulerAssumption, FS_CardinalityType
<1> DEFINE n == IF ForCpu THEN 1 ELSE Cardinality(Gpus)
<1>2. n \in Nat
  BY <1>1
<1> HIDE DEF n
<1>3. ModelsPerGpu * n \in Nat
  BY <1>2, SchedulerAssumption
<1>4. SetMaxRunners => maxRunners' = IF maxRunners > 0 THEN maxRunners ELSE ModelsPerGpu * n
  BY DEF SetMaxRunners, n
<1> QED BY <1>3, <1>4 DEF LoadedOK

(* An expired event goes to the channel and the mutex of its runner is     *)
(* released.                                                               *)
LEMMA SendExpiredTypes ==
  ASSUME NEW r \in Runners, ChannelsOK, RefsOK, SendExpired(r)
  PROVE  ChannelsOK' /\ RefsOK'
<1>1. ChannelsOK'
  BY DEF ChannelsOK, SendExpired
<1>2. RefsOK'
  BY DEF RefsOK, SendExpired, RefMuOwners, refs
<1> QED BY <1>1, <1>2

(* A placement records a positive parallelism and GPUs of the machine.     *)
LEMMA PlaceOnTypes ==
  ASSUME NEW gpus \in SUBSET Gpu, NEW par \in Nat \ {0},
         NEW pc \in {"load", "findCpu"}, pReq \in Requests,
         RequestsOK, PendingOK, PlaceOn(gpus, par, pc)
  PROVE  RequestsOK' /\ PendingOK' /\ PendingHand'
<1>1. opts[pReq].numCtx * par \in Nat
  BY OptionsTypes
<1>2. (numCtx \in [Requests -> Nat])'
  BY <1>1 DEF PlaceOn, RequestsOK
<1>3. RequestsOK'
  BY <1>2, Zenon DEF PlaceOn, RequestsOK, replies
<1>4. PendingOK'
  BY DEF PlaceOn, PendingOK, PendingPCs, scan
<1>5. PendingHand'
  BY DEF PlaceOn, PendingHand
<1> QED BY <1>3, <1>4, <1>5

(* A request that is served gets a runner.                                 *)
LEMMA ServeTypes ==
  ASSUME NEW q, NEW r \in Runners, RequestsOK, Serve(q, r)
  PROVE  RequestsOK'
<1>1. (answer \in [Requests -> {"none", "runner", "error"}])'
  BY DEF RequestsOK, Serve
<1>2. (got \in [Requests -> Runners \union {NoRunner}])'
  BY DEF RequestsOK, Serve
<1>3. (task \in [Requests -> {"none", "requeue", "finish"}])'
  BY DEF RequestsOK, Serve
<1> QED BY <1>1, <1>2, <1>3, Zenon DEF RequestsOK, Serve

(* The list of runners to choose from is a sequence of runners, and it is  *)
(* not empty if a runner is loaded.                                        *)
LEMMA ByDurationTypes ==
  ASSUME LoadedOK, LoadedRunners # {}, NEW s \in ByDuration(LoadedRunners)
  PROVE  s \in Seq(Runners) /\ s # <<>> /\ s[1] \in Runners
<1>1. LoadedRunners \subseteq Runners /\ IsFiniteSet(LoadedRunners)
  <2>1. IsFiniteSet(Runners)
    BY SchedulerAssumption, FS_Interval DEF Runners
  <2> QED BY <2>1, LoadedRunnersTypes, FS_Subset
<1>2. Cardinality(LoadedRunners) \in Nat \ {0}
  BY <1>1, FS_CardinalityType, FS_EmptySet
<1> DEFINE n == Cardinality(LoadedRunners)
<1> HIDE DEF n
<1>3. n \in Nat \ {0} /\ s \in [1 .. n -> Runners]
  BY <1>1, <1>2 DEF ByDuration, n
<1> QED BY <1>3

-----------------------------------------------------------------------------
(* Type correctness.                                                       *)


(* The steps of processPending keep the types.                             *)
LEMMA PendingTypes == TypeInv /\ Pending => TypeInv'
<1> SUFFICES ASSUME TypeInv, Pending PROVE TypeInv'
  OBVIOUS
<1>1. CASE ReceivePending
  <2>1. Head(pendingReqCh) \in Requests /\ Tail(pendingReqCh) \in Seq(Requests)
    BY <1>1, ChannelTypes DEF TypeInv, TypeOK, ChannelsOK, ReceivePending
  <2>2. ChannelsOK'
    BY <1>1, <2>1 DEF TypeInv, TypeOK, ChannelsOK, ReceivePending
  <2>3. PendingOK'
    BY <1>1, <2>1 DEF TypeInv, TypeOK, PendingOK, ReceivePending, PendingPCs, scan, place
  <2>4. PendingHand'
    BY <1>1, <2>1 DEF TypeInv, TypeOK, PendingHand, ReceivePending, scan
  <2> QED BY <1>1, <2>2, <2>3, <2>4, Stable, Zenon DEF TypeInv, TypeOK,
       ReceivePending, runners
<1>2. CASE IgnoreUnload
  <2>1. ChannelsOK'
    BY <1>2 DEF TypeInv, TypeOK, ChannelsOK, IgnoreUnload
  <2> QED BY <1>2, <2>1, Stable, Zenon DEF TypeInv, TypeOK, IgnoreUnload,
       runners
<1>3. CASE FoundLoaded
  <2>1. loaded[PModel] \in Runners /\ pReq \in Requests
    BY <1>3, OptionsTypes DEF TypeInv, TypeOK, LoadedOK, PendingHand, FoundLoaded, LookUp,
         PModel
  <2>2. PendingOK'
    BY <1>3, <2>1 DEF TypeInv, TypeOK, PendingOK, FoundLoaded, PendingPCs, scan, place
  <2>3. PendingHand'
    BY <1>3, <2>1 DEF PendingHand, FoundLoaded
  <2> QED BY <1>3, <2>2, <2>3, Stable, Zenon DEF TypeInv, TypeOK, FoundLoaded,
       runners
<1>4. CASE MaxRunnersAchieved
  <2>1. PendingOK'
    BY <1>4 DEF TypeInv, TypeOK, PendingOK, MaxRunnersAchieved, PendingPCs,
         scan, place
  <2>2. PendingHand'
    BY <1>4 DEF TypeInv, TypeOK, PendingOK, PendingHand, MaxRunnersAchieved,
         LookUp, scan
  <2> QED BY <1>4, <2>1, <2>2, Stable, Zenon DEF TypeInv, TypeOK,
       MaxRunnersAchieved, runners
<1>5. CASE LoadModelFails
  <2>1. LoadedOK'
    BY <1>5, MaxRunnersTypes DEF TypeInv, TypeOK, LoadedOK, LoadModelFails
  <2>2. RequestsOK'
    BY <1>5 DEF TypeInv, TypeOK, RequestsOK, LoadModelFails
  <2>3. PendingOK'
    BY <1>5 DEF TypeInv, TypeOK, PendingOK, LoadModelFails, NextPending,
         PendingPCs
  <2>4. PendingHand'
    BY <1>5 DEF TypeInv, TypeOK, PendingOK, PendingHand, LoadModelFails, Room,
         LookUp, NextPending
  <2> QED BY <1>5, <2>1, <2>2, <2>3, <2>4, Stable, Zenon DEF TypeInv, TypeOK,
       LoadModelFails, runners
<1>6. CASE PlaceOnCpu
  <2>1. pReq \in Requests /\ RequestsOK /\ PendingOK
    BY <1>6 DEF TypeInv, TypeOK, PendingHand, PlaceOnCpu, Room, LookUp
  <2>2. PICK pc \in {"load", "findCpu"} : PlaceOn({CpuId}, CpuParallel, pc)
    BY <1>6 DEF PlaceOnCpu
  <2>3. RequestsOK' /\ PendingOK' /\ PendingHand'
    BY <2>1, <2>2, PlaceOnTypes, ParallelTypes DEF Gpu
  <2>4. LoadedOK'
    BY <1>6, <2>2, MaxRunnersTypes DEF TypeInv, TypeOK, LoadedOK, PlaceOnCpu, PlaceOn
  <2> QED BY <1>6, <2>3, <2>4, <2>2, Stable, Zenon DEF TypeInv, TypeOK,
       PlaceOnCpu, PlaceOn, runners
<1>7. CASE PlaceFirst
  <2>1. pReq \in Requests /\ RequestsOK /\ PendingOK
    BY <1>7 DEF TypeInv, TypeOK, PendingHand, PlaceFirst, Room, LookUp
  <2>2. PICK gpus \in SUBSET Gpus \ {{}}, par \in ParallelToTry : PlaceOn(gpus, par, "load")
    BY <1>7 DEF PlaceFirst
  <2>3. gpus \in SUBSET Gpu /\ par \in Nat \ {0}
    BY ParallelTypes DEF Gpu
  <2>4. RequestsOK' /\ PendingOK' /\ PendingHand'
    BY <2>1, <2>2, <2>3, PlaceOnTypes
  <2>5. LoadedOK'
    BY <1>7, <2>2, MaxRunnersTypes DEF TypeInv, TypeOK, LoadedOK, PlaceFirst, PlaceOn
  <2> QED BY <1>7, <2>4, <2>5, <2>2, Stable, Zenon DEF TypeInv, TypeOK,
       PlaceFirst, PlaceOn, runners
<1>8. CASE PlaceAmongOthers
  <2>1. LoadedOK'
    BY <1>8, MaxRunnersTypes DEF TypeInv, TypeOK, LoadedOK, PlaceAmongOthers
  <2>2. PendingOK'
    BY <1>8 DEF TypeInv, TypeOK, PendingOK, PlaceAmongOthers, PendingPCs, scan,
         place
  <2>3. PendingHand'
    BY <1>8 DEF TypeInv, TypeOK, PendingOK, PendingHand, PlaceAmongOthers,
         Room, LookUp, scan
  <2> QED BY <1>8, <2>1, <2>2, <2>3, Stable, Zenon DEF TypeInv, TypeOK,
       PlaceAmongOthers, runners
<1>9. CASE FilterGpus
  <2>1. PendingOK'
    BY <1>9 DEF TypeInv, TypeOK, PendingOK, FilterGpus, GpusWithoutLoading, Gpu,
         PendingPCs, scan
  <2>2. PendingHand'
    BY <1>9 DEF TypeInv, TypeOK, PendingOK, PendingHand, FilterGpus, scan
  <2> QED BY <1>9, <2>1, <2>2, Stable, Zenon DEF TypeInv, TypeOK, FilterGpus,
       runners
<1>10. CASE UpdateFreeSpace
  <2>1. LoadedOK'
    BY <1>10 DEF TypeInv, TypeOK, LoadedOK, UpdateFreeSpace
  <2>2. PendingOK'
    BY <1>10, LoadedRunnersTypes DEF TypeInv, TypeOK, PendingOK, UpdateFreeSpace,
       PendingPCs,
         place
  <2>3. PendingHand'
    BY <1>10 DEF TypeInv, TypeOK, PendingOK, PendingHand, UpdateFreeSpace
  <2> QED BY <1>10, <2>1, <2>2, <2>3, Stable, Zenon DEF TypeInv, TypeOK,
       UpdateFreeSpace, runners
<1>11. ASSUME NEW r \in Runners, SumRunner(r) PROVE TypeInv'
  <2>1. PendingOK'
    BY <1>11 DEF TypeInv, TypeOK, PendingOK, SumRunner, place
  <2>2. PendingHand'
    BY <1>11 DEF TypeInv, PendingHand, SumRunner
  <2> QED BY <1>11, <2>1, <2>2, Stable, Zenon DEF TypeInv, TypeOK, SumRunner,
       runners
<1>12. CASE PickFit
  <2>1. pReq \in Requests /\ RequestsOK /\ PendingOK
    BY <1>12 DEF TypeInv, TypeOK, PendingHand, PickFit, Summed
  <2>2. PICK gpus \in SUBSET pGpus \ {{}}, par \in ParallelToTry : PlaceOn(gpus, par, "load")
    BY <1>12 DEF PickFit
  <2>3. gpus \in SUBSET Gpu /\ par \in Nat \ {0}
    BY <2>1, ParallelTypes DEF PendingOK
  <2>4. RequestsOK' /\ PendingOK' /\ PendingHand'
    BY <2>1, <2>2, <2>3, PlaceOnTypes
  <2>5. LoadedOK'
    BY <1>12, <2>2 DEF TypeInv, TypeOK, LoadedOK, PickFit, PlaceOn
  <2> QED BY <1>12, <2>4, <2>5, <2>2, Stable, Zenon DEF TypeInv, TypeOK,
       PickFit, PlaceOn, runners
<1>13. CASE DelayRequest
  <2>1. LoadedOK'
    BY <1>13 DEF TypeInv, TypeOK, LoadedOK, DelayRequest, NoFit
  <2>2. RequestsOK'
    <3>1. pReq \in Requests
      BY <1>13 DEF TypeInv, PendingHand, DelayRequest, NoFit, Summed
    <3>2. opts[pReq].numCtx * LastParallel \in Nat
      BY <3>1, OptionsTypes, ParallelTypes DEF TypeInv, TypeOK
    <3>3. (numCtx \in [Requests -> Nat])'
      BY <1>13, <3>2 DEF TypeInv, TypeOK, RequestsOK, DelayRequest, NoFit
    <3>4. (task \in [Requests -> {"none", "requeue", "finish"}])'
      BY <1>13 DEF TypeInv, TypeOK, RequestsOK, DelayRequest
    <3> QED BY <1>13, <3>3, <3>4, Zenon DEF TypeInv, TypeOK, RequestsOK, DelayRequest,
         NoFit, replies
  <2>3. PendingOK'
    BY <1>13 DEF TypeInv, TypeOK, PendingOK, DelayRequest, NextPending,
         PendingPCs
  <2>4. PendingHand'
    BY <1>13 DEF TypeInv, TypeOK, PendingOK, PendingHand, DelayRequest, NoFit,
         Summed, NextPending
  <2> QED BY <1>13, <2>1, <2>2, <2>3, <2>4, Stable, Zenon DEF TypeInv, TypeOK,
       DelayRequest, NoFit, runners
<1>14. CASE MakeRoom
  <2>1. LoadedOK'
    BY <1>14 DEF TypeInv, TypeOK, LoadedOK, MakeRoom, NoFit
  <2>2. RequestsOK'
    <3>1. pReq \in Requests
      BY <1>14 DEF TypeInv, PendingHand, MakeRoom, NoFit, Summed
    <3>2. opts[pReq].numCtx * LastParallel \in Nat
      BY <3>1, OptionsTypes, ParallelTypes DEF TypeInv, TypeOK
    <3>3. (numCtx \in [Requests -> Nat])'
      BY <1>14, <3>2 DEF TypeInv, TypeOK, RequestsOK, MakeRoom, NoFit
    <3>4. (task \in [Requests -> {"none", "requeue", "finish"}])'
      BY <1>14 DEF TypeInv, TypeOK, RequestsOK, MakeRoom
    <3> QED BY <1>14, <3>3, <3>4, Zenon DEF TypeInv, TypeOK, RequestsOK, MakeRoom,
         NoFit, replies
  <2>3. PendingOK'
    BY <1>14 DEF TypeInv, TypeOK, PendingOK, MakeRoom, PendingPCs, scan
  <2>4. PendingHand'
    BY <1>14 DEF TypeInv, TypeOK, PendingOK, PendingHand, MakeRoom, NoFit,
         Summed, scan
  <2> QED BY <1>14, <2>1, <2>2, <2>3, <2>4, Stable, Zenon DEF TypeInv, TypeOK,
       MakeRoom, NoFit, runners
<1>15. CASE NeedsReload
  <2>1. PendingOK'
    BY <1>15 DEF TypeInv, TypeOK, PendingOK, NeedsReload, PendingPCs, scan,
         place
  <2>2. PendingHand'
    BY <1>15 DEF TypeInv, TypeOK, PendingOK, PendingHand, NeedsReload, scan
  <2> QED BY <1>15, <2>1, <2>2, Stable, Zenon DEF TypeInv, TypeOK, NeedsReload,
       runners
<1>16. CASE UseLoadedRunner
  <2>1. RefsOK'
    <3>1. pRunner \in Runners /\ refCount[pRunner] \in 0 .. RefMod - 1
      BY <1>16 DEF TypeInv, TypeOK, RefsOK, PendingHand, UseLoadedRunner
    <3>2. (refCount \in [Runners -> 0 .. RefMod - 1])'
      BY <1>16, <3>1, RefCountTypes DEF TypeInv, TypeOK, RefsOK, UseLoadedRunner
    <3>3. (wrapped \in SUBSET Runners)'
      BY <1>16, <3>1 DEF TypeInv, TypeOK, RefsOK, UseLoadedRunner
    <3> QED BY <1>16, <3>2, <3>3, Zenon DEF TypeInv, TypeOK, RefsOK, UseLoadedRunner
  <2>2. TimersOK'
    <3>1. pReq \in Requests
      BY <1>16 DEF TypeInv, PendingHand, UseLoadedRunner
    <3>2. (duration \in [Runners -> Nat])'
      BY <1>16, <3>1, OptionsTypes DEF TypeInv, TypeOK, TimersOK, UseLoadedRunner
    <3>3. (timer \in [Runners -> {"nil", "armed", "fired"}])'
      BY <1>16 DEF TypeInv, TypeOK, TimersOK, UseLoadedRunner
    <3> QED BY <1>16, <3>2, <3>3, Zenon DEF TypeInv, TypeOK, TimersOK,
         UseLoadedRunner, events
  <2>3. RequestsOK'
    <3>1. pRunner \in Runners
      BY <1>16 DEF TypeInv, PendingHand, UseLoadedRunner
    <3> QED BY <1>16, <3>1, ServeTypes DEF TypeInv, TypeOK, UseLoadedRunner
  <2>4. PendingOK'
    BY <1>16 DEF TypeInv, TypeOK, PendingOK, UseLoadedRunner, NextPending,
         PendingPCs
  <2>5. PendingHand'
    BY <1>16 DEF TypeInv, TypeOK, PendingOK, PendingHand, UseLoadedRunner,
         NextPending
  <2> QED BY <1>16, <2>1, <2>2, <2>3, <2>4, <2>5, Stable, Zenon DEF TypeInv,
       TypeOK, UseLoadedRunner, Serve
<1>17. CASE FindRunnerToUnload
  <2>1. LoadedRunners # {} => pList' \in Seq(Runners) /\ pList' # <<>> /\ pList'[1] \in Runners
    BY <1>17, ByDurationTypes DEF TypeInv, TypeOK, FindRunnerToUnload
  <2>2. PendingOK'
    <3>1. CASE LoadedRunners = {}
      BY <1>17, <3>1, <2>1 DEF TypeInv, TypeOK, PendingOK, FindRunnerToUnload,
         PendingPCs, place
    <3>2. CASE LoadedRunners # {}
      BY <1>17, <3>2, <2>1 DEF TypeInv, TypeOK, PendingOK, FindRunnerToUnload, PendingPCs
    <3> QED BY <3>1, <3>2
  <2>3. PendingHand'
    BY <1>17, <2>1 DEF TypeInv, TypeOK, PendingOK, PendingHand, FindRunnerToUnload
  <2> QED BY <1>17, <2>2, <2>3, Stable, Zenon DEF TypeInv, TypeOK,
       FindRunnerToUnload, runners
<1>18. CASE ScanRunner
  <2>1. Head(pList) \in Runners /\ Tail(pList) \in Seq(Runners)
    BY <1>18, ChannelTypes DEF TypeInv, TypeOK, PendingOK, PendingHand, ScanRunner
  <2>2. PendingOK'
    BY <1>18, <2>1 DEF TypeInv, TypeOK, PendingOK, ScanRunner, PendingPCs, place
  <2>3. PendingHand'
    BY <1>18, <2>1 DEF TypeInv, PendingHand, ScanRunner
  <2> QED BY <1>18, <2>2, <2>3, Stable, Zenon DEF TypeInv, TypeOK, ScanRunner,
       runners
<1>19. CASE NewServerFails
  <2>1. RequestsOK'
    BY <1>19 DEF TypeInv, TypeOK, RequestsOK, NewServerFails
  <2>2. PendingOK'
    BY <1>19 DEF TypeInv, TypeOK, PendingOK, NewServerFails, NextPending,
         PendingPCs
  <2>3. PendingHand'
    BY <1>19 DEF TypeInv, TypeOK, PendingOK, PendingHand, NewServerFails,
         NextPending
  <2> QED BY <1>19, <2>1, <2>2, <2>3, Stable, Zenon DEF TypeInv, TypeOK,
       NewServerFails, runners
<1>20. CASE Load
  <2>1. pReq \in Requests
    BY <1>20 DEF TypeInv, PendingHand, Load
  <2>2. PICK r \in Runners : info' = [info EXCEPT ![r] =
            [modelPath |-> PModel, gpus |-> pGpus, numCtx |-> numCtx[pReq],
             numParallel |-> pPar, req |-> pReq]]
    BY <1>20 DEF Load
  <2>3. [modelPath |-> PModel, gpus |-> pGpus, numCtx |-> numCtx[pReq],
         numParallel |-> pPar, req |-> pReq] \in RunnerInfo
    BY <2>1, OptionsTypes DEF TypeInv, TypeOK, RequestsOK, PendingOK, RunnerInfo, PModel
  <2>4. LoadedOK'
    <3>1. PICK s \in Runners : loaded' = [loaded EXCEPT ![PModel] = s]
      BY <1>20 DEF Load
    <3>2. (loaded \in [Models -> Runners \union {NoRunner}])'
      BY <3>1 DEF TypeInv, TypeOK, LoadedOK
    <3> QED BY <1>20, <3>2, Zenon DEF TypeInv, TypeOK, LoadedOK, Load
  <2>5. LifeOK'
    <3>1. (info \in [Runners -> RunnerInfo])'
      BY <2>2, <2>3 DEF TypeInv, TypeOK, LifeOK
    <3>2. (llama \in [Runners -> {"none", "open", "closed", "nil"}])'
      BY <1>20 DEF TypeInv, TypeOK, LifeOK, Load
    <3>3. (loading \in [Runners -> BOOLEAN])'
      BY <1>20 DEF TypeInv, TypeOK, LifeOK, Load
    <3> QED BY <3>1, <3>2, <3>3, Zenon DEF LifeOK
  <2>6. RefsOK'
    <3>1. PICK s \in Runners : /\ refMu' = [refMu EXCEPT ![s] = "loader"]
                               /\ refCount' = [refCount EXCEPT ![s] = 1]
      BY <1>20 DEF Load
    <3>2. (refMu \in [Runners -> RefMuOwners])'
      BY <3>1 DEF TypeInv, TypeOK, RefsOK, RefMuOwners
    <3>3. (refCount \in [Runners -> 0 .. RefMod - 1])'
      BY <3>1, SchedulerAssumption DEF TypeInv, TypeOK, RefsOK
    <3> QED BY <1>20, <3>2, <3>3, Zenon DEF TypeInv, TypeOK, RefsOK, Load
  <2>7. TimersOK'
    <3>1. (duration \in [Runners -> Nat])'
      BY <1>20, <2>1, OptionsTypes, SchedulerAssumption DEF TypeInv, TypeOK, TimersOK,
         Load
    <3> QED BY <1>20, <3>1, Zenon DEF TypeInv, TypeOK, TimersOK, Load, events
  <2>8. PendingOK'
    BY <1>20 DEF TypeInv, TypeOK, PendingOK, Load, NextPending, PendingPCs
  <2>9. PendingHand'
    BY <1>20 DEF TypeInv, TypeOK, PendingOK, PendingHand, Load, NextPending
  <2> QED BY <1>20, <2>4, <2>5, <2>6, <2>7, <2>8, <2>9, Stable, Zenon DEF
       TypeInv, TypeOK, Load
<1>21. CASE TriggerExpiration
  <2>1. RefsOK'
    BY <1>21 DEF TypeInv, TypeOK, RefsOK, TriggerExpiration, ExpireNow,
         RefMuOwners, refs
  <2>2. TimersOK'
    BY <1>21 DEF TypeInv, TypeOK, TimersOK, TriggerExpiration, ExpireNow,
         events
  <2>3. PendingOK'
    BY <1>21 DEF TypeInv, TypeOK, PendingOK, TriggerExpiration, PendingPCs,
         scan, place
  <2>4. PendingHand'
    BY <1>21 DEF TypeInv, TypeOK, PendingOK, PendingHand, TriggerExpiration,
         scan
  <2> QED BY <1>21, <2>1, <2>2, <2>3, <2>4, Stable, Zenon DEF TypeInv, TypeOK,
       TriggerExpiration, ExpireNow
<1>22. CASE SendExpiration
  <2>1. ChannelsOK'
    BY <1>22, SendExpiredTypes DEF TypeInv, TypeOK, PendingHand, SendExpiration
  <2>2. RefsOK'
    BY <1>22, SendExpiredTypes DEF TypeInv, TypeOK, PendingHand, SendExpiration
  <2>3. PendingOK'
    BY <1>22 DEF TypeInv, TypeOK, PendingOK, SendExpiration, PendingPCs, scan,
         place
  <2>4. PendingHand'
    BY <1>22 DEF TypeInv, TypeOK, PendingOK, PendingHand, SendExpiration, scan
  <2> QED BY <1>22, <2>1, <2>2, <2>3, <2>4, Stable, Zenon DEF TypeInv, TypeOK,
       SendExpiration, SendExpired
<1>23. CASE UnloadCompleted
  <2>1. ChannelsOK'
    BY <1>23 DEF TypeInv, TypeOK, ChannelsOK, UnloadCompleted
  <2>2. PendingOK'
    BY <1>23 DEF TypeInv, TypeOK, PendingOK, UnloadCompleted, PendingPCs, scan,
         place
  <2>3. PendingHand'
    BY <1>23 DEF TypeInv, TypeOK, PendingOK, PendingHand, UnloadCompleted, scan
  <2> QED BY <1>23, <2>1, <2>2, <2>3, Stable, Zenon DEF TypeInv, TypeOK,
       UnloadCompleted, runners
<1>24. CASE StopPending
  <2>1. PendingOK'
    BY <1>24 DEF TypeInv, TypeOK, PendingOK, StopPending, PendingPCs, scan,
         place
  <2>2. PendingHand'
    BY <1>24 DEF TypeInv, TypeOK, PendingOK, PendingHand, StopPending, scan
  <2> QED BY <1>24, <2>1, <2>2, Stable, Zenon DEF TypeInv, TypeOK, StopPending,
       runners
<1> QED BY <1>1, <1>2, <1>3, <1>4, <1>5, <1>6, <1>7, <1>8, <1>9, <1>10, <1>11,
     <1>12, <1>13, <1>14, <1>15, <1>16, <1>17, <1>18, <1>19, <1>20, <1>21,
     <1>22, <1>23, <1>24 DEF Pending

(* The steps of processCompleted keep the types.                           *)
LEMMA CompletedTypes == TypeInv /\ Completed => TypeInv'
<1> SUFFICES ASSUME TypeInv, Completed PROVE TypeInv'
  OBVIOUS
<1>1. CASE ReceiveFinished
  <2>1. Head(finishedReqCh) \in Requests /\ Tail(finishedReqCh) \in Seq(Requests)
    BY <1>1, ChannelTypes DEF TypeInv, TypeOK, ChannelsOK, ReceiveFinished
  <2>2. ChannelsOK'
    BY <1>1, <2>1 DEF TypeInv, TypeOK, ChannelsOK, ReceiveFinished
  <2>3. CompletedOK'
    BY <1>1, <2>1 DEF TypeInv, TypeOK, CompletedOK, ReceiveFinished, CompletedPCs
  <2>4. CompletedHand'
    BY <1>1, <2>1 DEF CompletedHand, ReceiveFinished
  <2> QED BY <1>1, <2>2, <2>3, <2>4, Stable, Zenon DEF TypeInv, TypeOK,
       ReceiveFinished, runners
<1>2. CASE LookupFinished
  <2>1. loaded[opts[cReq].model] \in Runners \union {NoRunner}
    BY <1>2, OptionsTypes DEF TypeInv, TypeOK, LoadedOK, CompletedHand, LookupFinished
  <2>2. CompletedOK'
    BY <1>2, <2>1 DEF CompletedOK, LookupFinished, CompletedPCs
  <2>3. CompletedHand'
    BY <1>2, <2>1 DEF CompletedHand, LookupFinished
  <2> QED BY <1>2, <2>2, <2>3, Stable, Zenon DEF TypeInv, TypeOK,
       LookupFinished, runners
<1>3. CASE FinishRequest
  <2>1. RefsOK'
    <3>1. cRunner \in Runners /\ refCount[cRunner] \in 0 .. RefMod - 1
      BY <1>3 DEF TypeInv, TypeOK, RefsOK, CompletedHand, FinishRequest
    <3>2. (refCount \in [Runners -> 0 .. RefMod - 1])'
      BY <1>3, <3>1, RefCountTypes DEF TypeInv, TypeOK, RefsOK, FinishRequest
    <3>3. (wrapped \in SUBSET Runners)'
      BY <1>3, <3>1 DEF TypeInv, TypeOK, RefsOK, FinishRequest
    <3>4. (refMu \in [Runners -> RefMuOwners])'
      BY <1>3 DEF TypeInv, TypeOK, RefsOK, FinishRequest, GoneIdle, RefMuOwners
    <3> QED BY <3>2, <3>3, <3>4, Zenon DEF RefsOK
  <2>2. TimersOK'
    BY <1>3 DEF TypeInv, TypeOK, TimersOK, FinishRequest, GoneIdle, events
  <2>3. CompletedOK'
    BY <1>3 DEF TypeInv, TypeOK, CompletedOK, FinishRequest, GoneIdle,
         NextCompleted, CompletedPCs
  <2>4. CompletedHand'
    BY <1>3 DEF TypeInv, TypeOK, CompletedOK, CompletedHand, FinishRequest,
         GoneIdle, NextCompleted
  <2> QED BY <1>3, <2>1, <2>2, <2>3, <2>4, Stable, Zenon DEF TypeInv, TypeOK,
       FinishRequest, GoneIdle
<1>4. CASE ExpireFinished
  <2>1. ChannelsOK'
    BY <1>4, SendExpiredTypes DEF TypeInv, TypeOK, CompletedHand, ExpireFinished
  <2>2. RefsOK'
    BY <1>4, SendExpiredTypes DEF TypeInv, TypeOK, CompletedHand, ExpireFinished
  <2>3. CompletedOK'
    BY <1>4 DEF TypeInv, TypeOK, CompletedOK, ExpireFinished, NextCompleted,
         CompletedPCs
  <2>4. CompletedHand'
    BY <1>4 DEF TypeInv, TypeOK, CompletedOK, CompletedHand, ExpireFinished,
         NextCompleted
  <2> QED BY <1>4, <2>1, <2>2, <2>3, <2>4, Stable, Zenon DEF TypeInv, TypeOK,
       ExpireFinished, SendExpired
<1>5. CASE ReceiveExpired
  <2>1. Head(expiredCh) \in Runners /\ Tail(expiredCh) \in Seq(Runners)
    BY <1>5, ChannelTypes DEF TypeInv, TypeOK, ChannelsOK, ReceiveExpired
  <2>2. ChannelsOK'
    BY <1>5, <2>1 DEF TypeInv, TypeOK, ChannelsOK, ReceiveExpired
  <2>3. CompletedOK'
    BY <1>5, <2>1 DEF TypeInv, TypeOK, CompletedOK, ReceiveExpired, CompletedPCs
  <2>4. CompletedHand'
    BY <1>5, <2>1 DEF CompletedHand, ReceiveExpired
  <2> QED BY <1>5, <2>2, <2>3, <2>4, Stable, Zenon DEF TypeInv, TypeOK,
       ReceiveExpired, runners
<1>6. CASE ExpiredInUse
  <2>1. TimersOK'
    <3>1. cRunner \in Runners /\ retry[cRunner] + 1 \in Nat
      BY <1>6 DEF TypeInv, TypeOK, TimersOK, CompletedHand, ExpiredInUse
    <3>2. (retry \in [Runners -> Nat])'
      BY <1>6, <3>1 DEF TypeInv, TypeOK, TimersOK, ExpiredInUse
    <3> QED BY <1>6, <3>2, Zenon DEF TypeInv, TypeOK, TimersOK, ExpiredInUse, keeps
  <2>2. CompletedOK'
    BY <1>6 DEF TypeInv, TypeOK, CompletedOK, ExpiredInUse, NextCompleted,
         CompletedPCs
  <2>3. CompletedHand'
    BY <1>6 DEF TypeInv, TypeOK, CompletedOK, CompletedHand, ExpiredInUse,
         NextCompleted
  <2> QED BY <1>6, <2>1, <2>2, <2>3, Stable, Zenon DEF TypeInv, TypeOK,
       ExpiredInUse
<1>7. CASE ExpiredIdle
  <2>1. RefsOK'
    BY <1>7 DEF TypeInv, TypeOK, RefsOK, ExpiredIdle, RefMuOwners, refs
  <2>2. CompletedOK'
    BY <1>7 DEF TypeInv, TypeOK, CompletedOK, ExpiredIdle, CompletedPCs
  <2>3. CompletedHand'
    BY <1>7 DEF TypeInv, TypeOK, CompletedOK, CompletedHand, ExpiredIdle
  <2> QED BY <1>7, <2>1, <2>2, <2>3, Stable, Zenon DEF TypeInv, TypeOK,
       ExpiredIdle
<1>8. CASE Unload
  <2>1. LoadedOK'
    BY <1>8 DEF TypeInv, TypeOK, LoadedOK, Unload
  <2>2. LifeOK'
    BY <1>8 DEF TypeInv, TypeOK, LifeOK, Unload
  <2>3. RefsOK'
    BY <1>8 DEF TypeInv, TypeOK, RefsOK, Unload, RefMuOwners, refs
  <2>4. TimersOK'
    BY <1>8 DEF TypeInv, TypeOK, TimersOK, Unload, events
  <2>5. CompletedOK'
    BY <1>8 DEF TypeInv, TypeOK, CompletedOK, Unload, CompletedPCs
  <2>6. CompletedHand'
    BY <1>8 DEF TypeInv, TypeOK, CompletedOK, CompletedHand, Unload
  <2> QED BY <1>8, <2>1, <2>2, <2>3, <2>4, <2>5, <2>6, Stable, Zenon DEF
       TypeInv, TypeOK, Unload
<1>9. CASE SendUnloaded
  <2>1. ChannelsOK'
    BY <1>9 DEF TypeInv, TypeOK, ChannelsOK, SendUnloaded
  <2>2. CompletedOK'
    BY <1>9 DEF TypeInv, TypeOK, CompletedOK, SendUnloaded, NextCompleted,
         CompletedPCs
  <2>3. CompletedHand'
    BY <1>9 DEF TypeInv, TypeOK, CompletedOK, CompletedHand, SendUnloaded,
         NextCompleted
  <2> QED BY <1>9, <2>1, <2>2, <2>3, Stable, Zenon DEF TypeInv, TypeOK,
       SendUnloaded, runners
<1>10. CASE StopCompleted
  <2>1. CompletedOK'
    BY <1>10 DEF TypeInv, TypeOK, CompletedOK, StopCompleted, CompletedPCs
  <2>2. CompletedHand'
    BY <1>10 DEF TypeInv, TypeOK, CompletedOK, CompletedHand, StopCompleted
  <2> QED BY <1>10, <2>1, <2>2, Stable, Zenon DEF TypeInv, TypeOK,
       StopCompleted, runners
<1> QED BY <1>1, <1>2, <1>3, <1>4, <1>5, <1>6, <1>7, <1>8, <1>9, <1>10 DEF
     Completed

(* The steps of the handlers, of the goroutines of requests and runners    *)
(* and of shutdown keep the types.                                         *)
LEMMA OtherTypes == TypeInv /\ Other => TypeInv'
<1> SUFFICES ASSUME TypeInv, Other PROVE TypeInv'
  OBVIOUS
<1>1. CASE GetRunner
  <2>1. submitted + 1 \in Requests
    BY <1>1, SchedulerAssumption DEF TypeInv, TypeOK, RequestsOK, GetRunner, Requests
  <2>2. PICK o \in Workload[submitted + 1] :
            /\ opts' = [opts EXCEPT ![submitted + 1] = o]
            /\ numCtx' = [numCtx EXCEPT ![submitted + 1] = o.numCtx]
    BY <1>1 DEF GetRunner
  <2>3. o \in Options /\ o.numCtx \in Nat
    BY <2>1, SchedulerAssumption DEF Options
  <2>4. ChannelsOK'
    <3>1. \/ pendingReqCh' = Append(pendingReqCh, submitted + 1)
          \/ pendingReqCh' = pendingReqCh
      BY <1>1 DEF GetRunner
    <3>2. (pendingReqCh \in Seq(Requests))'
      BY <3>1, <2>1, SendTypes, Zenon DEF TypeInv, TypeOK, ChannelsOK
    <3> QED BY <1>1, <3>2, Zenon DEF TypeInv, TypeOK, ChannelsOK, GetRunner
  <2>5. RequestsOK'
    <3>1. (submitted \in 0 .. MaxRequests)'
      BY <1>1, <2>1 DEF GetRunner, Requests
    <3>2. (opts \in [Requests -> Options])'
      BY <2>2, <2>3 DEF TypeInv, TypeOK, RequestsOK
    <3>3. (numCtx \in [Requests -> Nat])'
      BY <2>2, <2>3 DEF TypeInv, TypeOK, RequestsOK
    <3>4. (answer \in [Requests -> {"none", "runner", "error"}])'
      BY <1>1 DEF TypeInv, TypeOK, RequestsOK, GetRunner
    <3> QED BY <1>1, <3>1, <3>2, <3>3, <3>4, Zenon
         DEF TypeInv, TypeOK, RequestsOK, GetRunner
  <2> QED BY <1>1, <2>4, <2>5, Stable, Zenon DEF TypeInv, TypeOK, GetRunner,
       runners
<1>2. ASSUME NEW q \in Requests, ContextDone(q) PROVE TypeInv'
  <2>1. RequestsOK'
    BY <1>2 DEF TypeInv, TypeOK, RequestsOK, ContextDone, replies
  <2> QED BY <1>2, <2>1, Stable, Zenon DEF TypeInv, TypeOK, ContextDone,
       runners
<1>3. ASSUME NEW q \in Requests, SendFinished(q) PROVE TypeInv'
  <2>1. ChannelsOK'
    BY <1>3 DEF TypeInv, TypeOK, ChannelsOK, SendFinished
  <2>2. RequestsOK'
    BY <1>3 DEF TypeInv, TypeOK, RequestsOK, SendFinished, replies
  <2> QED BY <1>3, <2>1, <2>2, Stable, Zenon DEF TypeInv, TypeOK, SendFinished,
       runners
<1>4. ASSUME NEW q \in Requests, Requeue(q) PROVE TypeInv'
  <2>1. ChannelsOK'
    BY <1>4 DEF TypeInv, TypeOK, ChannelsOK, Requeue
  <2>2. RequestsOK'
    BY <1>4 DEF TypeInv, TypeOK, RequestsOK, Requeue, replies
  <2> QED BY <1>4, <2>1, <2>2, Stable, Zenon DEF TypeInv, TypeOK, Requeue,
       runners
<1>5. ASSUME NEW r \in Runners, LoadSucceeds(r) PROVE TypeInv'
  <2>1. LifeOK'
    BY <1>5 DEF TypeInv, TypeOK, LifeOK, LoadSucceeds
  <2>2. RefsOK'
    BY <1>5 DEF TypeInv, TypeOK, RefsOK, LoadSucceeds, RefMuOwners, refs
  <2>3. RequestsOK'
    BY <1>5, ServeTypes DEF TypeInv, TypeOK, LoadSucceeds
  <2> QED BY <1>5, <2>1, <2>2, <2>3, Stable, Zenon DEF TypeInv, TypeOK,
       LoadSucceeds, Serve
<1>6. ASSUME NEW r \in Runners, LoadFails(r) PROVE TypeInv'
  <2>1. RefsOK'
    <3>1. refCount[r] \in 0 .. RefMod - 1
      BY DEF TypeInv, TypeOK, RefsOK
    <3>2. (refCount \in [Runners -> 0 .. RefMod - 1])'
      BY <1>6, <3>1, RefCountTypes DEF TypeInv, TypeOK, RefsOK, LoadFails, FailLoad
    <3>3. (refMu \in [Runners -> RefMuOwners])'
      BY <1>6 DEF TypeInv, TypeOK, RefsOK, LoadFails, FailLoad, RefMuOwners
    <3> QED BY <1>6, <3>2, <3>3, Zenon DEF TypeInv, TypeOK, RefsOK, LoadFails, FailLoad
  <2>2. RequestsOK'
    BY <1>6 DEF TypeInv, TypeOK, RequestsOK, LoadFails, FailLoad
  <2> QED BY <1>6, <2>1, <2>2, Stable, Zenon DEF TypeInv, TypeOK, LoadFails,
       FailLoad
<1>7. ASSUME NEW r \in Runners, ExpireFailedOrTimedOut(r) PROVE TypeInv'
  <2>1. ChannelsOK'
    BY <1>7, SendExpiredTypes DEF TypeInv, TypeOK, ExpireFailedOrTimedOut
  <2>2. RefsOK'
    BY <1>7, SendExpiredTypes DEF TypeInv, TypeOK, ExpireFailedOrTimedOut
  <2> QED BY <1>7, <2>1, <2>2, Stable, Zenon DEF TypeInv, TypeOK,
       ExpireFailedOrTimedOut, SendExpired
<1>8. ASSUME NEW r \in Runners, RetryExpired(r) PROVE TypeInv'
  <2>1. ChannelsOK'
    BY <1>8 DEF TypeInv, TypeOK, ChannelsOK, RetryExpired
  <2>2. TimersOK'
    BY <1>8 DEF TypeInv, TypeOK, TimersOK, RetryExpired, keeps
  <2> QED BY <1>8, <2>1, <2>2, Stable, Zenon DEF TypeInv, TypeOK, RetryExpired
<1>9. ASSUME NEW r \in Runners, TimerFires(r) PROVE TypeInv'
  <2>1. TimersOK'
    BY <1>9 DEF TypeInv, TypeOK, TimersOK, TimerFires
  <2> QED BY <1>9, <2>1, Stable, Zenon DEF TypeInv, TypeOK, TimerFires
<1>10. ASSUME NEW r \in Runners, TimerCallback(r) PROVE TypeInv'
  <2>1. RefsOK'
    BY <1>10 DEF TypeInv, TypeOK, RefsOK, TimerCallback, RefMuOwners, refs
  <2>2. TimersOK'
    BY <1>10 DEF TypeInv, TypeOK, TimersOK, TimerCallback
  <2> QED BY <1>10, <2>1, <2>2, Stable, Zenon DEF TypeInv, TypeOK,
       TimerCallback
<1>11. ASSUME NEW m \in Models, ExpireRunner(m) PROVE TypeInv'
  <2>1. LoadedOK'
    BY <1>11 DEF TypeInv, TypeOK, LoadedOK, ExpireRunner
  <2>2. ControlOK'
    <3>1. (stopping \in Runners \union {NoRunner})'
      BY <1>11 DEF TypeInv, TypeOK, LoadedOK, ExpireRunner
    <3>2. (stops \in 0 .. MaxStops)'
      BY <1>11, SchedulerAssumption DEF TypeInv, TypeOK, ControlOK, ExpireRunner
    <3> QED BY <1>11, <3>1, <3>2, Zenon DEF TypeInv, TypeOK, ControlOK, ExpireRunner
  <2> QED BY <1>11, <2>1, <2>2, Stable, Zenon DEF TypeInv, TypeOK,
       ExpireRunner, runners
<1>12. CASE ExpireRunnerNow
  <2>1. LoadedOK'
    BY <1>12 DEF TypeInv, TypeOK, LoadedOK, ExpireRunnerNow
  <2>2. RefsOK'
    BY <1>12 DEF TypeInv, TypeOK, RefsOK, ExpireRunnerNow, ExpireNow,
         RefMuOwners, refs
  <2>3. TimersOK'
    BY <1>12 DEF TypeInv, TypeOK, TimersOK, ExpireRunnerNow, ExpireNow, events
  <2>4. ControlOK'
    BY <1>12 DEF TypeInv, TypeOK, ControlOK, ExpireRunnerNow
  <2> QED BY <1>12, <2>1, <2>2, <2>3, <2>4, Stable, Zenon DEF TypeInv, TypeOK,
       ExpireRunnerNow, ExpireNow
<1>13. CASE SendStopped
  <2>1. ChannelsOK'
    BY <1>13, SendExpiredTypes DEF TypeInv, TypeOK, ControlOK, SendStopped
  <2>2. LoadedOK'
    BY <1>13 DEF TypeInv, TypeOK, LoadedOK, SendStopped
  <2>3. RefsOK'
    BY <1>13, SendExpiredTypes DEF TypeInv, TypeOK, ControlOK, SendStopped
  <2>4. ControlOK'
    BY <1>13 DEF TypeInv, TypeOK, ControlOK, SendStopped
  <2> QED BY <1>13, <2>1, <2>2, <2>3, <2>4, Stable, Zenon DEF TypeInv, TypeOK,
       SendStopped, SendExpired
<1>14. CASE Shutdown
  <2>1. ControlOK'
    BY <1>14 DEF TypeInv, TypeOK, ControlOK, Shutdown
  <2> QED BY <1>14, <2>1, Stable, Zenon DEF TypeInv, TypeOK, Shutdown, runners
<1>15. CASE UnloadAllRunners
  <2>1. LifeOK'
    BY <1>15 DEF TypeInv, TypeOK, LifeOK, UnloadAllRunners, LoadedRunners
  <2>2. ControlOK'
    BY <1>15 DEF TypeInv, TypeOK, ControlOK, UnloadAllRunners
  <2> QED BY <1>15, <2>1, <2>2, Stable, Zenon DEF TypeInv, TypeOK,
       UnloadAllRunners
<1> QED BY <1>1, <1>2, <1>3, <1>4, <1>5, <1>6, <1>7, <1>8, <1>9, <1>10, <1>11,
     <1>12, <1>13, <1>14, <1>15 DEF Other, Stopper, RequestStep, RunnerStep

(* The initial state has the types.                                        *)
LEMMA InitTypes == Init => TypeInv
<1> SUFFICES ASSUME Init PROVE TypeInv
  OBVIOUS
<1>1. NoOptions \in Options
  BY SchedulerAssumption DEF NoOptions, Options, Default
<1>2. NoInfo \in RunnerInfo
  BY <1>1 DEF NoInfo, RunnerInfo, Options, NoRequest
<1>3. ChannelsOK /\ LoadedOK
  BY SchedulerAssumption DEF Init, ChannelsOK, LoadedOK
<1>4. LifeOK
  BY <1>2, Zenon DEF Init, LifeOK
<1>5. RefsOK
  BY SchedulerAssumption DEF Init, RefsOK, RefMuOwners
<1>6. TimersOK
  BY DEF Init, TimersOK
<1>7. RequestsOK
  BY <1>1, SchedulerAssumption DEF Init, RequestsOK
<1>8. PendingOK /\ PendingHand
  BY DEF Init, PendingOK, PendingHand, PendingPCs
<1>9. CompletedOK /\ CompletedHand
  BY DEF Init, CompletedOK, CompletedHand, CompletedPCs
<1>10. ControlOK
  BY SchedulerAssumption DEF Init, ControlOK
<1> QED BY <1>3, <1>4, <1>5, <1>6, <1>7, <1>8, <1>9, <1>10 DEF TypeInv, TypeOK

(* Every step keeps the types.                                             *)
LEMMA NextTypes == TypeInv /\ [Next]_vars => TypeInv'
<1>1. TypeInv /\ Next => TypeInv'
  BY PendingTypes, CompletedTypes, OtherTypes DEF Next, Other
<1>2. TypeInv /\ UNCHANGED vars => TypeInv'
  BY Stable, Zenon DEF TypeInv, TypeOK, vars, runners
<1> QED BY <1>1, <1>2

(* The type invariant, together with what the loops have in hand.          *)
THEOREM TypeInvariant == Spec => []TypeInv
BY InitTypes, NextTypes, PTL DEF Spec

(* The type invariant of the model holds in every state: above all, the    *)
(* unsigned refCount never leaves its range.                               *)
THEOREM TypeCorrect == Spec => []TypeOK
<1>1. TypeInv => TypeOK
  BY DEF TypeInv
<1> QED BY <1>1, TypeInvariant, PTL

-----------------------------------------------------------------------------
(* No runner is left behind, and no wake-up is lost.                       *)

(* While the loader of a runner holds its mutex, the one request it is     *)
(* loaded for is its only use.                                             *)
LoaderCounted == \A r \in Runners : refMu[r] = "loader" => refCount[r] = 1

(* The runner that processPending asked to be unloaded has no keep-alive   *)
(* left.                                                                   *)
KeepAliveDropped == pPC \in {"send", "wait"} => duration[pRunner] = 0

(* What a channel holds after a send.                                      *)
LEMMA SentAppend ==
  ASSUME NEW S, NEW ch \in Seq(S), NEW e \in S
  PROVE  Sent(Append(ch, e)) = Sent(ch) \union {e}
<1>1. Sent(Append(ch, e)) \subseteq Sent(ch) \union {e}
  BY DEF Sent
<1>2. Sent(ch) \subseteq Sent(Append(ch, e))
  <2> SUFFICES ASSUME NEW i \in DOMAIN ch PROVE ch[i] \in Sent(Append(ch, e))
    BY DEF Sent
  <2>1. i \in DOMAIN Append(ch, e) /\ Append(ch, e)[i] = ch[i]
    OBVIOUS
  <2> QED BY <2>1 DEF Sent
<1>3. e \in Sent(Append(ch, e))
  <2>1. Len(ch) + 1 \in DOMAIN Append(ch, e) /\ Append(ch, e)[Len(ch) + 1] = e
    OBVIOUS
  <2> QED BY <2>1 DEF Sent
<1> QED BY <1>1, <1>2, <1>3

(* What a channel holds before a receive.                                  *)
LEMMA SentTail ==
  ASSUME NEW S, NEW ch \in Seq(S), ch # <<>>
  PROVE  Sent(ch) = {Head(ch)} \union Sent(Tail(ch))
<1>1. Sent(ch) \subseteq {Head(ch)} \union Sent(Tail(ch))
  <2> SUFFICES ASSUME NEW i \in DOMAIN ch, i # 1
               PROVE  ch[i] \in Sent(Tail(ch))
    BY DEF Sent
  <2>1. i - 1 \in DOMAIN Tail(ch) /\ Tail(ch)[i - 1] = ch[i]
    OBVIOUS
  <2> QED BY <2>1 DEF Sent
<1>2. Sent(Tail(ch)) \subseteq Sent(ch)
  <2> SUFFICES ASSUME NEW i \in DOMAIN Tail(ch) PROVE Tail(ch)[i] \in Sent(ch)
    BY DEF Sent
  <2>1. i + 1 \in DOMAIN ch /\ Tail(ch)[i] = ch[i + 1]
    OBVIOUS
  <2> QED BY <2>1 DEF Sent
<1>3. Head(ch) \in Sent(ch)
  <2>1. 1 \in DOMAIN ch /\ Head(ch) = ch[1]
    OBVIOUS
  <2> QED BY <2>1 DEF Sent
<1> QED BY <1>1, <1>2, <1>3

(* Most steps leave the runners and the expired events alone ...           *)
QuietRunners == UNCHANGED <<runners, expiredCh>>

(* ... those of processPending that only look and choose ...               *)
PendingQuiet == QuietRunners /\ UNCHANGED cvars /\ pPC' \notin {"send", "wait"}

(* The steps of processPending that do more than look and choose.          *)
LEMMA PendingSteps ==
  ASSUME Pending
  PROVE  UseLoadedRunner \/ Load \/ TriggerExpiration \/ SendExpiration \/ PendingQuiet
<1> USE DEF PendingQuiet, QuietRunners
<1>1. ReceivePending => PendingQuiet
  BY DEF ReceivePending
<1>2. IgnoreUnload => PendingQuiet
  BY DEF IgnoreUnload, pvars
<1>3. FoundLoaded => PendingQuiet
  BY DEF FoundLoaded, chans
<1>4. MaxRunnersAchieved => PendingQuiet
  BY DEF MaxRunnersAchieved, chans
<1>5. LoadModelFails => PendingQuiet
  BY DEF LoadModelFails, NextPending, chans
<1>6. PlaceOnCpu => PendingQuiet
  BY DEF PlaceOnCpu, PlaceOn, chans
<1>7. PlaceFirst => PendingQuiet
  BY DEF PlaceFirst, PlaceOn, chans
<1>8. PlaceAmongOthers => PendingQuiet
  BY DEF PlaceAmongOthers, chans
<1>9. FilterGpus => PendingQuiet
  BY DEF FilterGpus, chans
<1>10. UpdateFreeSpace => PendingQuiet
  BY DEF UpdateFreeSpace, chans
<1>11. ASSUME NEW r \in Runners PROVE SumRunner(r) => PendingQuiet
  BY DEF SumRunner, chans
<1>12. PickFit => PendingQuiet
  BY DEF PickFit, PlaceOn, chans
<1>13. DelayRequest => PendingQuiet
  BY DEF DelayRequest, NoFit, NextPending, chans
<1>14. MakeRoom => PendingQuiet
  BY DEF MakeRoom, NoFit, chans
<1>15. NeedsReload => PendingQuiet
  BY DEF NeedsReload, chans
<1>16. FindRunnerToUnload => PendingQuiet
  BY DEF FindRunnerToUnload, chans
<1>17. ScanRunner => PendingQuiet
  BY DEF ScanRunner, chans
<1>18. NewServerFails => PendingQuiet
  BY DEF NewServerFails, NextPending, chans
<1>19. UnloadCompleted => PendingQuiet
  BY DEF UnloadCompleted
<1>20. StopPending => PendingQuiet
  BY DEF StopPending, chans
<1> QED BY <1>1, <1>2, <1>3, <1>4, <1>5, <1>6, <1>7, <1>8, <1>9, <1>10, <1>11,
     <1>12, <1>13, <1>14, <1>15, <1>16, <1>17, <1>18, <1>19, <1>20 DEF Pending

(* ... those of processCompleted that receive and look up ...              *)
CompletedQuiet ==
  /\ QuietRunners /\ UNCHANGED <<pvars, unloadedCh>>
  /\ cPC \in {"select", "finished"} /\ cPC' \in {"finished", "finish", "select", "exit"}

(* The steps of processCompleted that do more than receive and look up.    *)
LEMMA CompletedSteps ==
  ASSUME Completed
  PROVE  \/ FinishRequest \/ ExpireFinished \/ ReceiveExpired \/ ExpiredInUse
         \/ ExpiredIdle \/ Unload \/ SendUnloaded \/ CompletedQuiet
<1> USE DEF CompletedQuiet, QuietRunners
<1>1. ReceiveFinished => CompletedQuiet
  BY DEF ReceiveFinished
<1>2. LookupFinished => CompletedQuiet
  BY DEF LookupFinished, chans
<1>3. StopCompleted => CompletedQuiet
  BY DEF StopCompleted, chans
<1> QED BY <1>1, <1>2, <1>3 DEF Completed

(* ... and those of requests and of the shutdown signal.                   *)
OtherQuiet == QuietRunners /\ UNCHANGED <<pvars, cvars, unloadedCh>>

(* The other steps that touch a runner or an expired event.                *)
LEMMA OtherSteps ==
  ASSUME Other
  PROVE  \/ \E r \in Runners : RunnerStep(r)
         \/ ExpireRunnerNow \/ SendStopped \/ UnloadAllRunners \/ OtherQuiet
<1> USE DEF OtherQuiet, QuietRunners
<1>1. GetRunner => OtherQuiet
  BY DEF GetRunner
<1>2. ASSUME NEW q \in Requests PROVE ContextDone(q) => OtherQuiet
  BY DEF ContextDone, chans
<1>3. ASSUME NEW q \in Requests PROVE RequestStep(q) => OtherQuiet
  BY DEF RequestStep, SendFinished, Requeue
<1>4. ASSUME NEW m \in Models PROVE ExpireRunner(m) => OtherQuiet
  BY DEF ExpireRunner, chans
<1>5. Shutdown => OtherQuiet
  BY DEF Shutdown, chans
<1> QED BY <1>1, <1>2, <1>3, <1>4, <1>5 DEF Other, Stopper

(* An expired event that is sent is in the channel.                        *)
LEMMA SendExpiredSent ==
  ASSUME NEW r \in Runners, ChannelsOK, SendExpired(r)
  PROVE  Sent(expiredCh') = Sent(expiredCh) \union {r}
BY SentAppend DEF ChannelsOK, SendExpired

(* No step leaves a live idle runner without a timer or an expired event.  *)
LEMMA IdleStep ==
  ASSUME TypeInv, LoaderCounted, IdleRunnerExpires, [Next]_vars
  PROVE  IdleRunnerExpires'
<1> USE DEF IdleRunnerExpires, Expiring
<1>1. CASE PendingQuiet
  BY <1>1 DEF PendingQuiet, QuietRunners, runners, life, refs, keeps, events, cvars
<1>2. CASE CompletedQuiet
  BY <1>2 DEF CompletedQuiet, QuietRunners, runners, life, refs, keeps, events
<1>3. CASE OtherQuiet
  BY <1>3 DEF OtherQuiet, QuietRunners, runners, life, refs, keeps, events, cvars
<1>4. CASE UNCHANGED vars
  BY <1>4 DEF vars, chans, runners, life, refs, keeps, events, cvars
<1>5. CASE UseLoadedRunner
  BY <1>5, SchedulerAssumption DEF UseLoadedRunner, TypeInv, TypeOK, RefsOK, TimersOK,
     Inc, life, events, chans, cvars
<1>6. CASE Load
  BY <1>6 DEF Load, TypeInv, TypeOK, LifeOK, RefsOK, events, chans, cvars
<1>7. CASE TriggerExpiration
  BY <1>7 DEF TriggerExpiration, ExpireNow, Idle, TypeInv, TypeOK, RefsOK, TimersOK,
     life, refs, events, chans, cvars
<1>8. CASE SendExpiration
  BY <1>8, SendExpiredSent DEF SendExpiration, SendExpired, TypeInv, TypeOK,
     PendingHand, RefsOK, life, refs, keeps, events, chans, cvars
<1>9. CASE FinishRequest
  BY <1>9, SchedulerAssumption DEF FinishRequest, GoneIdle, NextCompleted, Dec,
     TypeInv, TypeOK, CompletedHand, RefsOK, TimersOK, life, events, chans
<1>10. CASE ExpireFinished
  BY <1>10, SendExpiredSent DEF ExpireFinished, SendExpired, NextCompleted, TypeInv,
     TypeOK, CompletedHand, RefsOK, life, refs, keeps, events, chans
<1>11. CASE ReceiveExpired
  BY <1>11, SentTail DEF ReceiveExpired, TypeInv, TypeOK, ChannelsOK, runners, life,
     refs, keeps, events
<1>12. CASE ExpiredInUse
  BY <1>12 DEF ExpiredInUse, NextCompleted, TypeInv, TypeOK, CompletedHand, TimersOK,
     life, refs, keeps, chans
<1>13. CASE ExpiredIdle
  BY <1>13 DEF ExpiredIdle, TypeInv, TypeOK, RefsOK, life, refs, keeps, events, chans
<1>14. CASE Unload
  BY <1>14 DEF Unload, TypeInv, TypeOK, RefsOK, LifeOK, TimersOK, refs, events, chans
<1>15. CASE SendUnloaded
  BY <1>15 DEF SendUnloaded, NextCompleted, runners, life, refs, keeps, events
<1>16. ASSUME NEW r \in Runners, RunnerStep(r) PROVE IdleRunnerExpires'
  <2>1. CASE LoadSucceeds(r)
    BY <2>1 DEF LoadSucceeds, LoaderCounted, TypeInv, TypeOK, RefsOK, refs, keeps,
       events, chans, cvars
  <2>2. CASE LoadFails(r)
    BY <2>2 DEF LoadFails, FailLoad, TypeInv, TypeOK, RefsOK, life, keeps, events,
       chans, cvars
  <2>3. CASE ExpireFailedOrTimedOut(r)
    BY <2>3, SendExpiredSent DEF ExpireFailedOrTimedOut, SendExpired, TypeInv, TypeOK,
       RefsOK, life, refs, keeps, events, chans, cvars
  <2>4. CASE RetryExpired(r)
    BY <2>4, SentAppend DEF RetryExpired, TypeInv, TypeOK, ChannelsOK, TimersOK, life,
       refs, keeps, cvars
  <2>5. CASE TimerFires(r)
    BY <2>5 DEF TimerFires, TypeInv, TypeOK, TimersOK, life, refs, chans, cvars
  <2>6. CASE TimerCallback(r)
    BY <2>6 DEF TimerCallback, TypeInv, TypeOK, RefsOK, TimersOK, life, refs, chans, cvars
  <2> QED BY <1>16, <2>1, <2>2, <2>3, <2>4, <2>5, <2>6 DEF RunnerStep
<1>17. CASE ExpireRunnerNow
  BY <1>17 DEF ExpireRunnerNow, ExpireNow, Idle, TypeInv, TypeOK, RefsOK, TimersOK,
     life, refs, events, chans, cvars
<1>18. CASE SendStopped
  BY <1>18, SendExpiredSent DEF SendStopped, SendExpired, TypeInv, TypeOK, ControlOK,
     RefsOK, life, refs, keeps, events, chans, cvars
<1>19. CASE UnloadAllRunners
  BY <1>19 DEF UnloadAllRunners, TypeInv, TypeOK, LifeOK, refs, keeps, events, chans,
     cvars
<1> QED BY <1>1, <1>2, <1>3, <1>4, <1>5, <1>6, <1>7, <1>8, <1>9, <1>10, <1>11, <1>12,
     <1>13, <1>14, <1>15, <1>16, <1>17, <1>18, <1>19, PendingSteps, CompletedSteps,
     OtherSteps DEF Next, Other

(* refCount is 1 until the load is over: whoever changes it needs the      *)
(* mutex.                                                                  *)
LEMMA LoaderStep ==
  ASSUME TypeInv, LoaderCounted, [Next]_vars
  PROVE  LoaderCounted'
<1> USE DEF LoaderCounted
<1>1. CASE UNCHANGED <<refMu, refs>>
  BY <1>1 DEF refs
<1>2. CASE PendingQuiet \/ CompletedQuiet \/ OtherQuiet
  BY <1>1, <1>2 DEF PendingQuiet, CompletedQuiet, OtherQuiet, QuietRunners, runners
<1>3. CASE UNCHANGED vars
  BY <1>1, <1>3 DEF vars, runners
<1>4. CASE UseLoadedRunner
  BY <1>4 DEF UseLoadedRunner, Unlocked, TypeInv, TypeOK, RefsOK
<1>5. CASE Load
  BY <1>5 DEF Load, TypeInv, TypeOK, RefsOK
<1>6. CASE TriggerExpiration \/ ExpireRunnerNow
  BY <1>6 DEF TriggerExpiration, ExpireRunnerNow, ExpireNow, TypeInv, TypeOK, RefsOK, refs
<1>7. CASE SendExpiration \/ ExpireFinished \/ SendStopped
  BY <1>7 DEF SendExpiration, ExpireFinished, SendStopped, SendExpired, TypeInv,
     TypeOK, RefsOK, refs
<1>8. CASE FinishRequest
  BY <1>8 DEF FinishRequest, GoneIdle, Unlocked, TypeInv, TypeOK, RefsOK
<1>9. CASE ReceiveExpired \/ ExpiredInUse \/ SendUnloaded
  BY <1>1, <1>9 DEF ReceiveExpired, ExpiredInUse, SendUnloaded, runners
<1>10. CASE ExpiredIdle \/ Unload
  BY <1>10 DEF ExpiredIdle, Unload, TypeInv, TypeOK, RefsOK, refs
<1>11. ASSUME NEW r \in Runners, RunnerStep(r) PROVE LoaderCounted'
  <2>1. CASE LoadSucceeds(r)
    BY <2>1 DEF LoadSucceeds, TypeInv, TypeOK, RefsOK, refs
  <2>2. CASE LoadFails(r)
    BY <2>2 DEF LoadFails, FailLoad, TypeInv, TypeOK, RefsOK
  <2>3. CASE ExpireFailedOrTimedOut(r)
    BY <2>3 DEF ExpireFailedOrTimedOut, SendExpired, TypeInv, TypeOK, RefsOK, refs
  <2>4. CASE TimerCallback(r)
    BY <2>4 DEF TimerCallback, TypeInv, TypeOK, RefsOK, refs
  <2>5. CASE RetryExpired(r) \/ TimerFires(r)
    BY <1>1, <2>5 DEF RetryExpired, TimerFires
  <2> QED BY <1>11, <2>1, <2>2, <2>3, <2>4, <2>5 DEF RunnerStep
<1>12. CASE UnloadAllRunners
  BY <1>1, <1>12 DEF UnloadAllRunners
<1> QED BY <1>2, <1>3, <1>4, <1>5, <1>6, <1>7, <1>8, <1>9, <1>10, <1>11, <1>12,
     PendingSteps, CompletedSteps, OtherSteps DEF Next, Other

(* Only processPending itself, which waits, could give the runner a keep-  *)
(* alive again.                                                            *)
LEMMA KeepAliveStep ==
  ASSUME TypeInv, KeepAliveDropped, [Next]_vars
  PROVE  KeepAliveDropped'
<1> USE DEF KeepAliveDropped
<1>1. CASE UNCHANGED <<pvars, duration>>
  BY <1>1 DEF pvars
<1>2. CASE PendingQuiet
  BY <1>2 DEF PendingQuiet
<1>3. CASE CompletedQuiet \/ OtherQuiet \/ UNCHANGED vars
  BY <1>1, <1>3 DEF CompletedQuiet, OtherQuiet, QuietRunners, vars, runners, keeps
<1>4. CASE UseLoadedRunner \/ Load
  BY <1>4 DEF UseLoadedRunner, Load, NextPending
<1>5. CASE TriggerExpiration
  BY <1>5 DEF TriggerExpiration, ExpireNow, TypeInv, TypeOK, TimersOK, PendingHand
<1>6. CASE SendExpiration
  BY <1>6 DEF SendExpiration, SendExpired, keeps
<1>7. CASE FinishRequest \/ ExpireFinished \/ ReceiveExpired \/ ExpiredInUse
  BY <1>1, <1>7 DEF FinishRequest, ExpireFinished, SendExpired, ReceiveExpired,
     ExpiredInUse, runners, keeps
<1>8. CASE ExpiredIdle \/ Unload \/ SendUnloaded
  BY <1>1, <1>8 DEF ExpiredIdle, Unload, SendUnloaded, runners, keeps
<1>9. ASSUME NEW r \in Runners, RunnerStep(r) PROVE KeepAliveDropped'
  BY <1>1, <1>9 DEF RunnerStep, LoadSucceeds, LoadFails, FailLoad,
     ExpireFailedOrTimedOut, SendExpired, RetryExpired, TimerFires, TimerCallback,
     keeps
<1>10. CASE ExpireRunnerNow
  BY <1>10 DEF ExpireRunnerNow, ExpireNow, TypeInv, TypeOK, TimersOK, PendingHand, pvars
<1>11. CASE SendStopped \/ UnloadAllRunners
  BY <1>1, <1>11 DEF SendStopped, SendExpired, UnloadAllRunners, keeps
<1> QED BY <1>2, <1>3, <1>4, <1>5, <1>6, <1>7, <1>8, <1>9, <1>10, <1>11, PendingSteps,
     CompletedSteps, OtherSteps DEF Next, Other

(* No step takes away the last reason why processPending will be woken.    *)
LEMMA WakeupStep ==
  ASSUME TypeInv, LoaderCounted, KeepAliveDropped, NoLostWakeup, [Next]_vars
  PROVE  NoLostWakeup'
<1> USE DEF NoLostWakeup, Expiring
<1>1. CASE PendingQuiet
  BY <1>1 DEF PendingQuiet
<1>2. CASE UseLoadedRunner \/ Load
  BY <1>2 DEF UseLoadedRunner, Load, NextPending
<1>3. CASE CompletedQuiet
  BY <1>3 DEF CompletedQuiet, QuietRunners, runners, refs, keeps, events, pvars
<1>4. CASE OtherQuiet
  BY <1>4 DEF OtherQuiet, QuietRunners, runners, refs, keeps, events, cvars, pvars
<1>5. CASE UNCHANGED vars
  BY <1>5 DEF vars, chans, runners, refs, keeps, events, cvars, pvars
<1>6. CASE TriggerExpiration
  BY <1>6 DEF TriggerExpiration, ExpireNow, Idle, TypeInv, TypeOK, RefsOK, TimersOK,
     PendingHand, refs
<1>7. CASE SendExpiration
  BY <1>7, SendExpiredSent DEF SendExpiration, TypeInv, TypeOK, PendingHand
<1>8. CASE FinishRequest
  BY <1>8, SchedulerAssumption DEF FinishRequest, GoneIdle, NextCompleted, Dec,
     TypeInv, TypeOK, CompletedHand, PendingHand, RefsOK, KeepAliveDropped, events,
     chans, pvars
<1>9. CASE ExpireFinished
  BY <1>9, SendExpiredSent DEF ExpireFinished, SendExpired, NextCompleted, TypeInv,
     TypeOK, CompletedHand, PendingHand, RefsOK, refs, keeps, events, pvars
<1>10. CASE ReceiveExpired
  BY <1>10, SentTail DEF ReceiveExpired, TypeInv, TypeOK, ChannelsOK, runners, refs,
     keeps, events, pvars
<1>11. CASE ExpiredInUse
  BY <1>11 DEF ExpiredInUse, NextCompleted, TypeInv, TypeOK, CompletedHand,
     PendingHand, TimersOK, refs, keeps, chans, pvars
<1>12. CASE ExpiredIdle \/ Unload
  BY <1>12 DEF ExpiredIdle, Unload
<1>13. CASE SendUnloaded
  BY <1>13 DEF SendUnloaded, TypeInv, TypeOK, ChannelsOK
<1>14. ASSUME NEW r \in Runners, RunnerStep(r) PROVE NoLostWakeup'
  <2>1. CASE LoadSucceeds(r)
    BY <2>1 DEF LoadSucceeds, LoaderCounted, KeepAliveDropped, TypeInv, TypeOK,
       RefsOK, PendingHand, refs, keeps, events, chans, cvars, pvars
  <2>2. CASE LoadFails(r)
    BY <2>2 DEF LoadFails, FailLoad, TypeInv, TypeOK, RefsOK, PendingHand, keeps,
       events, chans, cvars, pvars
  <2>3. CASE ExpireFailedOrTimedOut(r)
    BY <2>3, SendExpiredSent DEF ExpireFailedOrTimedOut, SendExpired, TypeInv, TypeOK,
       RefsOK, PendingHand, refs, keeps, events, cvars, pvars
  <2>4. CASE RetryExpired(r)
    BY <2>4, SentAppend DEF RetryExpired, TypeInv, TypeOK, ChannelsOK, TimersOK,
       PendingHand, refs, keeps, cvars, pvars
  <2>5. CASE TimerFires(r)
    BY <2>5 DEF TimerFires, TypeInv, TypeOK, TimersOK, PendingHand, refs, chans,
       cvars, pvars
  <2>6. CASE TimerCallback(r)
    BY <2>6 DEF TimerCallback, TypeInv, TypeOK, RefsOK, TimersOK, PendingHand, refs,
       chans, cvars, pvars
  <2> QED BY <1>14, <2>1, <2>2, <2>3, <2>4, <2>5, <2>6 DEF RunnerStep
<1>15. CASE ExpireRunnerNow
  BY <1>15 DEF ExpireRunnerNow, ExpireNow, Idle, TypeInv, TypeOK, RefsOK, TimersOK,
     PendingHand, refs, events, chans, cvars, pvars
<1>16. CASE SendStopped
  BY <1>16, SendExpiredSent DEF SendStopped, SendExpired, TypeInv, TypeOK, ControlOK,
     RefsOK, PendingHand, refs, keeps, events, cvars, pvars
<1>17. CASE UnloadAllRunners
  BY <1>17 DEF UnloadAllRunners, refs, keeps, events, chans, cvars, pvars
<1> QED BY <1>1, <1>2, <1>3, <1>4, <1>5, <1>6, <1>7, <1>8, <1>9, <1>10, <1>11,
     <1>12, <1>13, <1>14, <1>15, <1>16, <1>17,
     PendingSteps, CompletedSteps, OtherSteps DEF Next, Other

(* The inductive invariant of this module.                                 *)
SafetyInv == /\ TypeInv /\ LoaderCounted /\ KeepAliveDropped
             /\ IdleRunnerExpires /\ NoLostWakeup

(* The inductive invariant holds in every state.                           *)
THEOREM SafetyInvariant == Spec => []SafetyInv
<1>1. Init => SafetyInv
  <2>1. Init => LoaderCounted /\ KeepAliveDropped /\ IdleRunnerExpires /\ NoLostWakeup
    BY DEF Init, LoaderCounted, KeepAliveDropped, IdleRunnerExpires, NoLostWakeup
  <2> QED BY <2>1, InitTypes DEF SafetyInv
<1>2. SafetyInv /\ [Next]_vars => SafetyInv'
  BY NextTypes, LoaderStep, KeepAliveStep, IdleStep, WakeupStep DEF SafetyInv
<1> QED BY <1>1, <1>2, PTL DEF Spec

(* In every state, every live idle runner has a timer or an expired event  *)
(* on its way: processCompleted, timers, evictions, stop requests and      *)
(* failed loads never leave one behind.                                    *)
THEOREM IdleRunnersExpire == Spec => []IdleRunnerExpires
<1>1. SafetyInv => IdleRunnerExpires
  BY DEF SafetyInv
<1> QED BY <1>1, SafetyInvariant, PTL

(* In every state in which processPending waits for an unload, one has     *)
(* been announced or is bound to be.                                       *)
THEOREM WakeupsNotLost == Spec => []NoLostWakeup
<1>1. SafetyInv => NoLostWakeup
  BY DEF SafetyInv
<1> QED BY <1>1, SafetyInvariant, PTL

-----------------------------------------------------------------------------
(* A runner exists once load has recorded its subprocess.                  *)
Born(r) == llama[r] # "none"

(* The map, the loops, the channel and the stop handler know of no runner  *)
(* that does not exist ...                                                 *)
LoadedBorn == \A m \in Models : loaded[m] # NoRunner => Born(loaded[m])
PendingBorn ==
  /\ pPC \in {"check", "use", "scan", "expire", "send", "wait"} => Born(pRunner)
  /\ pPC = "scan" => \A i \in DOMAIN pList : Born(pList[i])
CompletedBorn == cPC \in {"finish", "send", "expired", "unload"} => Born(cRunner)
EventsBorn ==
  /\ \A r \in Sent(expiredCh) : Born(r)
  /\ stopping # NoRunner => Born(stopping)

(* ... and such a runner has no owner, timer or event.                     *)
UnbornIdle ==
  \A r \in Runners :
    ~Born(r) => refMu[r] = "free" /\ timer[r] = "nil" /\ firing[r] = 0 /\ retry[r] = 0
BornInv == LoadedBorn /\ PendingBorn /\ CompletedBorn /\ EventsBorn /\ UnbornIdle

(* What each loop and each other goroutine leaves alone: processPending    *)
(* ...                                                                     *)
LEMMA PendingFrame == Pending => UNCHANGED <<cvars, ctl>>
BY Zenon DEF Pending, ReceivePending, IgnoreUnload, FoundLoaded, MaxRunnersAchieved,
   LoadModelFails, PlaceOnCpu, PlaceFirst, PlaceOn, PlaceAmongOthers, FilterGpus,
   UpdateFreeSpace, SumRunner, PickFit, DelayRequest, MakeRoom, NoFit, NeedsReload,
   UseLoadedRunner, FindRunnerToUnload, ScanRunner, NewServerFails, Load,
   TriggerExpiration, SendExpiration, UnloadCompleted, StopPending

(* ... processCompleted ...                                                *)
LEMMA CompletedFrame == Completed => UNCHANGED <<pvars, ctl>>
BY DEF Completed, ReceiveFinished, LookupFinished, FinishRequest, ExpireFinished,
   ReceiveExpired, ExpiredInUse, ExpiredIdle, Unload, SendUnloaded, StopCompleted

(* ... and all the others.                                                 *)
LEMMA OtherFrame == Other => UNCHANGED <<pvars, cvars>>
BY DEF Other, GetRunner, ContextDone, Stopper, ExpireRunnerNow, SendStopped,
   RequestStep, SendFinished, Requeue, RunnerStep, LoadSucceeds, LoadFails, FailLoad,
   ExpireFailedOrTimedOut, RetryExpired, TimerFires, TimerCallback, ExpireRunner,
   Shutdown, UnloadAllRunners

(* The steps that start or stop a subprocess.                              *)
LEMMA LlamaSteps ==
  ASSUME [Next]_vars
  PROVE  Load \/ Unload \/ UnloadAllRunners \/ UNCHANGED llama
<1> USE DEF life
<1>1. CASE PendingQuiet \/ CompletedQuiet \/ OtherQuiet \/ UNCHANGED vars
  BY <1>1 DEF PendingQuiet, CompletedQuiet, OtherQuiet, QuietRunners, runners, vars
<1>2. CASE UseLoadedRunner \/ TriggerExpiration \/ SendExpiration
  BY <1>2 DEF UseLoadedRunner, TriggerExpiration, ExpireNow, SendExpiration, SendExpired
<1>3. CASE FinishRequest \/ ExpireFinished \/ ReceiveExpired \/ ExpiredInUse
  BY <1>3 DEF FinishRequest, ExpireFinished, SendExpired, ReceiveExpired,
     ExpiredInUse, runners
<1>4. CASE ExpiredIdle \/ SendUnloaded \/ ExpireRunnerNow \/ SendStopped
  BY <1>4 DEF ExpiredIdle, SendUnloaded, ExpireRunnerNow, ExpireNow, SendStopped,
     SendExpired, runners
<1>5. ASSUME NEW r \in Runners, RunnerStep(r) PROVE UNCHANGED llama
  BY <1>5 DEF RunnerStep, LoadSucceeds, LoadFails, FailLoad, ExpireFailedOrTimedOut,
     SendExpired, RetryExpired, TimerFires, TimerCallback
<1> QED BY <1>1, <1>2, <1>3, <1>4, <1>5, PendingSteps, CompletedSteps, OtherSteps DEF
     Next, Other

(* A runner never ceases to exist.                                         *)
LEMMA BornStays ==
  ASSUME TypeInv, [Next]_vars, NEW r \in Runners, Born(r)
  PROVE  Born(r)'
<1>1. CASE Load
  BY <1>1 DEF Load, Born, TypeInv, TypeOK, LifeOK
<1>2. CASE Unload
  BY <1>2 DEF Unload, Born, TypeInv, TypeOK, LifeOK
<1>3. CASE UnloadAllRunners
  BY <1>3 DEF UnloadAllRunners, Born, TypeInv, TypeOK, LifeOK
<1>4. CASE UNCHANGED llama
  BY <1>4 DEF Born
<1> QED BY <1>1, <1>2, <1>3, <1>4, LlamaSteps

(* The steps that change the map of loaded runners.                        *)
LEMMA LoadedSteps ==
  ASSUME [Next]_vars
  PROVE  Load \/ Unload \/ UNCHANGED loaded
<1> USE DEF maps
<1>1. CASE Pending
  BY <1>1 DEF Pending, ReceivePending, IgnoreUnload, FoundLoaded, MaxRunnersAchieved,
     LoadModelFails, PlaceOnCpu, PlaceFirst, PlaceOn, PlaceAmongOthers, FilterGpus,
     UpdateFreeSpace, SumRunner, PickFit, DelayRequest, MakeRoom, NoFit, NeedsReload,
     UseLoadedRunner, FindRunnerToUnload, ScanRunner, NewServerFails,
     TriggerExpiration, SendExpiration, UnloadCompleted, StopPending
<1>2. CASE Completed
  BY <1>2 DEF Completed, ReceiveFinished, LookupFinished, FinishRequest,
     ExpireFinished, ReceiveExpired, ExpiredInUse, ExpiredIdle, SendUnloaded,
     StopCompleted
<1>3. CASE Other
  BY <1>3 DEF Other, GetRunner, ContextDone, Stopper, ExpireRunnerNow, SendStopped,
     RequestStep, SendFinished, Requeue, RunnerStep, LoadSucceeds, LoadFails,
     FailLoad, ExpireFailedOrTimedOut, RetryExpired, TimerFires, TimerCallback,
     ExpireRunner, Shutdown, UnloadAllRunners
<1>4. CASE UNCHANGED vars
  BY <1>4 DEF vars
<1> QED BY <1>1, <1>2, <1>3, <1>4 DEF Next, Other

(* The map holds runners that exist.                                       *)
LEMMA LoadedBornStep ==
  ASSUME TypeInv, LoadedBorn, [Next]_vars
  PROVE  LoadedBorn'
<1> SUFFICES ASSUME NEW m \in Models, loaded'[m] # NoRunner
             PROVE  llama'[loaded'[m]] # "none"
  BY DEF LoadedBorn, Born
<1>1. CASE loaded'[m] = loaded[m]
  <2>1. loaded[m] \in Runners /\ Born(loaded[m])
    BY <1>1 DEF TypeInv, TypeOK, LoadedOK, LoadedBorn
  <2> QED BY <1>1, <2>1, BornStays DEF Born
<1>2. CASE Load
  <2>1. PICK r \in Runners : /\ llama' = [llama EXCEPT ![r] = "open"]
                             /\ loaded' = [loaded EXCEPT ![PModel] = r]
    BY <1>2 DEF Load
  <2>2. CASE loaded'[m] = r
    BY <2>1, <2>2 DEF TypeInv, TypeOK, LifeOK
  <2> QED BY <1>1, <2>1, <2>2 DEF TypeInv, TypeOK, LoadedOK
<1>3. CASE Unload
  BY <1>1, <1>3 DEF Unload, TypeInv, TypeOK, LoadedOK
<1> QED BY <1>1, <1>2, <1>3, LoadedSteps

(* processPending has runners in hand that exist: it takes them from the   *)
(* map.                                                                    *)
LEMMA PendingBornStep ==
  ASSUME TypeInv, LoadedBorn, PendingBorn, [Next]_vars
  PROVE  PendingBorn'
<1>1. CASE UNCHANGED <<pPC, pRunner, pList>>
  <2>1. pPC \in {"check", "use", "scan", "expire", "send", "wait"} => llama'[pRunner] # "none"
    BY BornStays DEF TypeInv, PendingHand, PendingBorn, Born
  <2>2. pPC = "scan" => \A i \in DOMAIN pList : llama'[pList[i]] # "none"
    BY BornStays DEF TypeInv, TypeOK, PendingOK, PendingBorn, Born
  <2> QED BY <1>1, <2>1, <2>2 DEF PendingBorn, Born
<1>2. CASE Pending
  <2>1. CASE pPC' \notin {"check", "use", "scan", "expire", "send", "wait"}
    BY <2>1 DEF PendingBorn
  <2>2. CASE FoundLoaded
    BY <2>2, OptionsTypes DEF FoundLoaded, LookUp, PModel, LoadedBorn, PendingBorn,
       Born, TypeInv, TypeOK, PendingHand, runners, life
  <2>3. CASE NeedsReload
    BY <2>3 DEF NeedsReload, PendingBorn, Born, runners, life
  <2>4. CASE FindRunnerToUnload
    <3>1. CASE LoadedRunners = {}
      BY <2>1, <2>4, <3>1 DEF FindRunnerToUnload
    <3>2. CASE LoadedRunners # {}
      <4>1. /\ pList' \in Seq(Runners) /\ pList' # <<>>
            /\ \A i \in DOMAIN pList' : pList'[i] \in LoadedRunners
        BY <2>4, <3>2, ByDurationTypes DEF FindRunnerToUnload, TypeInv, TypeOK, ByDuration
      <4>2. \A r \in LoadedRunners : Born(r)
        BY DEF LoadedRunners, LoadedBorn
      <4>3. pList'[1] \in LoadedRunners
        BY <4>1
      <4>4. llama' = llama /\ pRunner' = pList'[1]
        BY <2>4, <3>2 DEF FindRunnerToUnload, runners, life
      <4> QED BY <4>1, <4>2, <4>3, <4>4, Zenon DEF PendingBorn, Born
    <3> QED BY <3>1, <3>2
  <2>5. CASE ScanRunner
    <3>1. Head(pList) = pList[1] /\ 1 \in DOMAIN pList
      BY <2>5 DEF ScanRunner, TypeInv, TypeOK, PendingHand, PendingOK
    <3>2. ASSUME NEW i \in DOMAIN Tail(pList)
          PROVE  Tail(pList)[i] = pList[i + 1] /\ i + 1 \in DOMAIN pList
      BY <2>5 DEF ScanRunner, TypeInv, TypeOK, PendingHand, PendingOK
    <3>3. /\ Born(pRunner) /\ Born(Head(pList))
          /\ \A i \in DOMAIN Tail(pList) : Born(Tail(pList)[i])
      BY <2>5, <3>1, <3>2 DEF ScanRunner, PendingBorn
    <3> QED BY <2>5, <3>3 DEF ScanRunner, PendingBorn, Born, runners, life
  <2>6. CASE TriggerExpiration
    BY <2>6 DEF TriggerExpiration, ExpireNow, PendingBorn, Born, life
  <2>7. CASE SendExpiration
    BY <2>7 DEF SendExpiration, SendExpired, PendingBorn, Born, life
  <2> QED BY <1>2, <2>1, <2>2, <2>3, <2>4, <2>5, <2>6, <2>7 DEF Pending,
       ReceivePending, IgnoreUnload, MaxRunnersAchieved, LoadModelFails, PlaceOnCpu,
       PlaceFirst, PlaceOn, PlaceAmongOthers, FilterGpus, UpdateFreeSpace, SumRunner,
       PickFit, DelayRequest, MakeRoom, UseLoadedRunner, NewServerFails, Load,
       NextPending, UnloadCompleted, StopPending, pvars
<1>3. CASE Completed
  <2>1. UNCHANGED pvars
    BY <1>3, CompletedFrame
  <2> QED BY <1>1, <2>1 DEF pvars, scan
<1>4. CASE Other
  <2>1. UNCHANGED pvars
    BY <1>4, OtherFrame
  <2> QED BY <1>1, <2>1 DEF pvars, scan
<1>5. CASE UNCHANGED vars
  BY <1>1, <1>5 DEF vars, pvars, scan
<1> QED BY <1>2, <1>3, <1>4, <1>5 DEF Next, Other

(* processCompleted has runners in hand that exist: it takes them from the *)
(* map or from the channel.                                                *)
LEMMA CompletedBornStep ==
  ASSUME TypeInv, LoadedBorn, EventsBorn, CompletedBorn, [Next]_vars
  PROVE  CompletedBorn'
<1>1. CASE UNCHANGED cvars
  BY <1>1, BornStays DEF cvars, CompletedBorn, Born, TypeInv, CompletedHand
<1>2. CASE Completed
  <2>1. CASE cPC' \notin {"finish", "send", "expired", "unload"}
    BY <2>1 DEF CompletedBorn
  <2>2. CASE LookupFinished
    BY <2>2, OptionsTypes DEF LookupFinished, CompletedBorn, LoadedBorn, Born,
       TypeInv, TypeOK, CompletedHand, runners, life
  <2>3. CASE FinishRequest
    BY <2>1, <2>3 DEF FinishRequest, GoneIdle, NextCompleted, CompletedBorn, Born, life
  <2>4. CASE ReceiveExpired
    <3>1. Head(expiredCh) \in Sent(expiredCh)
      BY <2>4, SentTail DEF ReceiveExpired, TypeInv, TypeOK, ChannelsOK
    <3> QED BY <2>4, <3>1 DEF ReceiveExpired, CompletedBorn, EventsBorn, Born,
         runners, life
  <2>5. CASE ExpiredIdle
    BY <2>5 DEF ExpiredIdle, CompletedBorn, Born, life
  <2> QED BY <1>2, <2>1, <2>2, <2>3, <2>4, <2>5 DEF Completed, ReceiveFinished,
       ExpireFinished, ExpiredInUse, Unload, SendUnloaded, StopCompleted,
       NextCompleted
<1> QED BY <1>1, <1>2, PendingFrame, OtherFrame DEF Next, Other, vars

(* Expired events and stop requests are about runners that exist.          *)
LEMMA EventsBornStep ==
  ASSUME TypeInv, LoadedBorn, PendingBorn, CompletedBorn, UnbornIdle, EventsBorn,
  [Next]_vars
  PROVE  EventsBorn'
<1>0. ASSUME NEW r \in Runners, Born(r), Sent(expiredCh') = Sent(expiredCh) \union {r},
             UNCHANGED stopping \/ stopping' = NoRunner
      PROVE  EventsBorn'
  <2>1. \A s \in Sent(expiredCh) : s \in Runners /\ Born(s)
    BY DEF EventsBorn, Sent, TypeInv, TypeOK, ChannelsOK
  <2>2. \A s \in Sent(expiredCh') : llama'[s] # "none"
    BY <1>0, <2>1, BornStays DEF Born
  <2>3. stopping # NoRunner => llama'[stopping] # "none"
    BY BornStays DEF EventsBorn, Born, TypeInv, TypeOK, ControlOK
  <2> QED BY <1>0, <2>2, <2>3, Zenon DEF EventsBorn, Born
<1>1. CASE /\ UNCHANGED expiredCh \/ ReceiveExpired
           /\ UNCHANGED stopping \/ stopping' = NoRunner
  <2>1. Sent(expiredCh') \subseteq Sent(expiredCh)
    BY <1>1, SentTail DEF ReceiveExpired, TypeInv, TypeOK, ChannelsOK
  <2>2. \A s \in Sent(expiredCh) : s \in Runners /\ Born(s)
    BY DEF EventsBorn, Sent, TypeInv, TypeOK, ChannelsOK
  <2>3. \A s \in Sent(expiredCh') : llama'[s] # "none"
    BY <2>1, <2>2, BornStays DEF Born
  <2>4. stopping # NoRunner => llama'[stopping] # "none"
    BY BornStays DEF EventsBorn, Born, TypeInv, TypeOK, ControlOK
  <2> QED BY <1>1, <2>3, <2>4, Zenon DEF EventsBorn, Born
<1>2. CASE PendingQuiet /\ Pending
  BY <1>1, <1>2, PendingFrame DEF PendingQuiet, QuietRunners, ctl
<1>3. CASE UseLoadedRunner \/ Load \/ TriggerExpiration
  BY <1>1, <1>3 DEF UseLoadedRunner, Load, TriggerExpiration, ExpireNow, chans, ctl
<1>4. CASE SendExpiration
  BY <1>0, <1>4, SendExpiredSent DEF SendExpiration, PendingBorn, TypeInv, TypeOK,
     PendingHand, ctl
<1>5. CASE CompletedQuiet /\ Completed
  BY <1>1, <1>5, CompletedFrame DEF CompletedQuiet, QuietRunners, ctl
<1>6. CASE \/ FinishRequest \/ ReceiveExpired \/ ExpiredInUse
           \/ ExpiredIdle \/ Unload \/ SendUnloaded
  BY <1>1, <1>6 DEF FinishRequest, ReceiveExpired, ExpiredInUse, ExpiredIdle, Unload,
     SendUnloaded, chans, ctl
<1>7. CASE ExpireFinished
  BY <1>0, <1>7, SendExpiredSent DEF ExpireFinished, CompletedBorn, TypeInv, TypeOK,
     CompletedHand, ctl
<1>8. ASSUME NEW r \in Runners, RunnerStep(r) PROVE EventsBorn'
  <2>1. CASE LoadSucceeds(r) \/ LoadFails(r) \/ TimerFires(r) \/ TimerCallback(r)
    BY <1>1, <2>1 DEF LoadSucceeds, LoadFails, FailLoad, TimerFires, TimerCallback,
       chans, ctl
  <2>2. CASE ExpireFailedOrTimedOut(r)
    BY <1>0, <2>2, SendExpiredSent DEF ExpireFailedOrTimedOut, UnbornIdle, TypeInv,
       TypeOK, ctl
  <2>3. CASE RetryExpired(r)
    BY <1>0, <2>3, SentAppend DEF RetryExpired, UnbornIdle, TypeInv, TypeOK,
       ChannelsOK, ctl
  <2> QED BY <1>8, <2>1, <2>2, <2>3 DEF RunnerStep
<1>9. CASE ExpireRunnerNow
  BY <1>1, <1>9 DEF ExpireRunnerNow, ExpireNow, chans
<1>10. CASE SendStopped
  BY <1>0, <1>10, SendExpiredSent DEF SendStopped, EventsBorn, TypeInv, TypeOK, ControlOK
<1>11. ASSUME NEW m \in Models, ExpireRunner(m) PROVE EventsBorn'
  BY <1>11 DEF ExpireRunner, EventsBorn, LoadedBorn, Born, runners, life, chans
<1>12. CASE UnloadAllRunners \/ UNCHANGED vars
  BY <1>1, <1>12 DEF UnloadAllRunners, vars, chans, ctl
<1>13. CASE OtherQuiet /\ UNCHANGED stopping
  BY <1>1, <1>13 DEF OtherQuiet, QuietRunners
<1>14. Other => \/ \E r \in Runners : RunnerStep(r)
                \/ ExpireRunnerNow \/ SendStopped \/ UnloadAllRunners
                \/ (\E m \in Models : ExpireRunner(m)) \/ (OtherQuiet /\ UNCHANGED stopping)
  BY OtherSteps DEF Other, GetRunner, ContextDone, RequestStep, SendFinished, Requeue,
     Shutdown, Stopper, ctl
<1> QED BY <1>2, <1>3, <1>4, <1>5, <1>6, <1>7, <1>8, <1>9, <1>10, <1>11, <1>12, <1>13,
     <1>14, PendingSteps, CompletedSteps DEF Next, Other

(* Nothing happens to a runner that does not exist.                        *)
LEMMA UnbornIdleStep ==
  ASSUME TypeInv, BornInv, [Next]_vars
  PROVE  UnbornIdle'
<1> USE DEF UnbornIdle, Born, BornInv
<1>1. CASE UNCHANGED <<llama, refMu, timer, firing, retry>>
  BY <1>1
<1>2. CASE PendingQuiet \/ CompletedQuiet \/ OtherQuiet \/ UNCHANGED vars
  BY <1>1, <1>2 DEF PendingQuiet, CompletedQuiet, OtherQuiet, QuietRunners, vars,
     runners, life, keeps, events
<1>3. CASE UseLoadedRunner
  BY <1>3 DEF UseLoadedRunner, TypeInv, TypeOK, TimersOK, life, events
<1>4. CASE Load
  BY <1>4 DEF Load, TypeInv, TypeOK, LifeOK, RefsOK, events
<1>5. CASE TriggerExpiration
  BY <1>5 DEF TriggerExpiration, ExpireNow, PendingBorn, TypeInv, TypeOK, RefsOK,
     TimersOK, life, events
<1>6. CASE SendExpiration \/ ExpireFinished \/ SendStopped
  BY <1>6 DEF SendExpiration, ExpireFinished, SendStopped, SendExpired, TypeInv,
     TypeOK, RefsOK, life, keeps, events
<1>7. CASE FinishRequest
  BY <1>7 DEF FinishRequest, GoneIdle, CompletedBorn, TypeInv, TypeOK, RefsOK,
     TimersOK, life, events
<1>8. CASE ReceiveExpired \/ SendUnloaded
  BY <1>1, <1>8 DEF ReceiveExpired, SendUnloaded, runners, life, keeps, events
<1>9. CASE ExpiredInUse
  BY <1>9 DEF ExpiredInUse, CompletedBorn, TypeInv, TypeOK, TimersOK, life, keeps
<1>10. CASE ExpiredIdle
  BY <1>10 DEF ExpiredIdle, CompletedBorn, TypeInv, TypeOK, RefsOK, life, keeps, events
<1>11. CASE Unload
  BY <1>11 DEF Unload, TypeInv, TypeOK, LifeOK, RefsOK, TimersOK, events
<1>12. ASSUME NEW r \in Runners, RunnerStep(r) PROVE UnbornIdle'
  <2>1. CASE LoadSucceeds(r)
    BY <2>1 DEF LoadSucceeds, TypeInv, TypeOK, RefsOK, keeps, events
  <2>2. CASE LoadFails(r)
    BY <2>2 DEF LoadFails, FailLoad, TypeInv, TypeOK, RefsOK, life, keeps, events
  <2>3. CASE ExpireFailedOrTimedOut(r)
    BY <2>3 DEF ExpireFailedOrTimedOut, SendExpired, TypeInv, TypeOK, RefsOK, life,
       keeps, events
  <2>4. CASE RetryExpired(r)
    BY <2>4 DEF RetryExpired, TypeInv, TypeOK, TimersOK, life, keeps
  <2>5. CASE TimerFires(r)
    BY <2>5 DEF TimerFires, TypeInv, TypeOK, TimersOK, life
  <2>6. CASE TimerCallback(r)
    BY <2>6 DEF TimerCallback, TypeInv, TypeOK, RefsOK, TimersOK, life
  <2> QED BY <1>12, <2>1, <2>2, <2>3, <2>4, <2>5, <2>6 DEF RunnerStep
<1>13. CASE ExpireRunnerNow
  BY <1>13 DEF ExpireRunnerNow, ExpireNow, EventsBorn, TypeInv, TypeOK, RefsOK,
     TimersOK, life, events
<1>14. CASE UnloadAllRunners
  BY <1>14 DEF UnloadAllRunners, TypeInv, TypeOK, LifeOK, keeps, events
<1> QED BY <1>2, <1>3, <1>4, <1>5, <1>6, <1>7, <1>8, <1>9, <1>10, <1>11, <1>12,
     <1>13, <1>14, PendingSteps, CompletedSteps, OtherSteps DEF Next, Other

(* processPending holds the mutex of the runner it sends an expired event  *)
(* for; so does processCompleted, which also holds it from the check of    *)
(* refCount to the unload.                                                 *)
PendingLock == pPC = "send" => refMu[pRunner] = "pending"
CompletedLock ==
  /\ cPC \in {"send", "unload"} => refMu[cRunner] = "completed"
  /\ cPC = "unload" => refCount[cRunner] = 0

(* A mutex is released by its owner only, and refCount changes under it    *)
(* only.                                                                   *)
LEMMA LockStep ==
  ASSUME TypeInv, BornInv, PendingLock, CompletedLock, [Next]_vars
  PROVE  PendingLock' /\ CompletedLock'
<1> USE DEF Born, BornInv
<1>1. PendingLock'
  <2>0. CASE pPC' # "send"
    BY <2>0 DEF PendingLock
  <2>1. CASE TriggerExpiration
    BY <2>1 DEF TriggerExpiration, ExpireNow, PendingLock, TypeInv, TypeOK,
       PendingHand, RefsOK
  <2>2. CASE Pending
    BY <2>0, <2>1, <2>2, PendingSteps DEF PendingQuiet, UseLoadedRunner, Load,
       NextPending, SendExpiration
  <2>3. CASE UNCHANGED <<pvars, refMu>>
    BY <2>3 DEF PendingLock, pvars
  <2>4. CASE Completed
    <3>1. UNCHANGED pvars
      BY <2>4, CompletedFrame
    <3>2. ASSUME pPC = "send" PROVE refMu'[pRunner] = "pending"
      BY <2>4, <3>2 DEF Completed, ReceiveFinished, LookupFinished, FinishRequest,
         GoneIdle, Unlocked, ExpireFinished, SendExpired, ReceiveExpired,
         ExpiredInUse, ExpiredIdle, Unload, SendUnloaded, StopCompleted, runners,
         PendingLock, CompletedLock, TypeInv, TypeOK, RefsOK, PendingHand
    <3> QED BY <3>1, <3>2 DEF PendingLock, pvars
  <2>5. CASE Other
    <3>1. UNCHANGED pvars
      BY <2>5, OtherFrame
    <3>2. ASSUME NEW r \in Runners, RunnerStep(r), pPC = "send"
          PROVE  refMu'[pRunner] = "pending"
      BY <3>2 DEF RunnerStep, LoadSucceeds, LoadFails, FailLoad,
         ExpireFailedOrTimedOut, SendExpired, RetryExpired, TimerFires, TimerCallback,
         Unlocked, PendingLock, TypeInv, TypeOK, RefsOK, PendingHand
    <3>3. ASSUME ExpireRunnerNow, pPC = "send" PROVE refMu'[pRunner] = "pending"
      BY <3>3 DEF ExpireRunnerNow, ExpireNow, Unlocked, PendingLock, TypeInv, TypeOK,
         RefsOK, PendingHand
    <3>4. ASSUME SendStopped, pPC = "send" PROVE refMu'[pRunner] = "pending"
      BY <3>4 DEF SendStopped, SendExpired, PendingLock, TypeInv, TypeOK, RefsOK,
         PendingHand
    <3>5. CASE OtherQuiet \/ UnloadAllRunners
      BY <2>3, <3>5 DEF OtherQuiet, QuietRunners, runners, UnloadAllRunners
    <3> QED BY <2>5, <3>1, <3>2, <3>3, <3>4, <3>5, OtherSteps DEF PendingLock, pvars
  <2>6. CASE UNCHANGED vars
    BY <2>3, <2>6 DEF vars, runners
  <2> QED BY <2>2, <2>4, <2>5, <2>6 DEF Next, Other
<1>2. CompletedLock'
  <2>0. CASE cPC' \notin {"send", "unload"}
    BY <2>0 DEF CompletedLock
  <2>1. CASE FinishRequest
    BY <2>0, <2>1 DEF FinishRequest, GoneIdle, NextCompleted, CompletedLock, TypeInv,
       TypeOK, CompletedHand, RefsOK
  <2>2. CASE ExpiredIdle
    BY <2>2 DEF ExpiredIdle, Idle, CompletedLock, TypeInv, TypeOK, CompletedHand,
       RefsOK, refs
  <2>3. CASE Completed
    BY <2>0, <2>1, <2>2, <2>3 DEF Completed, ReceiveFinished, LookupFinished,
       ExpireFinished, ReceiveExpired, ExpiredInUse, Unload, SendUnloaded,
       StopCompleted, NextCompleted
  <2>4. CASE UNCHANGED <<cvars, refMu, refs>>
    BY <2>4 DEF CompletedLock, cvars, refs
  <2>5. CASE Pending
    <3>1. UNCHANGED cvars
      BY <2>5, PendingFrame
    <3>2. CASE PendingQuiet
      BY <2>4, <3>2 DEF PendingQuiet, QuietRunners, runners
    <3>3. ASSUME cPC \in {"send", "unload"},
                 Load \/ UseLoadedRunner \/ TriggerExpiration \/ SendExpiration
          PROVE  refMu'[cRunner] = "completed" /\ refCount'[cRunner] = refCount[cRunner]
      <4>1. cRunner \in Runners /\ refMu[cRunner] = "completed" /\ llama[cRunner] # "none"
        BY <3>3 DEF CompletedLock, CompletedBorn, TypeInv, CompletedHand
      <4>2. CASE Load
        BY <4>1, <4>2 DEF Load, TypeInv, TypeOK, RefsOK
      <4>3. CASE UseLoadedRunner
        BY <4>1, <4>3 DEF UseLoadedRunner, Unlocked, TypeInv, TypeOK, RefsOK
      <4>4. CASE TriggerExpiration
        BY <4>1, <4>4 DEF TriggerExpiration, ExpireNow, Unlocked, refs, TypeInv,
           TypeOK, RefsOK
      <4>5. CASE SendExpiration
        BY <4>1, <4>5 DEF SendExpiration, SendExpired, PendingLock, refs, TypeInv,
           TypeOK, RefsOK
      <4> QED BY <3>3, <4>2, <4>3, <4>4, <4>5
    <3> QED BY <2>5, <3>1, <3>2, <3>3, PendingSteps DEF CompletedLock, cvars
  <2>6. CASE Other
    <3>1. UNCHANGED cvars
      BY <2>6, OtherFrame
    <3>2. CASE OtherQuiet \/ UnloadAllRunners
      BY <2>4, <3>1, <3>2 DEF OtherQuiet, QuietRunners, runners, UnloadAllRunners
    <3>3. ASSUME cPC \in {"send", "unload"}, ExpireRunnerNow \/ SendStopped
          PROVE  refMu'[cRunner] = "completed" /\ refCount'[cRunner] = refCount[cRunner]
      BY <3>3 DEF ExpireRunnerNow, ExpireNow, SendStopped, SendExpired, Unlocked,
         CompletedLock, refs, TypeInv, TypeOK, RefsOK, CompletedHand
    <3>4. ASSUME cPC \in {"send", "unload"}, NEW r \in Runners, RunnerStep(r)
          PROVE  refMu'[cRunner] = "completed" /\ refCount'[cRunner] = refCount[cRunner]
      BY <3>4 DEF RunnerStep, LoadSucceeds, LoadFails, FailLoad,
         ExpireFailedOrTimedOut, SendExpired, RetryExpired, TimerFires, TimerCallback,
         Unlocked, CompletedLock, refs, TypeInv, TypeOK, RefsOK, CompletedHand
    <3> QED BY <2>6, <3>1, <3>2, <3>3, <3>4, OtherSteps DEF CompletedLock, cvars
  <2>7. CASE UNCHANGED vars
    BY <2>4, <2>7 DEF vars, runners
  <2> QED BY <2>3, <2>5, <2>6, <2>7 DEF Next, Other
<1> QED BY <1>1, <1>2

(* The inductive invariant for unloading.                                  *)
LockInv == TypeInv /\ BornInv /\ PendingLock /\ CompletedLock

(* The inductive invariant for unloading holds in every state.             *)
THEOREM LockInvariant == Spec => []LockInv
<1>1. Init => LockInv
  <2>1. Init => BornInv
    BY DEF Init, BornInv, LoadedBorn, PendingBorn, CompletedBorn, EventsBorn,
       UnbornIdle, Born, Sent
  <2>2. Init => PendingLock /\ CompletedLock
    BY DEF Init, PendingLock, CompletedLock
  <2> QED BY <2>1, <2>2, InitTypes DEF LockInv
<1>2. LockInv /\ [Next]_vars => LockInv'
  BY NextTypes, LoadedBornStep, PendingBornStep, CompletedBornStep, EventsBornStep,
     UnbornIdleStep, LockStep DEF LockInv, BornInv
<1> QED BY <1>1, <1>2, PTL DEF Spec

(* In every step, a live runner is unloaded only with refCount zero: the   *)
(* check in processCompleted is not stale when it gets loadedMu.           *)
THEOREM OnlyIdleUnloaded == Spec => UnloadsOnlyIdle
<1>1. LockInv /\ [Next]_vars =>
        [\A r \in Runners : llama[r] = "open" /\ llama'[r] = "nil" => refCount[r] = 0]_vars
  <2> SUFFICES ASSUME LockInv, [Next]_vars, NEW r \in Runners,
                      llama[r] = "open", llama'[r] = "nil"
               PROVE  refCount[r] = 0
    OBVIOUS
  <2>1. CASE Load
    BY <2>1 DEF Load, LockInv, TypeInv, TypeOK, LifeOK
  <2>2. CASE Unload
    BY <2>2 DEF Unload, LockInv, TypeInv, TypeOK, LifeOK, CompletedLock
  <2>3. CASE UnloadAllRunners
    BY <2>3 DEF UnloadAllRunners
  <2> QED BY <2>1, <2>2, <2>3, LlamaSteps
<1> QED BY <1>1, LockInvariant, PTL DEF Spec, UnloadsOnlyIdle

-----------------------------------------------------------------------------

(* Requests that wait or are being placed have been made.                  *)
Made ==
  /\ pReq <= submitted
  /\ \A q \in Sent(pendingReqCh) : q <= submitted
  /\ \A q \in Requests : task[q] = "requeue" => q <= submitted
(* While processPending places a request, its model has no runner.         *)
Placing == pPC \in {"filter", "sum", "summing", "load", "findCpu"}
SlotFree == Placing => loaded[PModel] = NoRunner

(* Only a new request chooses options ...                                  *)
LEMMA ChoicesFrame == [Next]_vars => GetRunner \/ UNCHANGED <<submitted, opts>>
<1> USE DEF reqs
<1>1. Pending => UNCHANGED <<submitted, opts>>
  BY DEF Pending, ReceivePending, IgnoreUnload, FoundLoaded, MaxRunnersAchieved,
     LoadModelFails, PlaceOnCpu, PlaceFirst, PlaceOn, PlaceAmongOthers, FilterGpus,
     UpdateFreeSpace, SumRunner, PickFit, DelayRequest, MakeRoom, NoFit, NeedsReload,
     UseLoadedRunner, Serve, FindRunnerToUnload, ScanRunner, NewServerFails, Load,
     TriggerExpiration, SendExpiration, UnloadCompleted, StopPending
<1>2. Completed => UNCHANGED <<submitted, opts>>
  BY DEF Completed, ReceiveFinished, LookupFinished, FinishRequest, ExpireFinished,
     ReceiveExpired, ExpiredInUse, ExpiredIdle, Unload, SendUnloaded, StopCompleted
<1>3. Other => GetRunner \/ UNCHANGED <<submitted, opts>>
  BY DEF Other, ContextDone, Stopper, ExpireRunnerNow, SendStopped, RequestStep,
     SendFinished, Requeue, RunnerStep, LoadSucceeds, Serve, LoadFails, FailLoad,
     ExpireFailedOrTimedOut, RetryExpired, TimerFires, TimerCallback, ExpireRunner,
     Shutdown, UnloadAllRunners
<1> QED BY <1>1, <1>2, <1>3 DEF Next, Other, vars

(* ... only these steps change the queue ...                               *)
LEMMA QueueFrame ==
  [Next]_vars => \/ GetRunner \/ ReceivePending \/ (\E q \in Requests : Requeue(q))
                 \/ UNCHANGED pendingReqCh
<1> USE DEF chans
<1>1. Pending => ReceivePending \/ UNCHANGED pendingReqCh
  BY DEF Pending, IgnoreUnload, FoundLoaded, MaxRunnersAchieved, LoadModelFails,
     PlaceOnCpu, PlaceFirst, PlaceOn, PlaceAmongOthers, FilterGpus, UpdateFreeSpace,
     SumRunner, PickFit, DelayRequest, MakeRoom, NoFit, NeedsReload, UseLoadedRunner,
     FindRunnerToUnload, ScanRunner, NewServerFails, Load, TriggerExpiration,
     ExpireNow, SendExpiration, SendExpired, UnloadCompleted, StopPending
<1>2. Completed => UNCHANGED pendingReqCh
  BY DEF Completed, ReceiveFinished, LookupFinished, FinishRequest, ExpireFinished,
     SendExpired, ReceiveExpired, ExpiredInUse, ExpiredIdle, Unload, SendUnloaded,
     StopCompleted
<1>3. Other => GetRunner \/ (\E q \in Requests : Requeue(q)) \/ UNCHANGED pendingReqCh
  BY DEF Other, ContextDone, Stopper, ExpireRunnerNow, ExpireNow, SendStopped,
     SendExpired, RequestStep, SendFinished, RunnerStep, LoadSucceeds, LoadFails,
     FailLoad, ExpireFailedOrTimedOut, RetryExpired, TimerFires, TimerCallback,
     ExpireRunner, Shutdown, UnloadAllRunners
<1> QED BY <1>1, <1>2, <1>3 DEF Next, Other, vars

(* ... only a delayed request is going to be re-queued ...                 *)
LEMMA TaskFrame ==
  ASSUME TypeInv, [Next]_vars, NEW q \in Requests, task'[q] = "requeue"
  PROVE  task[q] = "requeue" \/ (q = pReq /\ DelayRequest)
<1> USE DEF reqs, TypeInv, TypeOK, RequestsOK
<1>1. Pending => task[q] = "requeue" \/ (q = pReq /\ DelayRequest)
  BY DEF Pending, ReceivePending, IgnoreUnload, FoundLoaded, MaxRunnersAchieved,
     LoadModelFails, PlaceOnCpu, PlaceFirst, PlaceOn, PlaceAmongOthers, FilterGpus,
     UpdateFreeSpace, SumRunner, PickFit, DelayRequest, MakeRoom, NeedsReload,
     UseLoadedRunner, Serve, FindRunnerToUnload, ScanRunner, NewServerFails, Load,
     TriggerExpiration, SendExpiration, UnloadCompleted, StopPending
<1>2. Completed => task[q] = "requeue"
  BY DEF Completed, ReceiveFinished, LookupFinished, FinishRequest, ExpireFinished,
     ReceiveExpired, ExpiredInUse, ExpiredIdle, Unload, SendUnloaded, StopCompleted
<1>3. Other => task[q] = "requeue"
  BY DEF Other, GetRunner, ContextDone, Stopper, ExpireRunnerNow, SendStopped,
     RequestStep, SendFinished, Requeue, RunnerStep, LoadSucceeds, Serve, LoadFails,
     FailLoad, ExpireFailedOrTimedOut, RetryExpired, TimerFires, TimerCallback,
     ExpireRunner, Shutdown, UnloadAllRunners
<1> QED BY <1>1, <1>2, <1>3 DEF Next, Other, vars

(* ... and only a receive gives processPending another request.            *)
LEMMA RequestInHandFrame ==
  [Next]_vars => ReceivePending \/ pReq' = NoRequest \/ pReq' = pReq
<1> USE DEF pvars
<1>1. Pending => ReceivePending \/ pReq' = NoRequest \/ pReq' = pReq
  BY DEF Pending, IgnoreUnload, FoundLoaded, MaxRunnersAchieved, LoadModelFails,
     PlaceOnCpu, PlaceFirst, PlaceOn, PlaceAmongOthers, FilterGpus, UpdateFreeSpace,
     SumRunner, PickFit, DelayRequest, MakeRoom, NeedsReload, UseLoadedRunner,
     FindRunnerToUnload, ScanRunner, NewServerFails, Load, NextPending,
     TriggerExpiration, SendExpiration, UnloadCompleted, StopPending
<1> QED BY <1>1, CompletedFrame, OtherFrame DEF Next, Other, vars

(* Requests that wait or are being placed have been made.                  *)
LEMMA MadeStep ==
  ASSUME TypeInv, Made, [Next]_vars
  PROVE  Made'
<1>1. submitted \in Nat /\ submitted' \in Nat /\ submitted <= submitted'
  BY ChoicesFrame, SchedulerAssumption DEF GetRunner, TypeInv, TypeOK, RequestsOK
<1>2. \A q \in Sent(pendingReqCh) : q \in Requests
  BY DEF Sent, TypeInv, TypeOK, ChannelsOK
<1>3. ASSUME NEW q \in Sent(pendingReqCh') PROVE q <= submitted'
  <2>1. CASE GetRunner
    <3>1. q \in Sent(pendingReqCh) \/ q = submitted + 1
      <4>1. \/ pendingReqCh' = Append(pendingReqCh, submitted + 1)
            \/ pendingReqCh' = pendingReqCh
        BY <2>1 DEF GetRunner
      <4>2. submitted + 1 \in Requests
        BY <2>1, SchedulerAssumption DEF GetRunner, TypeInv, TypeOK, RequestsOK, Requests
      <4>3. Sent(Append(pendingReqCh, submitted + 1))
              = Sent(pendingReqCh) \union {submitted + 1}
        <5>1. pendingReqCh \in Seq(Requests)
          BY DEF TypeInv, TypeOK, ChannelsOK
        <5> QED BY <4>2, <5>1, SentAppend
      <4>4. Sent(pendingReqCh') \subseteq Sent(pendingReqCh) \union {submitted + 1}
        BY <4>1, <4>3
      <4> QED BY <1>3, <4>4
    <3>2. submitted' = submitted + 1
      BY <2>1 DEF GetRunner
    <3> QED BY <1>1, <1>2, <3>1, <3>2 DEF Made, Requests
  <2>2. CASE ReceivePending
    BY <1>1, <1>2, <1>3, <2>2, SentTail DEF ReceivePending, Made, TypeInv, TypeOK,
       ChannelsOK, Requests
  <2>3. ASSUME NEW s \in Requests, Requeue(s) PROVE q <= submitted'
    <3>1. Sent(pendingReqCh') = Sent(pendingReqCh) \union {s} /\ s <= submitted
      BY <2>3, SentAppend DEF Requeue, Made, TypeInv, TypeOK, ChannelsOK
    <3> QED BY <1>1, <1>2, <1>3, <3>1 DEF Made, Requests
  <2>4. CASE UNCHANGED pendingReqCh
    BY <1>1, <1>2, <1>3, <2>4 DEF Made, Requests
  <2> QED BY <2>1, <2>2, <2>3, <2>4, QueueFrame
<1>4. pReq' <= submitted'
  <2>1. CASE ReceivePending
    <3>1. Head(pendingReqCh) \in Sent(pendingReqCh)
      BY <2>1, SentTail DEF ReceivePending, TypeInv, TypeOK, ChannelsOK
    <3> QED BY <1>1, <1>2, <2>1, <3>1 DEF ReceivePending, Made, Requests, TypeInv,
         TypeOK, PendingOK, NoRequest
  <2> QED BY <1>1, <2>1, RequestInHandFrame DEF Made, NoRequest, Requests, TypeInv,
       TypeOK, PendingOK
<1>5. ASSUME NEW q \in Requests, task'[q] = "requeue" PROVE q <= submitted'
  BY <1>1, <1>5, TaskFrame DEF Made, Requests
<1> QED BY <1>3, <1>4, <1>5 DEF Made

(* No other step fills the slot of the model being placed.                 *)
LEMMA SlotFreeStep ==
  ASSUME TypeInv, Made, SlotFree, [Next]_vars
  PROVE  SlotFree'
<1>1. CASE pPC' \notin {"filter", "sum", "summing", "load", "findCpu"}
  BY <1>1 DEF SlotFree, Placing
<1>2. CASE Placing /\ pReq \in Requests /\ pReq' = pReq /\ ~Load
  <2>1. PModel' = PModel
    <3>1. CASE GetRunner
      <4>1. PICK o : opts' = [opts EXCEPT ![submitted + 1] = o]
        BY <3>1 DEF GetRunner
      <4>2. pReq # submitted + 1
        BY <1>2 DEF Made, Requests, TypeInv, TypeOK, RequestsOK
      <4>3. opts'[pReq] = opts[pReq]
        BY <1>2, <4>1, <4>2 DEF TypeInv, TypeOK, RequestsOK
      <4> QED BY <1>2, <4>3 DEF PModel
    <3> QED BY <1>2, <3>1, ChoicesFrame DEF PModel
  <2>2. PModel \in Models
    BY <1>2, OptionsTypes DEF PModel, TypeInv, TypeOK
  <2>3. loaded'[PModel] = NoRunner
    BY <1>2, <2>2, LoadedSteps DEF SlotFree, Unload, TypeInv, TypeOK, LoadedOK
  <2> QED BY <2>1, <2>3 DEF SlotFree
<1>3. CASE Pending
  <2>1. CASE Room /\ UNCHANGED <<loaded, opts, pReq>>
    BY <2>1 DEF Room, SlotFree, PModel
  <2>2. CASE PlaceOnCpu \/ PlaceFirst \/ PlaceAmongOthers
    BY <2>1, <2>2 DEF PlaceOnCpu, PlaceFirst, PlaceAmongOthers, PlaceOn, reqs
  <2>3. CASE PickFit \/ FilterGpus \/ UpdateFreeSpace \/ \E r \in Runners : SumRunner(r)
    BY <1>2, <2>3 DEF PickFit, PlaceOn, Summed, FilterGpus, UpdateFreeSpace,
       SumRunner, Placing, TypeInv, PendingHand, Load
  <2>4. CASE FindRunnerToUnload
    BY <1>1, <1>2, <2>4 DEF FindRunnerToUnload, Placing, TypeInv, PendingHand, Load
  <2>5. CASE pPC' \in {"select", "lookup", "check", "use", "find", "scan",
                        "expire", "send", "wait", "exit"}
    BY <1>1, <2>5
  <2>6. \/ PlaceOnCpu \/ PlaceFirst \/ PlaceAmongOthers \/ PickFit
        \/ FilterGpus \/ UpdateFreeSpace
        \/ (\E r \in Runners : SumRunner(r)) \/ FindRunnerToUnload
        \/ pPC' \in {"select", "lookup", "check", "use", "find", "scan",
                      "expire", "send", "wait", "exit"}
    BY <1>3 DEF Pending, ReceivePending, IgnoreUnload, FoundLoaded,
       MaxRunnersAchieved, LoadModelFails, DelayRequest, MakeRoom, NeedsReload,
       UseLoadedRunner, ScanRunner, NewServerFails, Load, NextPending,
       TriggerExpiration, SendExpiration, UnloadCompleted, StopPending, pvars
  <2> QED BY <2>2, <2>3, <2>4, <2>5, <2>6
<1>4. CASE UNCHANGED pvars
  <2>1. CASE Placing
    BY <1>2, <1>3, <1>4, <2>1 DEF Placing, TypeInv, PendingHand, pvars, Pending
  <2> QED BY <1>1, <1>4, <2>1 DEF Placing, pvars
<1> QED BY <1>3, <1>4, CompletedFrame, OtherFrame DEF Next, Other, vars

(* The inductive invariant for the map.                                    *)
SlotInv == TypeInv /\ Made /\ SlotFree

(* The inductive invariant for the map holds in every state.               *)
THEOREM SlotInvariant == Spec => []SlotInv
<1>1. Init => SlotInv
  <2>1. Init => Made /\ SlotFree
    BY DEF Init, Made, SlotFree, Placing, Sent, NoRequest
  <2> QED BY <2>1, InitTypes DEF SlotInv
<1>2. SlotInv /\ [Next]_vars => SlotInv'
  BY NextTypes, MadeStep, SlotFreeStep DEF SlotInv
<1> QED BY <1>1, <1>2, PTL DEF Spec

(* In every step, load finds no other runner under the path of its model,  *)
(* although it looked there long before: no entry is overwritten.          *)
THEOREM EntriesKept == Spec => NoEntryOverwritten
<1>1. SlotInv /\ [Next]_vars =>
        [\A m \in Models : loaded[m] # NoRunner /\ loaded'[m] # NoRunner
            => loaded'[m] = loaded[m]]_vars
  <2> SUFFICES ASSUME SlotInv, [Next]_vars, NEW m \in Models,
                      loaded[m] # NoRunner, loaded'[m] # NoRunner
               PROVE  loaded'[m] = loaded[m]
    OBVIOUS
  <2>1. CASE Load
    <3>1. PICK r \in Runners : loaded' = [loaded EXCEPT ![PModel] = r]
      BY <2>1 DEF Load
    <3>2. loaded[PModel] = NoRunner
      BY <2>1 DEF Load, SlotInv, SlotFree, Placing
    <3> QED BY <3>1, <3>2 DEF SlotInv, TypeInv, TypeOK, LoadedOK
  <2>2. CASE Unload
    BY <2>2 DEF Unload, SlotInv, TypeInv, TypeOK, LoadedOK
  <2> QED BY <2>1, <2>2, LoadedSteps
<1> QED BY <1>1, SlotInvariant, PTL DEF Spec, NoEntryOverwritten

-----------------------------------------------------------------------------
(* No request is lost or held twice.                                       *)

(* The request a runner is being loaded for.                               *)
Loads(r, q) == refMu[r] = "loader" /\ info[r].req = q

(* A request that is with a part of the scheduler.                         *)
Held(q) ==
  \/ q \in Sent(pendingReqCh) \/ pReq = q \/ task[q] = "requeue"
  \/ \E r \in Runners : Loads(r, q)

(* It is with one part only, and in the queue only once ...                *)
QueuedOnce ==
  \A i, j \in DOMAIN pendingReqCh : pendingReqCh[i] = pendingReqCh[j] => i = j
LoadedForOnce ==
  \A r, s \in Runners :
    refMu[r] = "loader" /\ refMu[s] = "loader" /\ info[r].req = info[s].req => r = s
OnePlace ==
  \A q \in Requests :
    /\ q \in Sent(pendingReqCh) => pReq # q /\ task[q] # "requeue"
    /\ pReq = q => task[q] # "requeue"
    /\ \A r \in Runners :
         Loads(r, q) => q \notin Sent(pendingReqCh) /\ pReq # q /\ task[q] # "requeue"

(* ... it was made and has no answer; and one without an answer is held.   *)
HeldWaits == \A q \in Requests : Held(q) => answer[q] = "none" /\ q <= submitted
WaitsHeld ==
  \A q \in Requests :
    q <= submitted /\ answer[q] = "none" /\ ~done[q] /\ phase = "run" => Held(q)
(* A request that was not made yet has no answer, and a loader loads for   *)
(* a request.                                                              *)
Fresh == \A q \in Requests : q > submitted => answer[q] = "none"
LoaderHas == \A r \in Runners : refMu[r] = "loader" => info[r].req \in Requests
(* Between two requests processPending has none in hand.                   *)
EmptyHand == pPC \in {"select", "exit"} => pReq = NoRequest

(* The part of the inductive invariant that says where requests are.       *)
HeldInv ==
  /\ QueuedOnce /\ LoadedForOnce /\ OnePlace
  /\ HeldWaits /\ WaitsHeld /\ Fresh /\ LoaderHas

(* Steps that move no request.                                             *)
Still ==
  /\ UNCHANGED <<pendingReqCh, pReq, answer, submitted>>
  /\ \A q \in Requests : (task'[q] = "requeue" <=> task[q] = "requeue") /\ (done[q] => done'[q])
  /\ \A r \in Runners : (refMu'[r] = "loader" <=> refMu[r] = "loader") /\ info'[r] = info[r]
  /\ phase' = "run" => phase = "run"

(* processPending moves a request in these steps ...                       *)
LEMMA PendingMoves ==
  ASSUME LockInv, Pending
  PROVE  \/ ReceivePending \/ LoadModelFails \/ DelayRequest \/ UseLoadedRunner
         \/ NewServerFails \/ Load \/ StopPending \/ Still
<1> USE DEF Still, chans, runners, life, reqs, replies, pvars, ctl
<1>0. CASE UNCHANGED <<pendingReqCh, reqs, runners, pReq, ctl>>
  BY <1>0
<1>1. CASE IgnoreUnload \/ FoundLoaded \/ MaxRunnersAchieved
  BY <1>1 DEF IgnoreUnload, FoundLoaded, MaxRunnersAchieved
<1>2. CASE PlaceOnCpu \/ PlaceFirst \/ PlaceAmongOthers \/ PickFit
  BY <1>2 DEF PlaceOnCpu, PlaceFirst, PlaceAmongOthers, PickFit, PlaceOn
<1>3. CASE FilterGpus \/ UpdateFreeSpace \/ \E r \in Runners : SumRunner(r)
  BY <1>3 DEF FilterGpus, UpdateFreeSpace, SumRunner
<1>4. CASE MakeRoom \/ NeedsReload \/ FindRunnerToUnload \/ ScanRunner \/ UnloadCompleted
  BY <1>4 DEF MakeRoom, NoFit, NeedsReload, FindRunnerToUnload, ScanRunner, UnloadCompleted
<1>5. CASE TriggerExpiration
  BY <1>5 DEF TriggerExpiration, ExpireNow, Unlocked, LockInv, TypeInv, TypeOK, RefsOK
<1>6. CASE SendExpiration
  BY <1>6 DEF SendExpiration, SendExpired, LockInv, PendingLock, TypeInv, TypeOK, RefsOK
<1> QED BY <1>1, <1>2, <1>3, <1>4, <1>5, <1>6 DEF Pending

(* ... processCompleted never does ...                                     *)
LEMMA CompletedMoves ==
  ASSUME LockInv, Completed
  PROVE  Still
<1> USE DEF Still, chans, runners, life, reqs, replies, pvars, ctl
<1>1. CASE ReceiveFinished \/ LookupFinished \/ ReceiveExpired \/ SendUnloaded \/ StopCompleted
  BY <1>1 DEF ReceiveFinished, LookupFinished, ReceiveExpired, SendUnloaded, StopCompleted
<1>2. CASE FinishRequest
  BY <1>2 DEF FinishRequest, GoneIdle, Unlocked, LockInv, TypeInv, TypeOK, RefsOK
<1>3. CASE ExpireFinished
  BY <1>3 DEF ExpireFinished, SendExpired, LockInv, CompletedLock, TypeInv, TypeOK, RefsOK
<1>4. CASE ExpiredInUse \/ ExpiredIdle
  BY <1>4 DEF ExpiredInUse, ExpiredIdle, Unlocked, LockInv, TypeInv, TypeOK, RefsOK
<1>5. CASE Unload
  BY <1>5 DEF Unload, LockInv, CompletedLock, TypeInv, TypeOK, RefsOK
<1> QED BY <1>1, <1>2, <1>3, <1>4, <1>5 DEF Completed

(* ... and of the others, these do.                                        *)
LEMMA OtherMoves ==
  ASSUME LockInv, Other
  PROVE  \/ GetRunner \/ (\E q \in Requests : Requeue(q))
         \/ (\E r \in Runners : LoadSucceeds(r) \/ LoadFails(r)) \/ Still
<1> USE DEF Still, chans, runners, life, reqs, replies, pvars, ctl
<1>1. ASSUME NEW q \in Requests, ContextDone(q) PROVE Still
  BY <1>1 DEF ContextDone, LockInv, TypeInv, TypeOK, RequestsOK
<1>2. ASSUME NEW q \in Requests, SendFinished(q) PROVE Still
  BY <1>2 DEF SendFinished, LockInv, TypeInv, TypeOK, RequestsOK
<1>3. ASSUME NEW r \in Runners, ExpireFailedOrTimedOut(r) PROVE Still
  BY <1>3 DEF ExpireFailedOrTimedOut, SendExpired, LockInv, TypeInv, TypeOK, RefsOK
<1>4. ASSUME NEW r \in Runners, RetryExpired(r) \/ TimerFires(r) PROVE Still
  BY <1>4 DEF RetryExpired, TimerFires
<1>5. ASSUME NEW r \in Runners, TimerCallback(r) PROVE Still
  BY <1>5 DEF TimerCallback, Unlocked, LockInv, TypeInv, TypeOK, RefsOK
<1>6. CASE ExpireRunnerNow
  BY <1>6 DEF ExpireRunnerNow, ExpireNow, Unlocked, LockInv, TypeInv, TypeOK, RefsOK
<1>7. CASE SendStopped
  BY <1>7 DEF SendStopped, SendExpired, LockInv, TypeInv, TypeOK, RefsOK
<1>8. CASE Shutdown \/ UnloadAllRunners \/ \E m \in Models : ExpireRunner(m)
  BY <1>8 DEF Shutdown, UnloadAllRunners, ExpireRunner
<1> QED BY <1>1, <1>2, <1>3, <1>4, <1>5, <1>6, <1>7, <1>8 DEF Other, Stopper, RequestStep, RunnerStep

-----------------------------------------------------------------------------
(* A request that is sent to a queue it is not in is there once ...        *)
LEMMA OnceAppended ==
  ASSUME NEW S, NEW ch \in Seq(S), NEW e \in S, e \notin Sent(ch),
         \A i, j \in DOMAIN ch : ch[i] = ch[j] => i = j
  PROVE  \A i, j \in DOMAIN Append(ch, e) : Append(ch, e)[i] = Append(ch, e)[j] => i = j
BY DEF Sent

(* ... and one that is received is no longer in the queue.                 *)
LEMMA OnceReceived ==
  ASSUME NEW S, NEW ch \in Seq(S), ch # <<>>,
         \A i, j \in DOMAIN ch : ch[i] = ch[j] => i = j
  PROVE  /\ \A i, j \in DOMAIN Tail(ch) : Tail(ch)[i] = Tail(ch)[j] => i = j
         /\ Head(ch) \notin Sent(Tail(ch))
<1>1. \A i \in DOMAIN Tail(ch) : i + 1 \in DOMAIN ch /\ Tail(ch)[i] = ch[i + 1] /\ i \in Nat \ {0}
  OBVIOUS
<1>2. Head(ch) = ch[1] /\ 1 \in DOMAIN ch
  OBVIOUS
<1>3. \A i, j \in DOMAIN Tail(ch) : Tail(ch)[i] = Tail(ch)[j] => i = j
  BY <1>1
<1>4. Head(ch) \notin Sent(Tail(ch))
  <2> SUFFICES ASSUME NEW i \in DOMAIN Tail(ch), Tail(ch)[i] = Head(ch) PROVE FALSE
    BY DEF Sent
  <2> QED BY <1>1, <1>2
<1> QED BY <1>3, <1>4

(* Steps that move no request keep every one in its place.                 *)
LEMMA StillHeld ==
  ASSUME HeldInv, Still
  PROVE  HeldInv'
<1>1. QueuedOnce' /\ LoadedForOnce' /\ LoaderHas' /\ Fresh'
  BY DEF HeldInv, Still, QueuedOnce, LoadedForOnce, LoaderHas, Fresh
<1>2. OnePlace'
  BY DEF HeldInv, Still, OnePlace, Loads
<1>3. HeldWaits'
  BY DEF HeldInv, Still, HeldWaits, Held, Loads
<1>4. WaitsHeld'
  BY DEF HeldInv, Still, WaitsHeld, Held, Loads
<1> QED BY <1>1, <1>2, <1>3, <1>4 DEF HeldInv

(* A request that processPending answers was with it only.                 *)
LEMMA PendingAnswers ==
  ASSUME TypeInv, HeldInv, LoadModelFails \/ NewServerFails \/ UseLoadedRunner
  PROVE  HeldInv'
<1>1. pReq \in Requests /\ pReq' = NoRequest /\ NoRequest \notin Requests
  BY Numbers DEF TypeInv, PendingHand, LoadModelFails, NewServerFails, UseLoadedRunner,
     NextPending, Room, LookUp
<1>2. UNCHANGED <<pendingReqCh, submitted, done, phase, refMu, info>>
  BY DEF LoadModelFails, NewServerFails, UseLoadedRunner, Serve, chans, runners, life, ctl
<1>3. /\ answer'[pReq] # "none"
      /\ \A q \in Requests : q # pReq => answer'[q] = answer[q] /\ task'[q] = task[q]
  BY <1>1 DEF LoadModelFails, NewServerFails, UseLoadedRunner, Serve, TypeInv, TypeOK, RequestsOK
<1>4. task'[pReq] # "requeue" /\ pReq \notin Sent(pendingReqCh) /\ \A r \in Runners : ~Loads(r, pReq)
  <2>1. task[pReq] # "requeue" /\ pReq \notin Sent(pendingReqCh) /\ \A r \in Runners : ~Loads(r, pReq)
    BY <1>1 DEF HeldInv, OnePlace
  <2> QED BY <1>1, <2>1 DEF LoadModelFails, NewServerFails, UseLoadedRunner, Serve,
       TypeInv, TypeOK, RequestsOK
<1>5. pReq <= submitted
  BY <1>1 DEF HeldInv, HeldWaits, Held
<1>6. QueuedOnce' /\ LoadedForOnce' /\ LoaderHas' /\ Fresh'
  BY <1>1, <1>2, <1>3, <1>5 DEF HeldInv, QueuedOnce, LoadedForOnce, LoaderHas, Fresh,
     TypeInv, TypeOK, RequestsOK, Requests
<1>7. OnePlace'
  BY <1>1, <1>2, <1>3, <1>4 DEF HeldInv, OnePlace, Loads
<1>8. HeldWaits'
  BY <1>1, <1>2, <1>3, <1>4 DEF HeldInv, HeldWaits, Held, Loads
<1>9. WaitsHeld'
  BY <1>1, <1>2, <1>3 DEF HeldInv, WaitsHeld, Held, Loads
<1> QED BY <1>6, <1>7, <1>8, <1>9 DEF HeldInv

(* A request that its loader answers was with it only.                     *)
LEMMA LoaderAnswers ==
  ASSUME TypeInv, HeldInv, NEW r \in Runners, LoadSucceeds(r) \/ LoadFails(r)
  PROVE  HeldInv'
<1> DEFINE p == info[r].req
<1>1. p \in Requests /\ Loads(r, p)
  BY DEF LoadSucceeds, LoadFails, FailLoad, HeldInv, LoaderHas, Loads
<1>2. UNCHANGED <<pendingReqCh, pReq, submitted, done, phase, info>>
  BY DEF LoadSucceeds, LoadFails, FailLoad, Serve, chans, pvars, life, ctl
<1>3. /\ answer'[p] # "none"
      /\ \A q \in Requests : q # p => answer'[q] = answer[q] /\ task'[q] = task[q]
      /\ task'[p] = "requeue" => task[p] = "requeue"
  BY <1>1 DEF LoadSucceeds, LoadFails, FailLoad, Serve, TypeInv, TypeOK, RequestsOK
<1>4. refMu'[r] # "loader" /\ \A s \in Runners : s # r => refMu'[s] = refMu[s]
  BY DEF LoadSucceeds, LoadFails, FailLoad, TypeInv, TypeOK, RefsOK
<1>5. /\ task[p] # "requeue" /\ p \notin Sent(pendingReqCh) /\ pReq # p
      /\ \A s \in Runners : s # r => ~Loads(s, p)
  BY <1>1 DEF HeldInv, OnePlace, LoadedForOnce, Loads
<1>6. p <= submitted
  BY <1>1 DEF HeldInv, HeldWaits, Held
<1> HIDE DEF p
<1>7. QueuedOnce' /\ LoaderHas' /\ LoadedForOnce'
  BY <1>2, <1>4 DEF HeldInv, QueuedOnce, LoaderHas, LoadedForOnce
<1>8. Fresh'
  BY <1>1, <1>2, <1>3, <1>6 DEF HeldInv, Fresh, TypeInv, TypeOK, RequestsOK, Requests
<1>9. OnePlace'
  BY <1>1, <1>2, <1>3, <1>4, <1>5 DEF HeldInv, OnePlace, Loads
<1>10. HeldWaits'
  BY <1>1, <1>2, <1>3, <1>4, <1>5 DEF HeldInv, HeldWaits, Held, Loads
<1>11. WaitsHeld'
  <2> SUFFICES ASSUME NEW q \in Requests, q <= submitted, answer'[q] = "none", ~done[q], phase = "run"
               PROVE  Held(q)'
    BY <1>2 DEF WaitsHeld
  <2>1. q # p /\ Held(q)
    BY <1>1, <1>3 DEF HeldInv, WaitsHeld
  <2>2. \A s \in Runners : Loads(s, q) => s # r
    BY <2>1 DEF p, Loads
  <2> QED BY <1>2, <1>3, <1>4, <2>1, <2>2 DEF Held, Loads
<1> QED BY <1>7, <1>8, <1>9, <1>10, <1>11 DEF HeldInv

(* A delayed request goes from processPending to its own goroutine.        *)
LEMMA DelayMoves ==
  ASSUME TypeInv, HeldInv, DelayRequest
  PROVE  HeldInv'
<1>1. pReq \in Requests /\ pReq' = NoRequest /\ NoRequest \notin Requests
  BY Numbers DEF TypeInv, PendingHand, DelayRequest, NoFit, NextPending, Summed
<1>2. UNCHANGED <<pendingReqCh, submitted, answer, done, phase, refMu, info>>
  BY DEF DelayRequest, NoFit, chans, runners, life, replies, ctl
<1>3. task'[pReq] = "requeue" /\ \A q \in Requests : q # pReq => task'[q] = task[q]
  BY <1>1 DEF DelayRequest, TypeInv, TypeOK, RequestsOK
<1>4. pReq \notin Sent(pendingReqCh) /\ \A r \in Runners : ~Loads(r, pReq)
  BY <1>1 DEF HeldInv, OnePlace
<1>5. QueuedOnce' /\ LoadedForOnce' /\ LoaderHas' /\ Fresh'
  BY <1>2 DEF HeldInv, QueuedOnce, LoadedForOnce, LoaderHas, Fresh
<1>6. OnePlace'
  BY <1>1, <1>2, <1>3, <1>4 DEF HeldInv, OnePlace, Loads
<1>7. HeldWaits'
  BY <1>1, <1>2, <1>3 DEF HeldInv, HeldWaits, Held, Loads
<1>8. WaitsHeld'
  BY <1>1, <1>2, <1>3 DEF HeldInv, WaitsHeld, Held, Loads
<1> QED BY <1>5, <1>6, <1>7, <1>8 DEF HeldInv

(* That goroutine puts it back into the queue.                             *)
LEMMA RequeueMoves ==
  ASSUME TypeInv, HeldInv, NEW p \in Requests, Requeue(p)
  PROVE  HeldInv'
<1>1. UNCHANGED <<pReq, submitted, answer, done, phase, refMu, info>>
  BY DEF Requeue, runners, life, replies, pvars, ctl
<1>2. /\ task[p] = "requeue" /\ task'[p] # "requeue"
      /\ \A q \in Requests : q # p => task'[q] = task[q]
  BY DEF Requeue, TypeInv, TypeOK, RequestsOK
<1>3. p \notin Sent(pendingReqCh) /\ pReq # p /\ \A r \in Runners : ~Loads(r, p)
  BY <1>2 DEF HeldInv, OnePlace
<1>4. pendingReqCh' = Append(pendingReqCh, p) /\ pendingReqCh \in Seq(Requests)
  BY DEF Requeue, TypeInv, TypeOK, ChannelsOK
<1>5. Sent(pendingReqCh)' = Sent(pendingReqCh) \union {p}
  <2>1. Sent(Append(pendingReqCh, p)) = Sent(pendingReqCh) \union {p}
    BY <1>4, SentAppend
  <2> QED BY <1>4, <2>1
<1>6. QueuedOnce'
  BY <1>3, <1>4, OnceAppended DEF HeldInv, QueuedOnce
<1>7. LoadedForOnce' /\ LoaderHas' /\ Fresh'
  BY <1>1 DEF HeldInv, LoadedForOnce, LoaderHas, Fresh
<1>8. OnePlace'
  BY <1>1, <1>2, <1>3, <1>5 DEF HeldInv, OnePlace, Loads
<1>9. HeldWaits'
  BY <1>1, <1>2, <1>5 DEF HeldInv, HeldWaits, Held, Loads
<1>10. WaitsHeld'
  BY <1>1, <1>2, <1>5 DEF HeldInv, WaitsHeld, Held, Loads
<1> QED BY <1>6, <1>7, <1>8, <1>9, <1>10 DEF HeldInv

(* A received request goes from the queue to processPending, or was        *)
(* cancelled.                                                              *)
LEMMA ReceiveMoves ==
  ASSUME TypeInv, HeldInv, EmptyHand, ReceivePending
  PROVE  HeldInv'
<1> DEFINE p == Head(pendingReqCh)
<1>1. UNCHANGED <<submitted, answer, done, task, phase, refMu, info>>
  BY DEF ReceivePending, runners, life, reqs, replies, ctl
<1>2. pendingReqCh' = Tail(pendingReqCh) /\ pendingReqCh # <<>> /\ pendingReqCh \in Seq(Requests)
  BY DEF ReceivePending, TypeInv, TypeOK, ChannelsOK
<1>3. p \in Requests /\ Sent(pendingReqCh) = {p} \union Sent(Tail(pendingReqCh))
  BY <1>2, SentTail
<1>4. QueuedOnce' /\ p \notin Sent(Tail(pendingReqCh))
  BY <1>2, OnceReceived DEF HeldInv, QueuedOnce
<1>5. Sent(pendingReqCh)' = Sent(Tail(pendingReqCh))
  BY <1>2
<1>6. \/ pReq' = p
      \/ pReq' = pReq /\ done[p]
  BY DEF ReceivePending
<1>7. pReq \notin Requests
  BY Numbers DEF ReceivePending, EmptyHand
<1>8. pReq # p /\ task[p] # "requeue" /\ \A r \in Runners : ~Loads(r, p)
  BY <1>3 DEF HeldInv, OnePlace
<1> HIDE DEF p
<1>9. LoadedForOnce' /\ LoaderHas' /\ Fresh'
  BY <1>1 DEF HeldInv, LoadedForOnce, LoaderHas, Fresh
<1>10. OnePlace'
  BY <1>1, <1>3, <1>4, <1>5, <1>6, <1>8 DEF HeldInv, OnePlace, Loads
<1>11. HeldWaits'
  BY <1>1, <1>3, <1>5, <1>6 DEF HeldInv, HeldWaits, Held, Loads
<1>12. WaitsHeld'
  BY <1>1, <1>3, <1>5, <1>6, <1>7 DEF HeldInv, WaitsHeld, Held, Loads
<1> QED BY <1>4, <1>9, <1>10, <1>11, <1>12 DEF HeldInv

(* A new request enters the queue or is refused.                           *)
LEMMA SubmitMoves ==
  ASSUME TypeInv, HeldInv, GetRunner
  PROVE  HeldInv'
<1> DEFINE p == submitted + 1
<1>1. UNCHANGED <<pReq, done, task, phase, refMu, info>>
  BY DEF GetRunner, runners, life, pvars, ctl
<1>2. p \in Requests /\ submitted' = p /\ submitted \in Nat /\ ~(p <= submitted)
  BY SchedulerAssumption DEF GetRunner, TypeInv, TypeOK, RequestsOK, Requests
<1>3. /\ p \notin Sent(pendingReqCh) /\ pReq # p /\ task[p] # "requeue"
      /\ \A r \in Runners : ~Loads(r, p)
  BY <1>2 DEF HeldInv, HeldWaits, Held
<1>4. answer[p] = "none" /\ \A q \in Requests : q <= submitted => q <= p
  BY <1>2 DEF HeldInv, Fresh, Requests
<1>5. /\ \A q \in Requests : q > p => q > submitted
      /\ \A q \in Requests : q <= p => q = p \/ q <= submitted
      /\ \A q \in Requests : q <= submitted => q # p
      /\ \A q \in Requests : q > p => q # p
  BY <1>2 DEF Requests
<1>6. \A q \in Requests : Held(q) => q <= submitted
  BY DEF HeldInv, HeldWaits
<1>7. CASE pendingReqCh' = Append(pendingReqCh, p) /\ UNCHANGED answer
  <2>1. pendingReqCh \in Seq(Requests)
    BY DEF TypeInv, TypeOK, ChannelsOK
  <2>2. Sent(pendingReqCh)' = Sent(pendingReqCh) \union {p}
    <3>1. Sent(Append(pendingReqCh, p)) = Sent(pendingReqCh) \union {p}
      BY <1>2, <2>1, SentAppend
    <3> QED BY <1>7, <3>1
  <2>3. QueuedOnce'
    BY <1>2, <1>3, <1>7, <2>1, OnceAppended DEF HeldInv, QueuedOnce
  <2> HIDE DEF p
  <2>4. LoadedForOnce' /\ LoaderHas' /\ Fresh'
    BY <1>1, <1>2, <1>5, <1>7 DEF HeldInv, LoadedForOnce, LoaderHas, Fresh
  <2>5. OnePlace'
    BY <1>1, <1>3, <2>2 DEF HeldInv, OnePlace, Loads
  <2>6. HeldWaits'
    <3> SUFFICES ASSUME NEW q \in Requests, Held(q)'
                 PROVE  answer[q] = "none" /\ q <= p
      BY <1>2, <1>7 DEF HeldWaits
    <3>1. q = p \/ Held(q)
      BY <1>1, <2>2 DEF Held, Loads
    <3>2. Held(q) => answer[q] = "none" /\ q <= submitted
      BY DEF HeldInv, HeldWaits
    <3>3. p <= p
      BY <1>2 DEF Requests
    <3> QED BY <1>4, <3>1, <3>2, <3>3
  <2>7. WaitsHeld'
    BY <1>1, <1>2, <1>5, <1>7, <2>2 DEF HeldInv, WaitsHeld, Held, Loads
  <2> QED BY <2>3, <2>4, <2>5, <2>6, <2>7 DEF HeldInv
<1>8. CASE answer' = [answer EXCEPT ![p] = "error"] /\ UNCHANGED pendingReqCh
  <2>1. answer'[p] # "none" /\ \A q \in Requests : q # p => answer'[q] = answer[q]
    BY <1>2, <1>8 DEF TypeInv, TypeOK, RequestsOK
  <2> HIDE DEF p
  <2>2. QueuedOnce' /\ LoadedForOnce' /\ LoaderHas' /\ Fresh'
    BY <1>1, <1>2, <1>5, <1>8, <2>1 DEF HeldInv, QueuedOnce, LoadedForOnce, LoaderHas, Fresh
  <2>3. OnePlace'
    BY <1>1, <1>8 DEF HeldInv, OnePlace, Loads
  <2>4. HeldWaits'
    BY <1>1, <1>2, <1>3, <1>4, <1>8, <2>1 DEF HeldInv, HeldWaits, Held, Loads
  <2>5. WaitsHeld'
    BY <1>1, <1>2, <1>5, <1>8, <2>1 DEF HeldInv, WaitsHeld, Held, Loads
  <2> QED BY <2>2, <2>3, <2>4, <2>5 DEF HeldInv
<1> QED BY <1>7, <1>8 DEF GetRunner

(* A request for which a runner is loaded goes to the loader.              *)
LEMMA LoadMoves ==
  ASSUME LockInv, HeldInv, Load
  PROVE  HeldInv'
<1> USE DEF LockInv
<1>1. pReq \in Requests /\ pReq' = NoRequest /\ NoRequest \notin Requests
  BY Numbers DEF TypeInv, PendingHand, Load, NextPending
<1>2. UNCHANGED <<pendingReqCh, submitted, answer, done, task, phase>>
  BY DEF Load, chans, reqs, replies, ctl
<1>3. PICK r \in Runners :
        /\ llama[r] = "none"
        /\ refMu' = [refMu EXCEPT ![r] = "loader"]
        /\ info' = [info EXCEPT ![r] =
                     [modelPath |-> PModel, gpus |-> pGpus, numCtx |-> numCtx[pReq],
                      numParallel |-> pPar, req |-> pReq]]
  BY DEF Load
<1>4. refMu'[r] = "loader" /\ info'[r].req = pReq
  BY <1>3 DEF TypeInv, TypeOK, RefsOK, LifeOK
<1>5. \A s \in Runners : s # r => refMu'[s] = refMu[s] /\ info'[s] = info[s]
  BY <1>3 DEF TypeInv, TypeOK, RefsOK, LifeOK
<1>6. refMu[r] # "loader"
  BY <1>3 DEF BornInv, UnbornIdle, Born
<1>7. /\ pReq \notin Sent(pendingReqCh) /\ task[pReq] # "requeue"
      /\ \A s \in Runners : ~Loads(s, pReq)
  BY <1>1 DEF HeldInv, OnePlace
<1>8. QueuedOnce' /\ Fresh'
  BY <1>2 DEF HeldInv, QueuedOnce, Fresh
<1>9. LoaderHas' /\ LoadedForOnce'
  BY <1>1, <1>4, <1>5, <1>7 DEF HeldInv, LoaderHas, LoadedForOnce, Loads
<1>10. OnePlace'
  BY <1>1, <1>2, <1>4, <1>5, <1>7 DEF HeldInv, OnePlace, Loads
<1>11. HeldWaits'
  BY <1>1, <1>2, <1>4, <1>5 DEF HeldInv, HeldWaits, Held, Loads
<1>12. WaitsHeld'
  BY <1>1, <1>2, <1>4, <1>5, <1>6 DEF HeldInv, WaitsHeld, Held, Loads
<1> QED BY <1>8, <1>9, <1>10, <1>11, <1>12 DEF HeldInv

(* A request that shutdown interrupts is dropped.                          *)
LEMMA StopDrops ==
  ASSUME HeldInv, StopPending
  PROVE  HeldInv'
<1>1. UNCHANGED <<pendingReqCh, submitted, answer, done, task, phase, refMu, info>>
  BY DEF StopPending, chans, runners, life, reqs, replies, ctl
<1>2. phase # "run" /\ pReq' = NoRequest /\ NoRequest \notin Requests
  BY Numbers DEF StopPending
<1>3. QueuedOnce' /\ LoadedForOnce' /\ LoaderHas' /\ Fresh' /\ WaitsHeld'
  BY <1>1, <1>2 DEF HeldInv, QueuedOnce, LoadedForOnce, LoaderHas, Fresh, WaitsHeld
<1>4. OnePlace' /\ HeldWaits'
  BY <1>1, <1>2 DEF HeldInv, OnePlace, HeldWaits, Held, Loads
<1> QED BY <1>3, <1>4 DEF HeldInv

(* processPending goes back to its queue without a request.                *)
LEMMA EmptyHandStep ==
  ASSUME EmptyHand, [Next]_vars
  PROVE  EmptyHand'
<1> USE DEF pvars
<1>1. Pending => EmptyHand'
  BY DEF EmptyHand, Pending, ReceivePending, IgnoreUnload, FoundLoaded,
     MaxRunnersAchieved, LoadModelFails, PlaceOnCpu, PlaceFirst, PlaceOn,
     PlaceAmongOthers, FilterGpus, UpdateFreeSpace, SumRunner, PickFit, DelayRequest,
     MakeRoom, NeedsReload, UseLoadedRunner, FindRunnerToUnload, ScanRunner,
     NewServerFails, Load, NextPending, TriggerExpiration, SendExpiration,
     UnloadCompleted, StopPending
<1> QED BY <1>1, CompletedFrame, OtherFrame DEF EmptyHand, Next, Other, vars

(* The inductive invariant for the requests.                               *)
RequestInv == LockInv /\ HeldInv /\ EmptyHand

(* The inductive invariant for the requests holds in every state.          *)
THEOREM RequestInvariant == Spec => []RequestInv
<1>1. Init => HeldInv
  BY SchedulerAssumption, Numbers DEF Init, HeldInv, QueuedOnce, LoadedForOnce, OnePlace,
     HeldWaits, WaitsHeld, Fresh, LoaderHas, Held, Loads, Sent, Requests, NoRequest
<1>2. LockInv /\ HeldInv /\ EmptyHand /\ [Next]_vars => HeldInv'
  <2> SUFFICES ASSUME LockInv, HeldInv, EmptyHand, [Next]_vars PROVE HeldInv'
    OBVIOUS
  <2>1. CASE Pending
    BY <2>1, PendingMoves, ReceiveMoves, PendingAnswers, DelayMoves, LoadMoves,
       StopDrops, StillHeld DEF LockInv
  <2>2. CASE Completed
    BY <2>2, CompletedMoves, StillHeld
  <2>3. CASE Other
    BY <2>3, OtherMoves, SubmitMoves, RequeueMoves, LoaderAnswers, StillHeld DEF LockInv
  <2>4. CASE UNCHANGED vars
    <3>1. Still
      BY <2>4 DEF vars, chans, runners, life, reqs, replies, pvars, ctl, Still
    <3> QED BY <3>1, StillHeld
  <2> QED BY <2>1, <2>2, <2>3, <2>4 DEF Next, Other
<1>3. Init => EmptyHand
  BY DEF Init, EmptyHand
<1>4. EmptyHand /\ [Next]_vars => EmptyHand'
  BY EmptyHandStep
<1> QED BY <1>1, <1>2, <1>3, <1>4, LockInvariant, PTL DEF Spec, RequestInv

(* No request is lost: every request that was made and not answered is     *)
(* with exactly one part of the scheduler, unless its client left or       *)
(* shutdown interrupted it.                                                *)
THEOREM RequestsNotLost == Spec => []RequestNeverLost
<1>1. RequestInv => RequestNeverLost
  <2> SUFFICES ASSUME RequestInv, NEW q \in 1 .. submitted
               PROVE  IF answer[q] # "none" THEN Holders(q) = {}
                      ELSE \/ Cardinality(Holders(q)) = 1
                           \/ Holders(q) = {} /\ (done[q] \/ phase # "run")
    BY DEF RequestNeverLost
  <2>1. q \in Requests /\ q <= submitted
    BY SchedulerAssumption DEF RequestInv, LockInv, TypeInv, TypeOK, RequestsOK, Requests
  <2>2. ~Held(q) => Holders(q) = {}
    BY DEF Holders, Held, Loads, Sent
  <2>3. ASSUME Held(q) PROVE \E h : Holders(q) = {h}
    <3>1. CASE q \in Sent(pendingReqCh)
      <4>1. PICK i \in DOMAIN pendingReqCh : pendingReqCh[i] = q
        BY <3>1 DEF Sent
      <4>2. {j \in DOMAIN pendingReqCh : pendingReqCh[j] = q} = {i}
        BY <4>1 DEF RequestInv, HeldInv, QueuedOnce
      <4>3. pReq # q /\ task[q] # "requeue" /\ \A r \in Runners : ~Loads(r, q)
        BY <2>1, <3>1 DEF RequestInv, HeldInv, OnePlace
      <4>4. Holders(q) = {<<"queue", i>>}
        BY <4>2, <4>3 DEF Holders, Loads
      <4> QED BY <4>4
    <3>2. CASE pReq = q
      <4>1. q \notin Sent(pendingReqCh) /\ task[q] # "requeue" /\ \A r \in Runners : ~Loads(r, q)
        BY <2>1, <3>2 DEF RequestInv, HeldInv, OnePlace
      <4>2. Holders(q) = {<<"pending", 0>>}
        BY <3>2, <4>1 DEF Holders, Loads, Sent
      <4> QED BY <4>2
    <3>3. CASE task[q] = "requeue"
      <4>1. q \notin Sent(pendingReqCh) /\ pReq # q /\ \A r \in Runners : ~Loads(r, q)
        BY <2>1, <3>3 DEF RequestInv, HeldInv, OnePlace
      <4>2. Holders(q) = {<<"requeue", 0>>}
        BY <3>3, <4>1 DEF Holders, Loads, Sent
      <4> QED BY <4>2
    <3>4. ASSUME NEW r \in Runners, Loads(r, q) PROVE \E h : Holders(q) = {h}
      <4>1. q \notin Sent(pendingReqCh) /\ pReq # q /\ task[q] # "requeue"
        BY <2>1, <3>4 DEF RequestInv, HeldInv, OnePlace
      <4>2. {s \in Runners : refMu[s] = "loader" /\ info[s].req = q} = {r}
        BY <3>4 DEF RequestInv, HeldInv, LoadedForOnce, Loads
      <4>3. Holders(q) = {<<"loader", r>>}
        BY <4>1, <4>2 DEF Holders, Sent
      <4> QED BY <4>3
    <3> QED BY <2>3, <3>1, <3>2, <3>3, <3>4 DEF Held
  <2>4. Held(q) => Cardinality(Holders(q)) = 1
    BY <2>3, FS_Singleton
  <2>5. answer[q] # "none" => ~Held(q)
    BY <2>1 DEF RequestInv, HeldInv, HeldWaits
  <2>6. answer[q] = "none" => Held(q) \/ done[q] \/ phase # "run"
    BY <2>1 DEF RequestInv, HeldInv, WaitsHeld
  <2> QED BY <2>2, <2>4, <2>5, <2>6
<1> QED BY <1>1, RequestInvariant, PTL

-----------------------------------------------------------------------------
(***************************************************************************)
(* A scheduler whose runners never expire on their own: the counts of its  *)
(* runners, the runners its requests use and the number of its runners.    *)
(***************************************************************************)

(* Clients keep models loaded forever, stop none, and stay until they have *)
(* an answer; loads that were started succeed, and the server stays up.    *)
(* refCount does not wrap with the requests there are.  Models may fail to *)
(* be found or started, pings may fail and memory may be short, so that    *)
(* runners are still reloaded and evicted.                                 *)
Steady ==
  /\ KeepAlive = Forever
  /\ \A q \in Requests : \A o \in Workload[q] : o.keep \in {Forever, Default}
  /\ Faults \intersect {"wait", "cancel"} = {}
  /\ MaxStops = 0 /\ ~MayShutdown
  /\ RefMod > MaxRequests + 1

Open(r) == llama[r] = "open"

(* Nothing but processPending asks for an unload: no timer fires and no    *)
(* expired event is repeated.                                              *)
NoTimers ==
  \A r \in Runners :
    /\ firing[r] = 0 /\ retry[r] = 0 /\ timer[r] # "fired"
    /\ timer[r] = "armed" => duration[r] = Forever
    /\ refMu[r] \notin {"failed", "timer", "stopper"}
NoStops == stopping = NoRunner /\ phase = "run" /\ \A r \in Runners : llama[r] # "closed"
KeptForever == \A q \in Requests : opts[q].keep \in {Forever, Default}

(* A runner keeps its keep-alive until processPending takes it away.       *)
DurationsKept ==
  \A r \in Runners :
    Open(r) => duration[r] = Forever \/ (pPC \in {"send", "wait"} /\ r = pRunner)

(* One expiry at a time: the runner that processPending wants unloaded is  *)
(* still in use, or its event is on the way from processCompleted to its   *)
(* own channel, or in the channel, or being handled, or its unload is      *)
(* about to be announced, or announced.                                    *)
Expirer == cPC \in {"send", "expired", "unload", "recover"}
NoExpiry == expiredCh = <<>> /\ unloadedCh = 0 /\ ~Expirer
StillUsed == NoExpiry /\ Open(pRunner) /\ refCount[pRunner] > 0
EventHeld ==
  /\ expiredCh = <<>> /\ unloadedCh = 0
  /\ cPC \in {"send", "expired", "unload"} /\ cRunner = pRunner
  /\ Open(pRunner) /\ refCount[pRunner] = 0
EventSent ==
  /\ expiredCh = <<pRunner>> /\ unloadedCh = 0 /\ ~Expirer
  /\ Open(pRunner) /\ refCount[pRunner] = 0
Unloaded ==
  /\ expiredCh = <<>> /\ ~Open(pRunner)
  /\ \/ unloadedCh = 0 /\ cPC = "recover"
     \/ unloadedCh = 1 /\ ~Expirer
OneExpiry ==
  /\ pPC # "wait" => NoExpiry
  /\ pPC = "send" => Open(pRunner) /\ refCount[pRunner] = 0
  /\ pPC = "wait" => StillUsed \/ EventHeld \/ EventSent \/ Unloaded

(* The map holds the live runners, each under the path of its model.       *)
MapExact ==
  /\ \A m \in Models : loaded[m] # NoRunner =>
       Open(loaded[m]) /\ info[loaded[m]].modelPath = m
  /\ \A r \in Runners : Open(r) => loaded[info[r].modelPath] = r

(* The runners that processPending and processCompleted have in hand are   *)
(* live, and the one a request will use is that of its model.              *)
PendingLive ==
  /\ pPC \in {"check", "use", "scan", "expire"} => Open(pRunner)
  /\ pPC = "scan" => \A i \in DOMAIN pList : Open(pList[i])
  /\ pPC \in {"check", "use"} => info[pRunner].modelPath = PModel
FinishLive == cPC = "finish" => Open(cRunner)
HandsLive == PendingLive /\ FinishLive

(* A request that was served and is not yet counted off is in one place    *)
(* only: with its goroutine, in the channel or with processCompleted.      *)
Finishing(q) == task[q] = "finish" \/ q \in Sent(finishedReqCh) \/ cReq = q
FinishOnce ==
  /\ \A i, j \in DOMAIN finishedReqCh : finishedReqCh[i] = finishedReqCh[j] => i = j
  /\ \A q \in Requests : task[q] = "finish" => q \notin Sent(finishedReqCh) /\ cReq # q
  /\ cReq \notin Sent(finishedReqCh)
  /\ cPC # "finished" => cReq = NoRequest

(* Such a request uses a live runner of its model.                         *)
ServedLive ==
  \A q \in Requests : Finishing(q) =>
    /\ answer[q] = "runner" /\ got[q] \in Runners
    /\ Open(got[q]) /\ info[got[q]].modelPath = opts[q].model
InUse == \A q \in Requests : answer[q] = "runner" /\ ~done[q] => task[q] = "finish"
DoneServed == \A q \in Requests : done[q] => answer[q] = "runner"
LoadersLive ==
  \A r \in Runners : refMu[r] = "loader" =>
    Open(r) /\ info[r].modelPath = opts[info[r].req].model

(* The limit is set before the first runner is loaded, and there is room   *)
(* for the one that is being placed.                                       *)
RoomLeft ==
  /\ maxRunners = 0 => LoadedRunners = {} /\ ~Placing
  /\ Placing => Cardinality(LoadedRunners) < maxRunners
  /\ maxRunners > 0 => Cardinality(LoadedRunners) <= maxRunners

SteadyInv ==
  /\ NoTimers /\ NoStops /\ KeptForever /\ DurationsKept /\ OneExpiry
  /\ MapExact /\ HandsLive /\ FinishOnce /\ ServedLive /\ InUse /\ DoneServed
  /\ LoadersLive /\ RefCountExact /\ RoomLeft

(* What is known before a step.                                            *)
SteadyState == Steady /\ RequestInv /\ SafetyInv /\ SlotInv /\ SteadyInv

-----------------------------------------------------------------------------
(* Steps that leave the runners, the events and the served requests alone. *)
Calm ==
  /\ UNCHANGED <<finishedReqCh, expiredCh, unloadedCh, loaded, runners, got, done, cvars, ctl>>
  /\ \A q \in Requests :
       /\ answer'[q] = "runner" <=> answer[q] = "runner"
       /\ task'[q] = "finish" <=> task[q] = "finish"
       /\ q <= submitted => opts'[q] = opts[q]
  /\ \/ UNCHANGED <<pPC, pRunner>>
     \/ pPC \notin {"send", "wait"} /\ pPC' \notin {"send", "wait"}

(* Most steps of processPending are calm ...                               *)
LEMMA PendingCalm ==
  ASSUME SteadyState, Pending
  PROVE  Calm \/ UseLoadedRunner \/ Load \/ TriggerExpiration \/ SendExpiration \/ UnloadCompleted
<1> USE DEF Calm, chans, maps, reqs, replies
<1>1. CASE ReceivePending
  BY <1>1 DEF ReceivePending
<1>2. CASE IgnoreUnload
  BY <1>2 DEF IgnoreUnload, SteadyState, SteadyInv, OneExpiry, NoExpiry
<1>3. CASE FoundLoaded \/ MaxRunnersAchieved
  BY <1>3 DEF FoundLoaded, MaxRunnersAchieved, LookUp
<1>4. CASE LoadModelFails \/ NewServerFails
  <2>1. pReq \in Requests /\ answer[pReq] = "none"
    BY <1>4 DEF LoadModelFails, NewServerFails, Room, LookUp, SteadyState, RequestInv, LockInv, TypeInv,
       PendingHand, HeldInv, HeldWaits, Held
  <2>2. answer' = [answer EXCEPT ![pReq] = "error"] /\ UNCHANGED <<opts, task>>
    BY <1>4 DEF LoadModelFails, NewServerFails
  <2>3. \A q \in Requests : answer'[q] = "runner" <=> answer[q] = "runner"
    BY <2>1, <2>2 DEF SteadyState, RequestInv, LockInv, TypeInv, TypeOK, RequestsOK
  <2>4. pPC \notin {"send", "wait"} /\ pPC' \notin {"send", "wait"}
    BY <1>4 DEF LoadModelFails, NewServerFails, NextPending, Room, LookUp
  <2>5. UNCHANGED <<finishedReqCh, expiredCh, unloadedCh, loaded, runners, got, done, cvars, ctl>>
    BY <1>4 DEF LoadModelFails, NewServerFails
  <2> QED BY <2>2, <2>3, <2>4, <2>5
<1>5. CASE PlaceOnCpu \/ PlaceFirst \/ PickFit
  <2>1. PICK g, par, pc : PlaceOn(g, par, pc) /\ pc \in {"load", "findCpu"}
    BY <1>5 DEF PlaceOnCpu, PlaceFirst, PickFit
  <2>2. pPC \notin {"send", "wait"}
    BY <1>5 DEF PlaceOnCpu, PlaceFirst, PickFit, Room, LookUp, Summed
  <2> QED BY <2>1, <2>2 DEF PlaceOn
<1>6. CASE PlaceAmongOthers
  BY <1>6 DEF PlaceAmongOthers, Room, LookUp
<1>7. CASE FilterGpus \/ UpdateFreeSpace \/ \E r \in Runners : SumRunner(r)
  BY <1>7 DEF FilterGpus, UpdateFreeSpace, SumRunner
<1>8. CASE DelayRequest
  <2>1. pReq \in Requests /\ task[pReq] # "finish"
    BY <1>8 DEF DelayRequest, NoFit, Summed, SteadyState, RequestInv, LockInv, TypeInv, PendingHand,
       HeldInv, HeldWaits, Held, SteadyInv, ServedLive, Finishing
  <2>2. task' = [task EXCEPT ![pReq] = "requeue"]
    BY <1>8 DEF DelayRequest
  <2>3. \A q \in Requests : task'[q] = "finish" <=> task[q] = "finish"
    BY <2>1, <2>2 DEF SteadyState, RequestInv, LockInv, TypeInv, TypeOK, RequestsOK
  <2>4. pPC \notin {"send", "wait"} /\ pPC' \notin {"send", "wait"}
    BY <1>8 DEF DelayRequest, NoFit, Summed, NextPending
  <2>5. UNCHANGED <<finishedReqCh, expiredCh, unloadedCh, loaded, runners, answer, opts, got, done, cvars, ctl>>
    BY <1>8 DEF DelayRequest, NoFit
  <2> QED BY <2>3, <2>4, <2>5
<1>9. CASE MakeRoom
  BY <1>9 DEF MakeRoom, NoFit, Summed
<1>10. CASE NeedsReload \/ FindRunnerToUnload \/ ScanRunner
  BY <1>10 DEF NeedsReload, FindRunnerToUnload, ScanRunner
<1>11. CASE StopPending
  BY <1>11 DEF StopPending, SteadyState, SteadyInv, NoStops
<1> QED BY <1>1, <1>2, <1>3, <1>4, <1>5, <1>6, <1>7, <1>8, <1>9, <1>10, <1>11 DEF Pending

(* ... processCompleted never finds an expired runner in use ...           *)
LEMMA CompletedBusy ==
  ASSUME SteadyState, Completed
  PROVE  \/ ReceiveFinished \/ LookupFinished \/ FinishRequest \/ ExpireFinished
         \/ ReceiveExpired \/ ExpiredIdle \/ Unload \/ SendUnloaded
<1>1. ~ExpiredInUse
  BY DEF ExpiredInUse, Idle, SteadyState, SteadyInv, OneExpiry, NoExpiry, Expirer, StillUsed, EventHeld,
     EventSent, Unloaded
<1>2. ~StopCompleted
  BY DEF StopCompleted, SteadyState, SteadyInv, NoStops
<1> QED BY <1>1, <1>2 DEF Completed

(* ... and the others only serve, end and queue requests.                  *)
LEMMA OtherCalm ==
  ASSUME SteadyState, Other
  PROVE  \/ Calm \/ (\E q \in Requests : ContextDone(q) \/ SendFinished(q))
         \/ (\E r \in Runners : LoadSucceeds(r))
<1> USE DEF Calm, chans, maps, reqs, replies, pvars
<1>1. CASE GetRunner
  <2>1. submitted + 1 \in Requests /\ answer[submitted + 1] = "none"
    BY <1>1, SchedulerAssumption DEF GetRunner, Requests, SteadyState, RequestInv, LockInv, TypeInv, TypeOK,
       RequestsOK, HeldInv, Fresh
  <2>2. \A q \in Requests : answer'[q] = "runner" <=> answer[q] = "runner"
    BY <1>1, <2>1 DEF GetRunner, SteadyState, RequestInv, LockInv, TypeInv, TypeOK, RequestsOK
  <2>3. PICK o : opts' = [opts EXCEPT ![submitted + 1] = o]
    BY <1>1 DEF GetRunner
  <2>4. \A q \in Requests : q <= submitted => opts'[q] = opts[q]
    BY <2>3 DEF SteadyState, RequestInv, LockInv, TypeInv, TypeOK, RequestsOK, Requests
  <2>5. UNCHANGED <<finishedReqCh, expiredCh, unloadedCh, loaded, runners, got, done, task, pPC, pRunner, cvars, ctl>>
    BY <1>1 DEF GetRunner
  <2> QED BY <2>2, <2>4, <2>5
<1>2. ASSUME NEW q \in Requests, Requeue(q) PROVE Calm
  <2>1. task' = [task EXCEPT ![q] = "none"] /\ task[q] = "requeue"
    BY <1>2 DEF Requeue
  <2>2. \A s \in Requests : task'[s] = "finish" <=> task[s] = "finish"
    BY <2>1 DEF SteadyState, RequestInv, LockInv, TypeInv, TypeOK, RequestsOK
  <2> QED BY <1>2, <2>2 DEF Requeue
<1>3. ASSUME NEW r \in Runners PROVE ~LoadFails(r)
  BY DEF LoadFails, FailLoad, SteadyState, Steady, SteadyInv, DoneServed, NoStops, RequestInv, HeldInv,
     LoaderHas, HeldWaits, Held, Loads
<1>4. ASSUME NEW r \in Runners
      PROVE  ~ExpireFailedOrTimedOut(r) /\ ~RetryExpired(r) /\ ~TimerFires(r) /\ ~TimerCallback(r)
  BY DEF ExpireFailedOrTimedOut, RetryExpired, TimerFires, TimerCallback, SteadyState, SteadyInv, NoTimers
<1>5. ~Stopper /\ \A m \in Models : ~ExpireRunner(m)
  BY DEF Stopper, ExpireRunnerNow, SendStopped, ExpireRunner, SteadyState, SteadyInv, NoStops, Steady,
     RequestInv, LockInv, TypeInv, TypeOK, ControlOK
<1>6. ~Shutdown /\ ~UnloadAllRunners
  BY DEF Shutdown, UnloadAllRunners, SteadyState, SteadyInv, NoStops, Steady
<1> QED BY <1>1, <1>2, <1>3, <1>4, <1>5, <1>6 DEF Other, RequestStep, RunnerStep

(* The steps of a steady scheduler.                                        *)
LEMMA SteadySteps ==
  ASSUME SteadyState, [Next]_vars
  PROVE  \/ Calm \/ UseLoadedRunner \/ Load \/ TriggerExpiration \/ SendExpiration \/ UnloadCompleted
         \/ ReceiveFinished \/ LookupFinished \/ FinishRequest \/ ExpireFinished
         \/ ReceiveExpired \/ ExpiredIdle \/ Unload \/ SendUnloaded
         \/ (\E q \in Requests : ContextDone(q) \/ SendFinished(q))
         \/ (\E r \in Runners : LoadSucceeds(r))
<1>1. UNCHANGED vars => Calm
  BY DEF Calm, vars, chans, maps, reqs, replies, pvars
<1> QED BY <1>1, PendingCalm, CompletedBusy, OtherCalm DEF Next, Other

-----------------------------------------------------------------------------
(* The types and the facts of the other modules.                           *)
LEMMA SteadyFacts ==
  ASSUME SteadyState
  PROVE  /\ TypeInv /\ BornInv /\ PendingLock /\ CompletedLock /\ HeldInv /\ EmptyHand
         /\ LoaderCounted /\ KeepAliveDropped /\ Made /\ SlotFree
         /\ Forever \in Nat \ {0}
BY SchedulerAssumption DEF SteadyState, RequestInv, LockInv, SafetyInv, SlotInv

(* A request that waits for an answer is not finishing.                    *)
LEMMA WaitingNotFinishing ==
  ASSUME SteadyState, NEW q \in Requests, Held(q)
  PROVE  answer[q] = "none" /\ q <= submitted /\ ~Finishing(q)
BY SteadyFacts DEF HeldInv, HeldWaits, SteadyState, SteadyInv, ServedLive

(* The request that processPending or a loader answers.                    *)
LEMMA UseHand ==
  ASSUME SteadyState, UseLoadedRunner
  PROVE  /\ pReq \in Requests /\ answer[pReq] = "none" /\ pReq <= submitted /\ ~Finishing(pReq)
         /\ pRunner \in Runners /\ Open(pRunner) /\ info[pRunner].modelPath = PModel
<1>1. pReq \in Requests /\ pRunner \in Runners
  BY SteadyFacts DEF UseLoadedRunner, TypeInv, PendingHand
<1>2. Held(pReq)
  BY DEF Held
<1>3. Open(pRunner) /\ info[pRunner].modelPath = PModel
  BY DEF SteadyState, SteadyInv, HandsLive, PendingLive, UseLoadedRunner
<1> QED BY <1>1, <1>2, <1>3, WaitingNotFinishing

(* The request that a runner is loaded for has no answer yet.              *)
LEMMA LoaderHand ==
  ASSUME SteadyState, NEW r \in Runners, refMu[r] = "loader"
  PROVE  /\ info[r].req \in Requests /\ answer[info[r].req] = "none"
         /\ info[r].req <= submitted /\ ~Finishing(info[r].req)
         /\ Open(r) /\ info[r].modelPath = opts[info[r].req].model
<1>1. info[r].req \in Requests
  BY SteadyFacts DEF HeldInv, LoaderHas
<1>2. Held(info[r].req)
  BY DEF Held, Loads
<1>3. Open(r) /\ info[r].modelPath = opts[info[r].req].model
  BY DEF SteadyState, SteadyInv, LoadersLive
<1> QED BY <1>1, <1>2, <1>3, WaitingNotFinishing

(* The runner that load creates.                                           *)
LEMMA LoadHand ==
  ASSUME SteadyState, Load
  PROVE  \E r \in Runners :
           /\ llama[r] = "none" /\ refMu[r] = "free" /\ timer[r] = "nil"
           /\ llama' = [llama EXCEPT ![r] = "open"]
           /\ refMu' = [refMu EXCEPT ![r] = "loader"]
           /\ refCount' = [refCount EXCEPT ![r] = 1]
           /\ duration' = [duration EXCEPT ![r] = Forever]
           /\ loaded' = [loaded EXCEPT ![PModel] = r]
           /\ info' = [info EXCEPT ![r] = info'[r]]
           /\ info'[r].req = pReq /\ info'[r].modelPath = PModel
           /\ pReq \in Requests /\ pReq <= submitted /\ PModel \in Models
<1>1. PICK r \in Runners :
             /\ llama[r] = "none"
             /\ info' = [info EXCEPT ![r] =
                           [modelPath |-> PModel, gpus |-> pGpus, numCtx |-> numCtx[pReq],
                            numParallel |-> pPar, req |-> pReq]]
             /\ llama' = [llama EXCEPT ![r] = "open"]
             /\ refMu' = [refMu EXCEPT ![r] = "loader"]
             /\ refCount' = [refCount EXCEPT ![r] = 1]
             /\ duration' = [duration EXCEPT ![r] =
                               IF opts[pReq].keep = Default THEN KeepAlive ELSE opts[pReq].keep]
             /\ loaded' = [loaded EXCEPT ![PModel] = r]
  BY DEF Load
<1>2. pReq \in Requests
  BY SteadyFacts DEF Load, TypeInv, PendingHand
<1>3. pReq <= submitted
  BY SteadyFacts DEF Made
<1>4. (IF opts[pReq].keep = Default THEN KeepAlive ELSE opts[pReq].keep) = Forever
  BY <1>2 DEF SteadyState, Steady, SteadyInv, KeptForever
<1>5. PModel \in Models
  BY <1>2, OptionsTypes, SteadyFacts DEF PModel, TypeInv, TypeOK
<1>6. refMu[r] = "free" /\ timer[r] = "nil"
  BY <1>1, SteadyFacts DEF BornInv, UnbornIdle, Born
<1>7. /\ info' = [info EXCEPT ![r] = info'[r]]
      /\ info'[r].req = pReq /\ info'[r].modelPath = PModel
  BY <1>1, SteadyFacts DEF TypeInv, TypeOK, LifeOK
<1> QED BY <1>1, <1>2, <1>3, <1>4, <1>5, <1>6, <1>7

(* Timers, stop requests and shutdown stay away.                           *)
LEMMA NoTimersStep ==
  ASSUME SteadyState, [Next]_vars
  PROVE  NoTimers'
<1> USE SteadyFacts DEF NoTimers, runners, life, refs, keeps, events
<1>0. NoTimers /\ DurationsKept /\ HandsLive /\ TypeInv /\ KeepAliveDropped /\ KeptForever
  BY DEF SteadyState, SteadyInv
<1>1. CASE UNCHANGED runners
  BY <1>0, <1>1
<1>2. CASE UseLoadedRunner
  BY <1>0, <1>2, UseHand DEF UseLoadedRunner, TypeInv, TypeOK, TimersOK
<1>3. CASE Load
  <2>1. PICK r \in Runners : /\ timer[r] = "nil"
                             /\ refMu' = [refMu EXCEPT ![r] = "loader"]
                             /\ duration' = [duration EXCEPT ![r] = Forever]
    BY <1>3, LoadHand
  <2>2. UNCHANGED <<timer, events>>
    BY <1>3 DEF Load
  <2> QED BY <1>0, <2>1, <2>2 DEF TypeInv, TypeOK, TimersOK, RefsOK
<1>4. CASE TriggerExpiration \/ SendExpiration
  BY <1>0, <1>4 DEF TriggerExpiration, ExpireNow, SendExpiration, SendExpired, TypeInv, TypeOK,
     TimersOK, RefsOK
<1>5. CASE FinishRequest
  <2>1. cRunner \in Runners /\ Open(cRunner)
    BY <1>0, <1>5 DEF FinishRequest, TypeInv, CompletedHand, HandsLive, FinishLive
  <2>2. duration[cRunner] # 0 => duration[cRunner] = Forever
    BY <1>0, <2>1 DEF DurationsKept, KeepAliveDropped
  <2> QED BY <1>0, <1>5, <2>1, <2>2 DEF FinishRequest, GoneIdle, TypeInv, TypeOK, TimersOK, RefsOK
<1>6. CASE ExpireFinished \/ ExpiredIdle \/ Unload
  BY <1>0, <1>6 DEF ExpireFinished, SendExpired, ExpiredIdle, Unload, TypeInv, TypeOK, TimersOK, RefsOK
<1>7. ASSUME NEW r \in Runners, LoadSucceeds(r) PROVE NoTimers'
  BY <1>0, <1>7 DEF LoadSucceeds, TypeInv, TypeOK, RefsOK
<1>8. Calm \/ UnloadCompleted \/ ReceiveFinished \/ LookupFinished \/ ReceiveExpired \/ SendUnloaded
        => UNCHANGED runners
  BY DEF Calm, UnloadCompleted, ReceiveFinished, LookupFinished, ReceiveExpired, SendUnloaded
<1>9. (\E q \in Requests : ContextDone(q) \/ SendFinished(q)) => UNCHANGED runners
  BY DEF ContextDone, SendFinished
<1> QED BY <1>1, <1>2, <1>3, <1>4, <1>5, <1>6, <1>7, <1>8, <1>9, SteadySteps

(* Nobody stops a model or the server.                                     *)
LEMMA NoStopsStep ==
  ASSUME SteadyState, [Next]_vars
  PROVE  NoStops'
<1>1. NoStops /\ TypeInv
  BY SteadyFacts DEF SteadyState, SteadyInv
<1>2. UNCHANGED <<stopping, phase>>
  BY SteadySteps, PendingFrame, CompletedFrame DEF Calm, ContextDone, SendFinished, LoadSucceeds, ctl,
     Pending, Completed
<1>3. ~UnloadAllRunners
  BY <1>1 DEF UnloadAllRunners, NoStops
<1>4. \A r \in Runners : llama'[r] # "closed"
  BY <1>1, <1>3, LlamaSteps DEF NoStops, Load, Unload, TypeInv, TypeOK, LifeOK
<1> QED BY <1>1, <1>2, <1>4 DEF NoStops

(* Clients go on keeping models forever.                                   *)
LEMMA KeptForeverStep ==
  ASSUME SteadyState, [Next]_vars
  PROVE  KeptForever'
<1>1. KeptForever /\ TypeInv
  BY SteadyFacts DEF SteadyState, SteadyInv
<1>2. CASE GetRunner
  <2>1. PICK o \in Workload[submitted + 1] : opts' = [opts EXCEPT ![submitted + 1] = o]
    BY <1>2 DEF GetRunner
  <2>2. submitted + 1 \in Requests
    BY <1>1, <1>2, SchedulerAssumption DEF GetRunner, Requests, TypeInv, TypeOK, RequestsOK
  <2>3. o.keep \in {Forever, Default}
    BY <2>1, <2>2 DEF SteadyState, Steady
  <2> QED BY <1>1, <2>1, <2>2, <2>3 DEF KeptForever, TypeInv, TypeOK, RequestsOK
<1> QED BY <1>1, <1>2, ChoicesFrame DEF KeptForever

-----------------------------------------------------------------------------
(* The unload that processCompleted performs is the one that               *)
(* processPending waits for.                                               *)
LEMMA UnloadHand ==
  ASSUME SteadyState, Unload
  PROVE  /\ pPC = "wait" /\ cRunner = pRunner /\ pRunner \in Runners
         /\ expiredCh = <<>> /\ unloadedCh = 0 /\ Open(pRunner) /\ refCount[pRunner] = 0
         /\ refMu[pRunner] = "completed"
<1>1. cPC = "unload"
  BY DEF Unload
<1>2. OneExpiry /\ CompletedLock /\ TypeInv
  BY SteadyFacts DEF SteadyState, SteadyInv
<1>3. pPC = "wait" /\ EventHeld
  BY <1>1, <1>2 DEF OneExpiry, NoExpiry, StillUsed, EventSent, Unloaded, Expirer
<1> QED BY <1>1, <1>2, <1>3 DEF EventHeld, CompletedLock, TypeInv, CompletedHand

(* A runner keeps its keep-alive until processPending takes it away.       *)
LEMMA DurationsKeptStep ==
  ASSUME SteadyState, [Next]_vars
  PROVE  DurationsKept'
<1> USE DEF DurationsKept, Open, runners, life, keeps
<1>0. DurationsKept /\ TypeInv /\ KeptForever /\ OneExpiry
  BY SteadyFacts DEF SteadyState, SteadyInv
<1>1. CASE UNCHANGED <<llama, duration, pPC, pRunner>>
  BY <1>0, <1>1
<1>2. CASE Calm
  BY <1>0, <1>2 DEF Calm
<1>3. CASE UseLoadedRunner
  <2>1. opts[pReq].keep \in {Forever, Default}
    BY <1>0, <1>3, UseHand DEF KeptForever
  <2> QED BY <1>0, <1>3, <2>1 DEF UseLoadedRunner, NextPending, TypeInv, TypeOK, TimersOK
<1>4. CASE Load
  <2>1. PICK r \in Runners : /\ llama' = [llama EXCEPT ![r] = "open"]
                             /\ duration' = [duration EXCEPT ![r] = Forever]
    BY <1>4, LoadHand
  <2>2. pPC = "load"
    BY <1>4 DEF Load
  <2> QED BY <1>0, <2>1, <2>2 DEF TypeInv, TypeOK, TimersOK, LifeOK
<1>5. CASE TriggerExpiration
  BY <1>0, <1>5 DEF TriggerExpiration, ExpireNow, TypeInv, TypeOK, TimersOK
<1>6. CASE SendExpiration
  BY <1>0, <1>6 DEF SendExpiration, SendExpired
<1>7. CASE UnloadCompleted
  BY <1>0, <1>7 DEF UnloadCompleted, OneExpiry, StillUsed, NoExpiry, EventHeld, EventSent, Unloaded
<1>8. CASE Unload
  BY <1>0, <1>8, CompletedFrame DEF Unload, Completed, pvars, TypeInv, TypeOK, LifeOK
<1>9. CASE ReceiveFinished \/ LookupFinished \/ ReceiveExpired \/ SendUnloaded
  BY <1>1, <1>9, CompletedFrame DEF ReceiveFinished, LookupFinished, ReceiveExpired, SendUnloaded,
     Completed, pvars
<1>10. CASE FinishRequest \/ ExpireFinished \/ ExpiredIdle
  BY <1>1, <1>10, CompletedFrame DEF FinishRequest, ExpireFinished, SendExpired, ExpiredIdle,
     Completed, pvars
<1>11. CASE \E q \in Requests : ContextDone(q) \/ SendFinished(q)
  BY <1>1, <1>11 DEF ContextDone, SendFinished, pvars
<1>12. CASE \E r \in Runners : LoadSucceeds(r)
  BY <1>1, <1>12 DEF LoadSucceeds, pvars
<1> QED BY <1>2, <1>3, <1>4, <1>5, <1>6, <1>7, <1>8, <1>9, <1>10, <1>11, <1>12, SteadySteps

(* A finished request is counted off a live runner that it still counts    *)
(* for.                                                                    *)
LEMMA FinishHand ==
  ASSUME SteadyState, FinishRequest
  PROVE  /\ cRunner \in Runners /\ Open(cRunner) /\ refMu[cRunner] = "free"
         /\ refCount[cRunner] \in 1 .. RefMod - 1 /\ refCount' = [refCount EXCEPT ![cRunner] = @ - 1]
<1>1. cRunner \in Runners /\ refMu[cRunner] = "free" /\ Open(cRunner)
  BY SteadyFacts DEF FinishRequest, Unlocked, TypeInv, CompletedHand, SteadyState, SteadyInv, HandsLive, FinishLive
<1>2. IsFiniteSet(Users(cRunner))
  <2>1. IsFiniteSet(Requests)
    BY SchedulerAssumption, FS_Interval DEF Requests
  <2>2. Users(cRunner) \subseteq Requests
    BY DEF Users
  <2> QED BY <2>1, <2>2, FS_Subset
<1>3. Cardinality(Users(cRunner)) \in Nat
  BY <1>2, FS_CardinalityType
<1>4. refCount[cRunner] = Cardinality(Users(cRunner)) + 1
  BY <1>1, <1>3 DEF SteadyState, SteadyInv, RefCountExact, Open, FinishRequest
<1>5. refCount[cRunner] \in 0 .. RefMod - 1
  BY <1>1, SteadyFacts DEF TypeInv, TypeOK, RefsOK
<1>6. refCount[cRunner] \in 1 .. RefMod - 1
  BY <1>3, <1>4, <1>5, SchedulerAssumption
<1>7. refCount' = [refCount EXCEPT ![cRunner] = Dec(refCount[cRunner])]
  BY DEF FinishRequest
<1>8. Dec(refCount[cRunner]) = refCount[cRunner] - 1
  BY <1>6, SchedulerAssumption DEF Dec
<1> QED BY <1>1, <1>6, <1>7, <1>8

(* One expiry at a time.                                                   *)
LEMMA OneExpiryStep ==
  ASSUME SteadyState, [Next]_vars
  PROVE  OneExpiry'
<1> USE DEF Open, runners, life, refs
<1>0. OneExpiry /\ TypeInv /\ DurationsKept /\ HandsLive /\ KeepAliveDropped
  BY SteadyFacts DEF SteadyState, SteadyInv
<1>1. CASE UNCHANGED <<expiredCh, unloadedCh, llama, refCount, pPC, pRunner, cvars>>
  BY <1>0, <1>1 DEF OneExpiry, NoExpiry, Expirer, StillUsed, EventHeld, EventSent, Unloaded, cvars
<1>2. CASE Calm
  BY <1>0, <1>1, <1>2 DEF Calm, OneExpiry, NoExpiry, Expirer, cvars
<1>3. CASE UseLoadedRunner
  BY <1>0, <1>3 DEF UseLoadedRunner, NextPending, OneExpiry, NoExpiry, Expirer, cvars, chans
<1>4. CASE Load
  BY <1>0, <1>4 DEF Load, NextPending, OneExpiry, NoExpiry, Expirer, cvars, chans
<1>5. CASE TriggerExpiration
  <2>1. NoExpiry /\ Open(pRunner) /\ pRunner \in Runners
    BY <1>0, <1>5 DEF TriggerExpiration, OneExpiry, HandsLive, PendingLive, TypeInv, PendingHand
  <2>2. NoExpiry' /\ UNCHANGED <<llama, refCount, pRunner>>
    BY <1>5, <2>1 DEF TriggerExpiration, ExpireNow, NoExpiry, Expirer, cvars, chans
  <2>3. pPC' = IF refCount[pRunner] = 0 THEN "send" ELSE "wait"
    BY <1>5 DEF TriggerExpiration, Idle
  <2>4. refCount[pRunner] \in Nat
    BY <2>1, <1>0 DEF TypeInv, TypeOK, RefsOK
  <2> QED BY <2>1, <2>2, <2>3, <2>4 DEF OneExpiry, StillUsed
<1>6. CASE SendExpiration
  <2>1. NoExpiry /\ Open(pRunner) /\ refCount[pRunner] = 0
    BY <1>0, <1>6 DEF SendExpiration, OneExpiry
  <2>2. EventSent'
    BY <1>6, <2>1 DEF SendExpiration, SendExpired, NoExpiry, Expirer, EventSent, cvars
  <2> QED BY <1>6, <2>2 DEF SendExpiration, OneExpiry
<1>7. CASE UnloadCompleted
  BY <1>0, <1>7 DEF UnloadCompleted, OneExpiry, StillUsed, NoExpiry, Expirer, EventHeld, EventSent,
     Unloaded, cvars
<1>8. CASE ReceiveFinished \/ LookupFinished
  BY <1>0, <1>8, CompletedFrame DEF ReceiveFinished, LookupFinished, Completed, pvars, chans,
     OneExpiry, NoExpiry, Expirer, StillUsed, EventHeld, EventSent, Unloaded
<1>9. CASE FinishRequest
  <2>1. UNCHANGED <<expiredCh, unloadedCh, llama, pPC, pRunner>>
    BY <1>9, CompletedFrame DEF FinishRequest, Completed, pvars, chans
  <2>2. cPC = "finish"
    BY <1>9 DEF FinishRequest
  <2>3. /\ cRunner \in Runners /\ llama[cRunner] = "open" /\ refMu[cRunner] = "free"
        /\ refCount[cRunner] \in 1 .. RefMod - 1 /\ refCount' = [refCount EXCEPT ![cRunner] = @ - 1]
    BY <1>9, FinishHand
  <2>4. refCount \in [Runners -> 0 .. RefMod - 1]
    BY <1>0 DEF TypeInv, TypeOK, RefsOK
  <2>5. CASE pPC \in {"send", "wait"} /\ cRunner = pRunner
    <3>1. pPC = "wait" /\ StillUsed
      BY <1>0, <2>2, <2>3, <2>5 DEF OneExpiry, EventHeld, EventSent, Unloaded
    <3>2. duration[cRunner] = 0
      BY <1>0, <2>5 DEF KeepAliveDropped
    <3>3. refCount'[pRunner] \in Nat
      BY <2>3, <2>4, <2>5, SchedulerAssumption
    <3>4. CASE refCount'[cRunner] = 0
      <4>1. cPC' = "send" /\ cRunner' = cRunner
        BY <1>9, <3>2, <3>4 DEF FinishRequest, GoneIdle
      <4>2. EventHeld'
        BY <2>1, <2>5, <3>1, <3>4, <4>1 DEF StillUsed, NoExpiry, EventHeld
      <4> QED BY <2>1, <3>1, <4>2 DEF OneExpiry
    <3>5. CASE refCount'[cRunner] # 0
      <4>1. cPC' = "select"
        BY <1>9, <3>5 DEF FinishRequest, NextCompleted
      <4>2. StillUsed'
        BY <2>1, <2>5, <3>1, <3>3, <3>5, <4>1 DEF StillUsed, NoExpiry, Expirer
      <4> QED BY <2>1, <3>1, <4>2 DEF OneExpiry
    <3> QED BY <3>4, <3>5
  <2>6. CASE ~(pPC \in {"send", "wait"} /\ cRunner = pRunner)
    <3>1. duration[cRunner] = Forever /\ Forever # 0
      BY <1>0, <2>3, <2>6, SteadyFacts DEF DurationsKept
    <3>2. cPC' = "select"
      BY <1>9, <3>1 DEF FinishRequest, GoneIdle, NextCompleted
    <3>3. pPC \in {"send", "wait"} => refCount'[pRunner] = refCount[pRunner]
      BY <1>0, <2>3, <2>4, <2>6 DEF TypeInv, PendingHand
    <3> QED BY <1>0, <2>1, <2>2, <3>2, <3>3 DEF OneExpiry, NoExpiry, Expirer, StillUsed, EventHeld,
         EventSent, Unloaded
  <2> QED BY <2>5, <2>6
<1>10. CASE ExpireFinished
  <2>1. pPC = "wait" /\ EventHeld
    BY <1>0, <1>10 DEF ExpireFinished, OneExpiry, NoExpiry, Expirer, StillUsed, EventSent, Unloaded
  <2>2. EventSent'
    BY <1>10, <2>1 DEF ExpireFinished, SendExpired, NextCompleted, EventHeld, EventSent, Expirer, pvars
  <2> QED BY <1>10, <2>1, <2>2 DEF ExpireFinished, OneExpiry, pvars
<1>11. CASE ReceiveExpired
  <2>1. pPC = "wait" /\ EventSent
    BY <1>0, <1>11 DEF ReceiveExpired, OneExpiry, NoExpiry, Expirer, StillUsed, EventHeld, Unloaded
  <2>2. Head(expiredCh) = pRunner /\ Tail(expiredCh) = <<>>
    <3>1. \A x : Head(<<x>>) = x /\ Tail(<<x>>) = <<>>
      OBVIOUS
    <3> QED BY <2>1, <3>1 DEF EventSent
  <2>3. EventHeld'
    BY <1>11, <2>1, <2>2 DEF ReceiveExpired, EventHeld, EventSent, pvars
  <2> QED BY <1>11, <2>1, <2>3 DEF ReceiveExpired, OneExpiry, pvars
<1>12. CASE ExpiredIdle
  <2>1. pPC = "wait" /\ EventHeld
    BY <1>0, <1>12 DEF ExpiredIdle, OneExpiry, NoExpiry, Expirer, StillUsed, EventSent, Unloaded
  <2>2. EventHeld'
    BY <1>12, <2>1 DEF ExpiredIdle, EventHeld, pvars, chans
  <2> QED BY <1>12, <2>1, <2>2 DEF ExpiredIdle, OneExpiry, pvars
<1>13. CASE Unload
  <2>1. Unloaded' /\ pPC' = "wait"
    BY <1>0, <1>13, UnloadHand DEF Unload, Unloaded, pvars, chans, TypeInv, TypeOK, LifeOK
  <2> QED BY <2>1 DEF OneExpiry
<1>14. CASE SendUnloaded
  <2>1. pPC = "wait" /\ Unloaded /\ unloadedCh = 0
    BY <1>0, <1>14 DEF SendUnloaded, OneExpiry, NoExpiry, Expirer, StillUsed, EventHeld, EventSent, Unloaded
  <2>2. Unloaded'
    BY <1>14, <2>1 DEF SendUnloaded, NextCompleted, Unloaded, Expirer, pvars
  <2> QED BY <1>14, <2>1, <2>2 DEF SendUnloaded, OneExpiry, pvars
<1>15. CASE \E q \in Requests : ContextDone(q) \/ SendFinished(q)
  BY <1>1, <1>15 DEF ContextDone, SendFinished, pvars, chans
<1>16. CASE \E r \in Runners : LoadSucceeds(r)
  BY <1>1, <1>16 DEF LoadSucceeds, pvars, chans
<1> QED BY <1>2, <1>3, <1>4, <1>5, <1>6, <1>7, <1>8, <1>9, <1>10, <1>11, <1>12, <1>13, <1>14, <1>15,
     <1>16, SteadySteps

-----------------------------------------------------------------------------
(* The live runners change only with these steps.                          *)
LEMMA OpenSteps ==
  ASSUME SteadyState, [Next]_vars
  PROVE  Load \/ Unload \/ UNCHANGED <<llama, info, loaded>>
<1> USE DEF maps, runners, life, refs
<1>1. Calm \/ UnloadCompleted \/ ReceiveFinished \/ LookupFinished \/ ReceiveExpired \/ SendUnloaded
        => UNCHANGED <<llama, info, loaded>>
  BY DEF Calm, UnloadCompleted, ReceiveFinished, LookupFinished, ReceiveExpired, SendUnloaded
<1>2. UseLoadedRunner \/ TriggerExpiration \/ SendExpiration => UNCHANGED <<llama, info, loaded>>
  BY DEF UseLoadedRunner, TriggerExpiration, ExpireNow, SendExpiration, SendExpired
<1>3. FinishRequest \/ ExpireFinished \/ ExpiredIdle => UNCHANGED <<llama, info, loaded>>
  BY DEF FinishRequest, ExpireFinished, SendExpired, ExpiredIdle
<1>4. (\E q \in Requests : ContextDone(q) \/ SendFinished(q)) => UNCHANGED <<llama, info, loaded>>
  BY DEF ContextDone, SendFinished
<1>5. (\E r \in Runners : LoadSucceeds(r)) => UNCHANGED <<llama, info, loaded>>
  BY DEF LoadSucceeds
<1> QED BY <1>1, <1>2, <1>3, <1>4, <1>5, SteadySteps

(* The map holds the live runners, each under the path of its model: the   *)
(* entry that Unload deletes is that of the runner it unloads.             *)
LEMMA MapExactStep ==
  ASSUME SteadyState, [Next]_vars
  PROVE  MapExact'
<1> USE DEF MapExact, Open
<1>0. MapExact /\ TypeInv
  BY SteadyFacts DEF SteadyState, SteadyInv
<1>1. CASE UNCHANGED <<llama, info, loaded>>
  BY <1>0, <1>1
<1>2. CASE Load
  <2>1. PICK r \in Runners : /\ llama[r] = "none"
                             /\ llama' = [llama EXCEPT ![r] = "open"]
                             /\ loaded' = [loaded EXCEPT ![PModel] = r]
                             /\ info' = [info EXCEPT ![r] = info'[r]]
                             /\ info'[r].modelPath = PModel /\ PModel \in Models
    BY <1>2, LoadHand
  <2>2. loaded[PModel] = NoRunner
    BY <1>2, SteadyFacts DEF Load, SlotFree, Placing
  <2>3. \A s \in Runners : info[s].modelPath \in Models
    BY <1>0 DEF TypeInv, TypeOK, LifeOK, RunnerInfo
  <2>4. \A s \in Runners : s # r => info'[s] = info[s] /\ llama'[s] = llama[s]
    BY <1>0, <2>1 DEF TypeInv, TypeOK, LifeOK
  <2>5. llama'[r] = "open"
    BY <1>0, <2>1 DEF TypeInv, TypeOK, LifeOK
  <2>6. \A m \in Models : loaded'[m] = IF m = PModel THEN r ELSE loaded[m]
    BY <1>0, <2>1 DEF TypeInv, TypeOK, LoadedOK
  <2>7. \A m \in Models : loaded[m] # NoRunner => loaded[m] \in Runners /\ loaded[m] # r
    BY <1>0, <2>1 DEF TypeInv, TypeOK, LoadedOK
  <2>8. \A s \in Runners : s # r /\ llama[s] = "open" => info[s].modelPath # PModel
    BY <1>0, <2>2, Numbers
  <2> QED BY <1>0, <2>1, <2>3, <2>4, <2>5, <2>6, <2>7, <2>8
<1>3. CASE Unload
  <2>1. cRunner \in Runners /\ llama[cRunner] = "open"
    BY <1>3, UnloadHand
  <2>2. /\ llama' = [llama EXCEPT ![cRunner] = "nil"] /\ info' = info
        /\ loaded' = [loaded EXCEPT ![info[cRunner].modelPath] = NoRunner]
    BY <1>3 DEF Unload
  <2>3. \A s \in Runners : info[s].modelPath \in Models
    BY <1>0 DEF TypeInv, TypeOK, LifeOK, RunnerInfo
  <2>4. \A s \in Runners : llama'[s] = IF s = cRunner THEN "nil" ELSE llama[s]
    BY <1>0, <2>2 DEF TypeInv, TypeOK, LifeOK
  <2>5. \A m \in Models : loaded'[m] = IF m = info[cRunner].modelPath THEN NoRunner ELSE loaded[m]
    BY <1>0, <2>2 DEF TypeInv, TypeOK, LoadedOK
  <2>6. \A m \in Models : loaded[m] # NoRunner => loaded[m] \in Runners
    BY <1>0 DEF TypeInv, TypeOK, LoadedOK
  <2> QED BY <1>0, <2>1, <2>2, <2>3, <2>4, <2>5, <2>6
<1> QED BY <1>1, <1>2, <1>3, OpenSteps

(* A live runner stays live, of the same model, unless it is the one that  *)
(* processPending waits to be unloaded and nobody uses it.                 *)
LEMMA OpenStays ==
  ASSUME SteadyState, [Next]_vars, NEW r \in Runners, Open(r),
         ~Unload \/ pPC # "wait" \/ r # pRunner
  PROVE  Open(r)' /\ info'[r] = info[r]
<1>1. CASE UNCHANGED <<llama, info, loaded>>
  BY <1>1 DEF Open
<1>2. CASE Load
  <2>1. PICK s \in Runners : /\ llama[s] = "none"
                             /\ llama' = [llama EXCEPT ![s] = "open"]
                             /\ info' = [info EXCEPT ![s] = info'[s]]
    BY <1>2, LoadHand
  <2> QED BY <2>1, SteadyFacts DEF Open, TypeInv, TypeOK, LifeOK
<1>3. CASE Unload
  <2>1. r # cRunner /\ cRunner \in Runners
    BY <1>3, UnloadHand
  <2> QED BY <1>3, <2>1, SteadyFacts DEF Unload, Open, TypeInv, TypeOK, LifeOK
<1> QED BY <1>1, <1>2, <1>3, OpenSteps

(* The model of a request that was made does not change.                   *)
LEMMA MadeKeepsOptions ==
  ASSUME SteadyState, [Next]_vars, NEW q \in Requests, q <= submitted
  PROVE  opts'[q] = opts[q] /\ q <= submitted'
<1>1. CASE GetRunner
  <2>1. PICK o : opts' = [opts EXCEPT ![submitted + 1] = o]
    BY <1>1 DEF GetRunner
  <2>2. submitted' = submitted + 1 /\ submitted \in Nat
    BY <1>1, SteadyFacts DEF GetRunner, TypeInv, TypeOK, RequestsOK
  <2> QED BY <2>1, <2>2, SteadyFacts DEF TypeInv, TypeOK, RequestsOK, Requests
<1> QED BY <1>1, ChoicesFrame

(* The runners that processPending has in hand are live: it takes them     *)
(* from the map, and none is unloaded before it waits for that.            *)
LEMMA PendingLiveStep ==
  ASSUME SteadyState, [Next]_vars
  PROVE  PendingLive'
<1>0. PendingLive /\ TypeInv /\ MapExact /\ OneExpiry
  BY SteadyFacts DEF SteadyState, SteadyInv, HandsLive
<1>1. CASE UNCHANGED pvars
  <2>1. ASSUME pPC \in {"check", "use", "scan", "expire"}
        PROVE  llama'[pRunner] = "open" /\ info'[pRunner] = info[pRunner] /\ PModel' = PModel
    <3>1. pRunner \in Runners /\ Open(pRunner) /\ pReq \in Requests
      BY <1>0, <2>1 DEF PendingLive, TypeInv, PendingHand
    <3>2. pPC # "wait"
      BY <2>1
    <3>3. opts'[pReq] = opts[pReq]
      BY <3>1, MadeKeepsOptions, SteadyFacts DEF Made
    <3> QED BY <1>1, <3>1, <3>2, <3>3, OpenStays DEF PModel, pvars, Open
  <2>2. ASSUME pPC = "scan", NEW i \in DOMAIN pList PROVE llama'[pList[i]] = "open"
    <3>1. pList[i] \in Runners /\ Open(pList[i])
      BY <1>0, <2>2 DEF PendingLive, TypeInv, TypeOK, PendingOK
    <3> QED BY <2>2, <3>1, OpenStays DEF Open
  <2>3. UNCHANGED <<pPC, pRunner, pList>>
    BY <1>1 DEF pvars, scan
  <2> QED BY <1>0, <2>1, <2>2, <2>3 DEF PendingLive, Open
<1>2. CASE Pending
  <2>1. CASE pPC' \notin {"check", "use", "scan", "expire"}
    BY <2>1 DEF PendingLive
  <2>2. CASE FoundLoaded
    <3>1. pReq \in Requests /\ PModel \in Models
      BY <1>0, <2>2, OptionsTypes DEF FoundLoaded, LookUp, TypeInv, TypeOK, PendingHand, PModel
    <3>2. pPC' = "check" /\ pRunner' = loaded[PModel] /\ loaded[PModel] # NoRunner
      BY <2>2 DEF FoundLoaded
    <3>3. UNCHANGED <<llama, info, pReq, opts>>
      BY <2>2 DEF FoundLoaded, reqs, runners, life
    <3> QED BY <1>0, <3>1, <3>2, <3>3 DEF PendingLive, PModel, MapExact, Open
  <2>3. CASE NeedsReload
    <3>1. UNCHANGED <<llama, info, pReq, opts, pRunner>> /\ pPC = "check" /\ pPC' \in {"expire", "use"}
      BY <2>3 DEF NeedsReload, reqs, runners, life
    <3> QED BY <1>0, <3>1 DEF PendingLive, PModel, Open
  <2>4. CASE FindRunnerToUnload
    <3>1. CASE LoadedRunners = {}
      BY <2>1, <2>4, <3>1 DEF FindRunnerToUnload
    <3>2. CASE LoadedRunners # {}
      <4>1. /\ pList' # <<>> /\ pList' \in Seq(Runners)
            /\ \A i \in DOMAIN pList' : pList'[i] \in LoadedRunners
        BY <1>0, <2>4, <3>2, ByDurationTypes DEF FindRunnerToUnload, TypeInv, TypeOK, ByDuration
      <4>2. \A r \in LoadedRunners : Open(r)
        BY <1>0 DEF LoadedRunners, MapExact
      <4>3. pList'[1] \in LoadedRunners
        BY <4>1
      <4>4. llama' = llama /\ pRunner' = pList'[1] /\ pPC' = "scan"
        BY <2>4, <3>2 DEF FindRunnerToUnload, runners, life
      <4> QED BY <4>1, <4>2, <4>3, <4>4, Zenon DEF Open, PendingLive
    <3> QED BY <3>1, <3>2
  <2>5. CASE ScanRunner
    <3>1. Head(pList) = pList[1] /\ 1 \in DOMAIN pList
      BY <1>0, <2>5 DEF ScanRunner, TypeInv, TypeOK, PendingHand, PendingOK
    <3>2. ASSUME NEW i \in DOMAIN Tail(pList)
          PROVE  Tail(pList)[i] = pList[i + 1] /\ i + 1 \in DOMAIN pList
      BY <1>0, <2>5 DEF ScanRunner, TypeInv, TypeOK, PendingHand, PendingOK
    <3>3. /\ Open(pRunner) /\ Open(Head(pList))
          /\ \A i \in DOMAIN Tail(pList) : Open(Tail(pList)[i])
      BY <1>0, <2>5, <3>1, <3>2 DEF ScanRunner, PendingLive
    <3> QED BY <2>5, <3>3 DEF ScanRunner, Open, runners, life, PendingLive
  <2>6. CASE IgnoreUnload \/ \E r \in Runners : SumRunner(r)
    BY <2>1, <2>6 DEF IgnoreUnload, SumRunner, pvars
  <2> QED BY <1>2, <2>1, <2>2, <2>3, <2>4, <2>5, <2>6 DEF Pending,
       ReceivePending, MaxRunnersAchieved, LoadModelFails, PlaceOnCpu,
       PlaceFirst, PlaceOn, PlaceAmongOthers, FilterGpus, UpdateFreeSpace,
       PickFit, DelayRequest, MakeRoom, UseLoadedRunner, NewServerFails, Load,
       NextPending, TriggerExpiration, SendExpiration, UnloadCompleted, StopPending
<1> QED BY <1>1, <1>2, CompletedFrame, OtherFrame DEF Next, Other, vars

(* So is the runner that a finished request is counted off.                *)
LEMMA FinishLiveStep ==
  ASSUME SteadyState, [Next]_vars
  PROVE  FinishLive'
<1>0. FinishLive /\ TypeInv /\ MapExact
  BY SteadyFacts DEF SteadyState, SteadyInv, HandsLive
<1>1. CASE UNCHANGED cvars
  <2>1. UNCHANGED <<cPC, cRunner>>
    BY <1>1 DEF cvars
  <2>2. ASSUME cPC = "finish" PROVE llama'[cRunner] = "open"
    <3>1. cRunner \in Runners /\ Open(cRunner) /\ ~Unload
      BY <1>0, <2>2 DEF FinishLive, TypeInv, CompletedHand, Unload
    <3> QED BY <3>1, OpenStays DEF Open
  <2> QED BY <2>1, <2>2 DEF FinishLive, Open
<1>2. CASE LookupFinished
  <2>1. opts[cReq].model \in Models
    BY <1>0, <1>2, OptionsTypes DEF LookupFinished, TypeInv, TypeOK, CompletedHand
  <2> QED BY <1>0, <1>2, <2>1 DEF LookupFinished, FinishLive, MapExact, Open, runners, life
<1>3. Completed => LookupFinished \/ cPC' # "finish"
  BY DEF Completed, ReceiveFinished, FinishRequest, GoneIdle, ExpireFinished, ReceiveExpired,
     ExpiredInUse, ExpiredIdle, Unload, SendUnloaded, StopCompleted, NextCompleted
<1> QED BY <1>1, <1>2, <1>3, PendingFrame, OtherFrame DEF Next, Other, vars, FinishLive

-----------------------------------------------------------------------------
(* A request is served, ...                                                *)
Serves(q, r) ==
  /\ q \in Requests /\ q <= submitted /\ answer[q] = "none" /\ ~Finishing(q)
  /\ r \in Runners /\ Open(r) /\ info[r].modelPath = opts[q].model
  /\ answer' = [answer EXCEPT ![q] = "runner"]
  /\ got' = [got EXCEPT ![q] = r]
  /\ task' = [task EXCEPT ![q] = "finish"]
  /\ UNCHANGED <<finishedReqCh, cvars, done>>

(* ... or every request that was served stays where it is.                 *)
SameFinishing ==
  /\ UNCHANGED <<finishedReqCh, cReq, got, done>>
  /\ cPC' = "finished" <=> cPC = "finished"
  /\ \A q \in Requests :
       /\ answer'[q] = "runner" <=> answer[q] = "runner"
       /\ task'[q] = "finish" <=> task[q] = "finish"

(* The requests that were served change only with these steps.             *)
LEMMA FinishSteps ==
  ASSUME SteadyState, [Next]_vars
  PROVE  \/ SameFinishing \/ (\E q \in Requests, r \in Runners : Serves(q, r))
         \/ (\E q \in Requests : ContextDone(q) \/ SendFinished(q))
         \/ ReceiveFinished \/ LookupFinished
<1> USE DEF SameFinishing, chans, reqs, replies, cvars
<1>0. FinishOnce
  BY DEF SteadyState, SteadyInv
<1>1. CASE Calm
  BY <1>1 DEF Calm
<1>2. CASE UseLoadedRunner
  <2>1. Serves(pReq, pRunner)
    BY <1>2, UseHand DEF UseLoadedRunner, Serve, Serves, PModel
  <2> QED BY <2>1, <1>2, UseHand
<1>3. CASE Load \/ TriggerExpiration \/ SendExpiration \/ UnloadCompleted
  BY <1>3 DEF Load, TriggerExpiration, ExpireNow, SendExpiration, SendExpired, UnloadCompleted
<1>4. CASE FinishRequest
  BY <1>0, <1>4 DEF FinishRequest, GoneIdle, NextCompleted, FinishOnce
<1>5. CASE ExpireFinished \/ SendUnloaded
  BY <1>0, <1>5 DEF ExpireFinished, SendExpired, SendUnloaded, NextCompleted, FinishOnce
<1>6. CASE ReceiveExpired \/ ExpiredIdle \/ Unload
  BY <1>6 DEF ReceiveExpired, ExpiredIdle, Unload
<1>7. ASSUME NEW r \in Runners, LoadSucceeds(r)
      PROVE  Serves(info[r].req, r) /\ info[r].req \in Requests
  BY <1>7, LoaderHand DEF LoadSucceeds, Serve, Serves
<1> QED BY <1>1, <1>2, <1>3, <1>4, <1>5, <1>6, <1>7, SteadySteps

(* The channel of finished requests after a send and before a receive.     *)
LEMMA FinishedSent ==
  ASSUME SteadyState
  PROVE  /\ \A q \in Requests : SendFinished(q) =>
              Sent(finishedReqCh') = Sent(finishedReqCh) \union {q}
         /\ ReceiveFinished =>
              /\ Head(finishedReqCh) \in Requests
              /\ Sent(finishedReqCh) = {Head(finishedReqCh)} \union Sent(finishedReqCh')
<1>1. finishedReqCh \in Seq(Requests)
  BY SteadyFacts DEF TypeInv, TypeOK, ChannelsOK
<1>2. ASSUME NEW q \in Requests, SendFinished(q)
      PROVE  Sent(finishedReqCh') = Sent(finishedReqCh) \union {q}
  BY <1>1, <1>2, SentAppend DEF SendFinished
<1>3. ASSUME ReceiveFinished
      PROVE  /\ Head(finishedReqCh) \in Requests
             /\ Sent(finishedReqCh) = {Head(finishedReqCh)} \union Sent(finishedReqCh')
  BY <1>1, <1>3, SentTail, ChannelTypes DEF ReceiveFinished
<1> QED BY <1>2, <1>3

(* A served request is in one place only.                                  *)
LEMMA FinishOnceStep ==
  ASSUME SteadyState, [Next]_vars
  PROVE  FinishOnce'
<1>0. FinishOnce /\ TypeInv /\ finishedReqCh \in Seq(Requests) /\ task \in [Requests -> {"none", "requeue", "finish"}]
  BY SteadyFacts DEF SteadyState, SteadyInv, TypeInv, TypeOK, ChannelsOK, RequestsOK
<1>1. CASE SameFinishing
  BY <1>0, <1>1 DEF SameFinishing, FinishOnce
<1>2. ASSUME NEW q \in Requests, NEW r \in Runners, Serves(q, r) PROVE FinishOnce'
  BY <1>0, <1>2 DEF Serves, FinishOnce, Finishing, cvars
<1>3. ASSUME NEW q \in Requests, ContextDone(q) PROVE FinishOnce'
  BY <1>0, <1>3 DEF ContextDone, FinishOnce, chans, cvars
<1>4. ASSUME NEW q \in Requests, SendFinished(q) PROVE FinishOnce'
  <2>1. /\ finishedReqCh' = Append(finishedReqCh, q) /\ task' = [task EXCEPT ![q] = "none"]
        /\ task[q] = "finish" /\ UNCHANGED cvars
    BY <1>4 DEF SendFinished
  <2>2. q \notin Sent(finishedReqCh) /\ cReq # q
    BY <1>0, <2>1 DEF FinishOnce
  <2>3. \A i, j \in DOMAIN finishedReqCh' : finishedReqCh'[i] = finishedReqCh'[j] => i = j
    BY <1>0, <2>1, <2>2, OnceAppended DEF FinishOnce
  <2>4. Sent(finishedReqCh') = Sent(finishedReqCh) \union {q}
    BY <1>4, FinishedSent
  <2> QED BY <1>0, <2>1, <2>2, <2>3, <2>4 DEF FinishOnce, cvars
<1>5. CASE ReceiveFinished
  <2>1. /\ finishedReqCh # <<>> /\ finishedReqCh' = Tail(finishedReqCh)
        /\ cReq' = Head(finishedReqCh) /\ cPC' = "finished" /\ UNCHANGED task
    BY <1>5 DEF ReceiveFinished, reqs
  <2>2. /\ \A i, j \in DOMAIN finishedReqCh' : finishedReqCh'[i] = finishedReqCh'[j] => i = j
        /\ cReq' \notin Sent(finishedReqCh')
    BY <1>0, <2>1, OnceReceived DEF FinishOnce
  <2>3. Sent(finishedReqCh) = {Head(finishedReqCh)} \union Sent(finishedReqCh')
    BY <1>5, FinishedSent
  <2> QED BY <1>0, <2>1, <2>2, <2>3 DEF FinishOnce
<1>6. CASE LookupFinished
  <2>1. NoRequest \notin Sent(finishedReqCh)
    BY <1>0, Numbers DEF Sent
  <2> QED BY <1>0, <1>6, <2>1, Numbers DEF LookupFinished, FinishOnce, reqs, chans
<1> QED BY <1>1, <1>2, <1>3, <1>4, <1>5, <1>6, FinishSteps

(* A request that finishes after a step was finishing or is served by it.  *)
LEMMA FinishingBefore ==
  ASSUME SteadyState, [Next]_vars, NEW q \in Requests, Finishing(q)'
  PROVE  \/ Finishing(q) /\ got'[q] = got[q] /\ answer'[q] = answer[q]
         \/ \E r \in Runners : Serves(q, r)
<1>0. TypeInv /\ task \in [Requests -> {"none", "requeue", "finish"}] /\ q # NoRequest
  BY SteadyFacts, Numbers DEF TypeInv, TypeOK, RequestsOK
<1>1. CASE SameFinishing
  <2>1. Finishing(q) /\ got'[q] = got[q]
    BY <1>1 DEF SameFinishing, Finishing
  <2>2. answer[q] = "runner"
    BY <2>1 DEF SteadyState, SteadyInv, ServedLive
  <2> QED BY <1>1, <2>1, <2>2 DEF SameFinishing
<1>2. ASSUME NEW s \in Requests, NEW r \in Runners, Serves(s, r), s # q
      PROVE  Finishing(q) /\ got'[q] = got[q] /\ answer'[q] = answer[q]
  BY <1>0, <1>2 DEF Serves, Finishing, cvars, TypeInv, TypeOK, RequestsOK
<1>3. ASSUME NEW s \in Requests, ContextDone(s)
      PROVE  Finishing(q) /\ got'[q] = got[q] /\ answer'[q] = answer[q]
  BY <1>3 DEF ContextDone, Finishing, chans, cvars, replies
<1>4. ASSUME NEW s \in Requests, SendFinished(s)
      PROVE  Finishing(q) /\ got'[q] = got[q] /\ answer'[q] = answer[q]
  <2>1. Sent(finishedReqCh') = Sent(finishedReqCh) \union {s}
    BY <1>4, FinishedSent
  <2> QED BY <1>0, <1>4, <2>1 DEF SendFinished, Finishing, cvars, replies
<1>5. CASE ReceiveFinished
  <2>1. Sent(finishedReqCh) = {Head(finishedReqCh)} \union Sent(finishedReqCh')
    BY <1>5, FinishedSent
  <2> QED BY <1>5, <2>1 DEF ReceiveFinished, Finishing, reqs, replies
<1>6. CASE LookupFinished
  BY <1>0, <1>6 DEF LookupFinished, Finishing, reqs, replies, chans
<1> QED BY <1>1, <1>2, <1>3, <1>4, <1>5, <1>6, FinishSteps

(* No live runner is unloaded while a served request counts for it.        *)
LEMMA UsedStays ==
  ASSUME SteadyState, NEW q \in Requests, Finishing(q), Unload
  PROVE  got[q] # pRunner
<1>1. /\ pPC = "wait" /\ cPC = "unload" /\ pRunner \in Runners /\ Open(pRunner)
      /\ refCount[pRunner] = 0 /\ refMu[pRunner] = "completed"
  BY UnloadHand DEF Unload
<1>2. SUFFICES ASSUME got[q] = pRunner PROVE FALSE
  OBVIOUS
<1>3. q \in Users(pRunner) /\ IsFiniteSet(Users(pRunner))
  <2>1. IsFiniteSet(Requests) /\ Users(pRunner) \subseteq Requests
    BY SchedulerAssumption, FS_Interval DEF Requests, Users
  <2> QED BY <1>2, <2>1, FS_Subset DEF Users, Finishing
<1>4. Cardinality(Users(pRunner)) = 0
  <2>1. Cardinality(Users(pRunner)) \in Nat
    BY <1>3, FS_CardinalityType
  <2>2. refCount[pRunner] = Cardinality(Users(pRunner)) + 0 + 0
    BY <1>1, <2>1 DEF SteadyState, SteadyInv, RefCountExact, Open
  <2> QED BY <1>1, <2>1, <2>2
<1> QED BY <1>3, <1>4, FS_EmptySet

(* A served request uses a live runner of its model.                       *)
LEMMA ServedLiveStep ==
  ASSUME SteadyState, [Next]_vars
  PROVE  ServedLive'
<1>0. ServedLive /\ TypeInv /\ answer \in [Requests -> {"none", "runner", "error"}]
      /\ got \in [Requests -> Runners \union {NoRunner}]
  BY SteadyFacts DEF SteadyState, SteadyInv, TypeInv, TypeOK, RequestsOK
<1> SUFFICES ASSUME NEW q \in Requests, Finishing(q)'
             PROVE  /\ answer'[q] = "runner" /\ got'[q] \in Runners
                    /\ llama'[got'[q]] = "open" /\ info'[got'[q]].modelPath = opts'[q].model
  BY DEF ServedLive, Open
<1>1. CASE Finishing(q) /\ got'[q] = got[q] /\ answer'[q] = answer[q]
  <2>1. /\ answer[q] = "runner" /\ got[q] \in Runners
        /\ Open(got[q]) /\ info[got[q]].modelPath = opts[q].model
    BY <1>0, <1>1 DEF ServedLive
  <2>2. q <= submitted
    <3>1. ~(q > submitted)
      BY <2>1, SteadyFacts DEF HeldInv, Fresh
    <3> QED BY <1>0, <3>1 DEF TypeInv, TypeOK, RequestsOK, Requests
  <2>3. opts'[q] = opts[q]
    BY <2>2, MadeKeepsOptions
  <2>4. ~Unload \/ got[q] # pRunner
    BY <1>1, UsedStays
  <2>5. Open(got[q])' /\ info'[got[q]] = info[got[q]]
    <3>1. PICK r \in Runners : r = got[q]
      BY <2>1
    <3>2. Open(r)' /\ info'[r] = info[r]
      BY <2>1, <2>4, <3>1, OpenStays
    <3>3. llama'[r] = "open"
      BY <3>2 DEF Open
    <3> QED BY <1>1, <3>1, <3>2, <3>3 DEF Open
  <2> QED BY <1>1, <2>1, <2>3, <2>5 DEF Open
<1>2. ASSUME NEW r \in Runners, Serves(q, r)
      PROVE  /\ answer'[q] = "runner" /\ got'[q] \in Runners
             /\ llama'[got'[q]] = "open" /\ info'[got'[q]].modelPath = opts'[q].model
  <2>1. answer'[q] = "runner" /\ got'[q] = r
    BY <1>0, <1>2 DEF Serves
  <2>2. ~Unload
    BY <1>0, <1>2, <2>1 DEF Serves, Unload, reqs, replies
  <2>3. Open(r)' /\ info'[r] = info[r]
    BY <1>2, <2>2, OpenStays DEF Serves
  <2>4. opts'[q] = opts[q]
    BY <1>2, MadeKeepsOptions DEF Serves
  <2> QED BY <1>2, <2>1, <2>3, <2>4 DEF Serves, Open
<1> QED BY <1>1, <1>2, FinishingBefore

(* A request with a runner whose client is still there is being served,    *)
(* and only the contexts of served requests are cancelled.                 *)
LEMMA InUseStep ==
  ASSUME SteadyState, [Next]_vars
  PROVE  InUse' /\ DoneServed'
<1>0. InUse /\ DoneServed /\ TypeInv
      /\ answer \in [Requests -> {"none", "runner", "error"}] /\ done \in [Requests -> BOOLEAN]
      /\ task \in [Requests -> {"none", "requeue", "finish"}]
  BY SteadyFacts DEF SteadyState, SteadyInv, TypeInv, TypeOK, RequestsOK
<1> USE DEF InUse, DoneServed
<1>1. CASE SameFinishing
  BY <1>0, <1>1 DEF SameFinishing
<1>2. ASSUME NEW q \in Requests, NEW r \in Runners, Serves(q, r) PROVE InUse' /\ DoneServed'
  BY <1>0, <1>2 DEF Serves
<1>3. ASSUME NEW q \in Requests, ContextDone(q) PROVE InUse' /\ DoneServed'
  <2>1. answer[q] = "runner"
    BY <1>3 DEF ContextDone, SteadyState, Steady, SteadyInv, NoStops
  <2>2. done' = [done EXCEPT ![q] = TRUE] /\ UNCHANGED <<answer, task>>
    BY <1>3 DEF ContextDone, replies
  <2> QED BY <1>0, <2>1, <2>2
<1>4. ASSUME NEW q \in Requests, SendFinished(q) PROVE InUse' /\ DoneServed'
  <2>1. done[q] /\ task' = [task EXCEPT ![q] = "none"] /\ UNCHANGED <<answer, done>>
    BY <1>4 DEF SendFinished, replies
  <2> QED BY <1>0, <2>1
<1>5. CASE ReceiveFinished \/ LookupFinished
  BY <1>0, <1>5 DEF ReceiveFinished, LookupFinished, reqs, replies
<1> QED BY <1>1, <1>2, <1>3, <1>4, <1>5, FinishSteps

(* A runner is loaded for a request of its model.                          *)
LEMMA LoadersLiveStep ==
  ASSUME SteadyState, [Next]_vars
  PROVE  LoadersLive'
<1>0. LoadersLive /\ TypeInv /\ refMu \in [Runners -> RefMuOwners]
  BY SteadyFacts DEF SteadyState, SteadyInv, TypeInv, TypeOK, RefsOK
<1> SUFFICES ASSUME NEW r \in Runners, refMu'[r] = "loader"
             PROVE  llama'[r] = "open" /\ info'[r].modelPath = opts'[info'[r].req].model
  BY DEF LoadersLive, Open
<1>1. CASE refMu[r] = "loader"
  <2>1. /\ info[r].req \in Requests /\ info[r].req <= submitted
        /\ Open(r) /\ info[r].modelPath = opts[info[r].req].model
    BY <1>1, LoaderHand
  <2>2. ~Unload \/ r # pRunner
    BY <1>1, UnloadHand
  <2>3. Open(r)' /\ info'[r] = info[r]
    BY <2>1, <2>2, OpenStays
  <2>4. PICK q \in Requests : q = info[r].req
    BY <2>1
  <2>5. opts'[q] = opts[q]
    BY <2>1, <2>4, MadeKeepsOptions
  <2> QED BY <2>1, <2>3, <2>4, <2>5 DEF Open
<1>2. CASE refMu[r] # "loader"
  <2>1. Load
    <3> USE DEF runners, RefMuOwners
    <3>1. Calm \/ UnloadCompleted \/ ReceiveFinished \/ LookupFinished \/ ReceiveExpired \/ SendUnloaded
            => UNCHANGED refMu
      BY DEF Calm, UnloadCompleted, ReceiveFinished, LookupFinished, ReceiveExpired, SendUnloaded
    <3>2. (\E q \in Requests : ContextDone(q) \/ SendFinished(q)) => UNCHANGED refMu
      BY DEF ContextDone, SendFinished
    <3>3. ~UseLoadedRunner /\ ~TriggerExpiration /\ ~SendExpiration
      BY <1>0, <1>2 DEF UseLoadedRunner, TriggerExpiration, ExpireNow, SendExpiration, SendExpired
    <3>4. ~FinishRequest /\ ~ExpireFinished /\ ~ExpiredIdle /\ ~Unload
      BY <1>0, <1>2 DEF FinishRequest, GoneIdle, ExpireFinished, SendExpired, ExpiredIdle, Unload
    <3>5. ~\E s \in Runners : LoadSucceeds(s)
      BY <1>0, <1>2 DEF LoadSucceeds
    <3> QED BY <1>2, <3>1, <3>2, <3>3, <3>4, <3>5, SteadySteps
  <2>2. PICK s \in Runners : /\ llama' = [llama EXCEPT ![s] = "open"]
                             /\ refMu' = [refMu EXCEPT ![s] = "loader"]
                             /\ info'[s].req = pReq /\ info'[s].modelPath = PModel
    BY <2>1, LoadHand
  <2>3. s = r
    BY <1>0, <1>2, <2>2
  <2>4. UNCHANGED opts
    BY <2>1 DEF Load, reqs
  <2> QED BY <1>0, <2>2, <2>3, <2>4 DEF PModel, TypeInv, TypeOK, LifeOK
<1> QED BY <1>1, <1>2

-----------------------------------------------------------------------------
(* The users of a runner are finitely many requests.                       *)
LEMMA UsersFinite ==
  ASSUME NEW r \in Runners
  PROVE  /\ Users(r) \subseteq Requests /\ IsFiniteSet(Users(r)) /\ Cardinality(Users(r)) \in Nat
<1>1. IsFiniteSet(Requests) /\ Users(r) \subseteq Requests
  BY SchedulerAssumption, FS_Interval DEF Requests, Users
<1> QED BY <1>1, FS_Subset, FS_CardinalityType

(* Requests that finish are users until they are looked up ...             *)
LEMMA UsersStay ==
  ASSUME SteadyState, [Next]_vars,
         \/ SameFinishing \/ ReceiveFinished
         \/ \E q \in Requests : ContextDone(q) \/ SendFinished(q)
  PROVE  \A r \in Runners : Users(r)' = Users(r)
<1>0. task \in [Requests -> {"none", "requeue", "finish"}] /\ cPC # "finished" => cReq = NoRequest
  BY SteadyFacts DEF TypeInv, TypeOK, RequestsOK, SteadyState, SteadyInv, FinishOnce
<1>1. CASE SameFinishing
  BY <1>1 DEF SameFinishing, Users
<1>2. CASE ReceiveFinished
  <2>1. Sent(finishedReqCh) = {Head(finishedReqCh)} \union Sent(finishedReqCh')
    BY <1>2, FinishedSent
  <2>2. cReq = NoRequest
    BY <1>0, <1>2 DEF ReceiveFinished, SteadyState, SteadyInv, FinishOnce
  <2> QED BY <1>2, <2>1, <2>2, Numbers DEF ReceiveFinished, Users, reqs, replies
<1>3. ASSUME NEW q \in Requests, ContextDone(q) PROVE \A r \in Runners : Users(r)' = Users(r)
  BY <1>3 DEF ContextDone, Users, chans, cvars, replies
<1>4. ASSUME NEW q \in Requests, SendFinished(q) PROVE \A r \in Runners : Users(r)' = Users(r)
  <2>1. Sent(finishedReqCh') = Sent(finishedReqCh) \union {q}
    BY <1>4, FinishedSent
  <2>2. \A s \in Requests : task'[s] = IF s = q THEN "none" ELSE task[s]
    BY <1>4, SteadyFacts DEF SendFinished, TypeInv, TypeOK, RequestsOK
  <2> QED BY <1>4, <2>1, <2>2 DEF SendFinished, Users, cvars, replies
<1> QED BY <1>1, <1>2, <1>3, <1>4

(* ... a request that is served becomes one ...                            *)
LEMMA UsersServed ==
  ASSUME SteadyState, NEW q \in Requests, NEW r \in Runners, Serves(q, r)
  PROVE  /\ Users(r)' = Users(r) \union {q} /\ q \notin Users(r)
         /\ \A s \in Runners : s # r => Users(s)' = Users(s)
         /\ Cardinality(Users(r)') = Cardinality(Users(r)) + 1
         /\ Cardinality(Users(r)) < MaxRequests
<1>0. /\ task \in [Requests -> {"none", "requeue", "finish"}]
      /\ got \in [Requests -> Runners \union {NoRunner}]
  BY SteadyFacts DEF TypeInv, TypeOK, RequestsOK
<1>1. \A s \in Requests : /\ task'[s] = IF s = q THEN "finish" ELSE task[s]
                          /\ got'[s] = IF s = q THEN r ELSE got[s]
  BY <1>0 DEF Serves
<1>2. UNCHANGED <<finishedReqCh, cReq>> /\ ~Finishing(q)
  BY DEF Serves, cvars
<1>3. \A s \in Runners : q \notin Users(s)
  BY <1>2 DEF Users, Finishing
<1>4. Users(r)' = Users(r) \union {q}
  BY <1>1, <1>2 DEF Users
<1>5. \A s \in Runners : s # r => Users(s)' = Users(s)
  BY <1>1, <1>2, <1>3 DEF Users, Finishing
<1>6. Cardinality(Users(r) \union {q}) = Cardinality(Users(r)) + 1
  BY <1>3, UsersFinite, FS_AddElement
<1>7. Cardinality(Users(r)) < MaxRequests
  <2>1. Users(r) \union {q} \subseteq Requests
    BY UsersFinite
  <2>2. IsFiniteSet(Requests) /\ Cardinality(Requests) = MaxRequests
    BY SchedulerAssumption, FS_Interval DEF Requests
  <2>3. Cardinality(Users(r) \union {q}) <= MaxRequests
    BY <2>1, <2>2, FS_Subset
  <2> QED BY <1>6, <2>3, UsersFinite, SchedulerAssumption
<1> QED BY <1>3, <1>4, <1>5, <1>6, <1>7

(* ... and one that is looked up is counted off the runner it used.        *)
LEMMA UsersLookedUp ==
  ASSUME SteadyState, LookupFinished
  PROVE  \E r \in Runners :
           /\ cRunner' = r /\ cPC' = "finish"
           /\ \A s \in Runners : s # r => Users(s)' = Users(s)
           /\ Cardinality(Users(r)') = Cardinality(Users(r)) - 1
<1>1. PICK q \in Requests : q = cReq
  BY SteadyFacts DEF LookupFinished, TypeInv, CompletedHand
<1>2. Finishing(q)
  BY <1>1 DEF Finishing
<1>3. PICK r \in Runners : r = got[q]
  BY <1>2 DEF SteadyState, SteadyInv, ServedLive
<1>4. Open(r) /\ info[r].modelPath = opts[q].model
  BY <1>2, <1>3 DEF SteadyState, SteadyInv, ServedLive
<1>5. loaded[opts[q].model] = r
  BY <1>4 DEF SteadyState, SteadyInv, MapExact
<1>6. cRunner' = r /\ cPC' = "finish" /\ cReq' = NoRequest /\ UNCHANGED <<finishedReqCh, task, got>>
  BY <1>1, <1>5, Numbers DEF LookupFinished, chans, reqs, replies
<1>7. task[q] # "finish" /\ q \notin Sent(finishedReqCh)
  BY <1>1 DEF SteadyState, SteadyInv, FinishOnce
<1>8. \A s \in Runners : s # r => Users(s)' = Users(s)
  BY <1>1, <1>3, <1>6, Numbers DEF Users
<1>9. Users(r)' = Users(r) \ {q} /\ q \in Users(r)
  BY <1>1, <1>3, <1>6, <1>7, Numbers DEF Users
<1>10. Cardinality(Users(r) \ {q}) = Cardinality(Users(r)) - 1
  BY <1>9, UsersFinite, FS_RemoveElement
<1> QED BY <1>6, <1>8, <1>9, <1>10

(* refCount: a runner's users, the one it is loaded for, and the one that  *)
(* processCompleted is counting off.                                       *)
Loading(r) == IF refMu[r] = "loader" THEN 1 ELSE 0
CountedOff(r) == IF cPC = "finish" /\ cRunner = r THEN 1 ELSE 0
Exact(r) == refCount[r] = Cardinality(Users(r)) + Loading(r) + CountedOff(r)

(* A step that leaves the users, the mutex and the count of a live runner  *)
(* alone keeps its count exact.                                            *)
LEMMA ExactStays ==
  ASSUME NEW r \in Runners, Exact(r), Users(r)' = Users(r), refCount'[r] = refCount[r],
         refMu'[r] = "loader" <=> refMu[r] = "loader",
         cPC' = "finish" /\ cRunner' = r <=> cPC = "finish" /\ cRunner = r
  PROVE  Exact(r)'
BY DEF Exact, Loading, CountedOff

(* refCount is exact after every step.                                     *)
LEMMA RefCountStep ==
  ASSUME SteadyState, [Next]_vars
  PROVE  RefCountExact'
<1>0. /\ TypeInv /\ refCount \in [Runners -> 0 .. RefMod - 1] /\ refMu \in [Runners -> RefMuOwners]
      /\ llama \in [Runners -> {"none", "open", "closed", "nil"}] /\ RefMod \in Nat
  BY SteadyFacts, SchedulerAssumption DEF TypeInv, TypeOK, RefsOK, LifeOK
<1> USE DEF Open
<1> SUFFICES ASSUME NEW r \in Runners, llama'[r] = "open" PROVE Exact(r)'
  BY DEF RefCountExact, Exact, Loading, CountedOff
<1>1. llama[r] = "open" => Exact(r)
  BY DEF SteadyState, SteadyInv, RefCountExact, Exact, Loading, CountedOff
<1>2. Cardinality(Users(r)) \in Nat
  BY UsersFinite
<1>3. ASSUME ~Load PROVE llama[r] = "open"
  BY <1>0, <1>3, OpenSteps DEF Unload
<1>4. ASSUME ~Load, Users(r)' = Users(r), UNCHANGED <<refCount, refMu, cPC, cRunner>>
      PROVE  Exact(r)'
  BY <1>1, <1>3, <1>4, ExactStays
<1>5. ASSUME SameFinishing PROVE Users(r)' = Users(r)
  BY <1>5, UsersStay
<1>6. CASE Calm
  <2>1. SameFinishing /\ ~Load
    BY <1>0, <1>6 DEF Calm, SameFinishing, cvars, Load, runners, life
  <2> QED BY <1>4, <1>5, <1>6, <2>1 DEF Calm, runners, refs, cvars
<1>7. CASE TriggerExpiration
  <2>1. SameFinishing /\ ~Load
    BY <1>7 DEF TriggerExpiration, ExpireNow, SameFinishing, chans, cvars, reqs, replies, Load
  <2>2. UNCHANGED <<refCount, cPC, cRunner>> /\ (refMu'[r] = "loader" <=> refMu[r] = "loader")
    BY <1>0, <1>7 DEF TriggerExpiration, ExpireNow, Unlocked, refs, cvars
  <2> QED BY <1>1, <1>3, <1>5, <2>1, <2>2, ExactStays
<1>8. CASE SendExpiration
  <2>1. SameFinishing /\ ~Load
    BY <1>8 DEF SendExpiration, SendExpired, SameFinishing, cvars, reqs, replies, Load
  <2>2. UNCHANGED <<refCount, cPC, cRunner>> /\ (refMu'[r] = "loader" <=> refMu[r] = "loader")
    BY <1>0, <1>8, SteadyFacts DEF SendExpiration, SendExpired, PendingLock, refs, cvars
  <2> QED BY <1>1, <1>3, <1>5, <2>1, <2>2, ExactStays
<1>9. CASE UnloadCompleted
  <2>1. SameFinishing /\ ~Load
    BY <1>9 DEF UnloadCompleted, SameFinishing, cvars, reqs, replies, Load
  <2> QED BY <1>4, <1>5, <1>9, <2>1 DEF UnloadCompleted, runners, refs, cvars
<1>10. CASE ReceiveFinished
  <2>1. Users(r)' = Users(r) /\ ~Load
    BY <1>0, <1>10, UsersStay DEF ReceiveFinished, Load, runners, life
  <2>2. UNCHANGED <<refCount, refMu, cRunner>> /\ cPC # "finish" /\ cPC' # "finish"
    BY <1>10 DEF ReceiveFinished, runners, refs
  <2> QED BY <1>1, <1>3, <2>1, <2>2, ExactStays
<1>11. CASE ExpireFinished
  <2>0. ~Load
    BY <1>11 DEF ExpireFinished, NextCompleted, Load, cvars
  <2>1. SameFinishing /\ ~Load
    BY <1>11, <2>0 DEF ExpireFinished, SendExpired, NextCompleted, SameFinishing, reqs, replies,
       SteadyState, SteadyInv, FinishOnce
  <2>2. UNCHANGED refCount /\ cPC # "finish" /\ cPC' # "finish" /\ (refMu'[r] = "loader" <=> refMu[r] = "loader")
    BY <1>0, <1>11, SteadyFacts DEF ExpireFinished, SendExpired, NextCompleted, CompletedLock, refs
  <2> QED BY <1>1, <1>3, <1>5, <2>1, <2>2, ExactStays
<1>12. CASE ReceiveExpired \/ SendUnloaded
  <2>0. ~Load
    BY <1>12 DEF ReceiveExpired, SendUnloaded, NextCompleted, Load, cvars
  <2>1. SameFinishing /\ ~Load
    BY <1>12, <2>0 DEF ReceiveExpired, SendUnloaded, NextCompleted, SameFinishing, reqs, replies,
       SteadyState, SteadyInv, FinishOnce
  <2>2. UNCHANGED <<refCount, refMu>> /\ cPC # "finish" /\ cPC' # "finish"
    BY <1>12 DEF ReceiveExpired, SendUnloaded, NextCompleted, runners, refs
  <2> QED BY <1>1, <1>3, <1>5, <2>1, <2>2, ExactStays
<1>13. CASE ExpiredIdle \/ Unload
  <2>0. ~Load
    BY <1>13 DEF ExpiredIdle, Unload, Load, cvars
  <2>1. SameFinishing /\ ~Load
    BY <1>13, <2>0 DEF ExpiredIdle, Unload, SameFinishing, reqs, replies, chans
  <2>2. UNCHANGED refCount /\ cPC # "finish" /\ cPC' # "finish" /\ (refMu'[r] = "loader" <=> refMu[r] = "loader")
    BY <1>0, <1>13, SteadyFacts DEF ExpiredIdle, Unload, Unlocked, CompletedLock, refs
  <2> QED BY <1>1, <1>3, <1>5, <2>1, <2>2, ExactStays
<1>14. ASSUME NEW q \in Requests, ContextDone(q) \/ SendFinished(q) PROVE Exact(r)'
  <2>1. Users(r)' = Users(r)
    BY <1>14, UsersStay
  <2>2. UNCHANGED <<refCount, refMu, cPC, cRunner, llama>>
    BY <1>14 DEF ContextDone, SendFinished, runners, refs, cvars, life
  <2> QED BY <1>1, <2>1, <2>2, ExactStays
<1>15. CASE LookupFinished
  <2>1. PICK s \in Runners : /\ cRunner' = s /\ cPC' = "finish"
                             /\ \A t \in Runners : t # s => Users(t)' = Users(t)
                             /\ Cardinality(Users(s)') = Cardinality(Users(s)) - 1
    BY <1>15, UsersLookedUp
  <2>2. UNCHANGED <<refCount, refMu, llama>> /\ cPC # "finish"
    BY <1>15 DEF LookupFinished, runners, refs, life
  <2>3. CASE s = r
    BY <1>1, <1>2, <2>1, <2>2, <2>3 DEF Exact, Loading, CountedOff
  <2>4. CASE s # r
    BY <1>1, <2>1, <2>2, <2>4, ExactStays
  <2> QED BY <2>3, <2>4
<1>16. CASE FinishRequest
  <2>1. /\ cRunner \in Runners /\ refMu[cRunner] = "free"
        /\ refCount[cRunner] \in 1 .. RefMod - 1 /\ refCount' = [refCount EXCEPT ![cRunner] = @ - 1]
    BY <1>16, FinishHand
  <2>2. cPC = "finish" /\ cPC' # "finish" /\ (refMu'[r] = "loader" <=> refMu[r] = "loader") /\ UNCHANGED llama
    BY <1>0, <1>16, <2>1 DEF FinishRequest, GoneIdle, NextCompleted, life
  <2>3. SameFinishing
    BY <1>16 DEF FinishRequest, GoneIdle, NextCompleted, SameFinishing, reqs, replies, chans,
       SteadyState, SteadyInv, FinishOnce
  <2>4. Users(r)' = Users(r)
    BY <1>5, <2>3
  <2>5. CASE cRunner = r
    BY <1>0, <1>1, <1>2, <2>1, <2>2, <2>4, <2>5 DEF Exact, Loading, CountedOff
  <2>6. CASE cRunner # r
    BY <1>0, <1>1, <2>1, <2>2, <2>4, <2>6, ExactStays
  <2> QED BY <2>5, <2>6
<1>17. CASE UseLoadedRunner
  <2>1. PICK q \in Requests : q = pReq
    BY <1>17, UseHand
  <2>2. PICK s \in Runners : s = pRunner
    BY <1>17, UseHand
  <2>3. Serves(q, s)
    BY <1>17, <2>1, <2>2, UseHand DEF UseLoadedRunner, Serve, Serves, PModel, chans
  <2>4. /\ \A t \in Runners : t # s => Users(t)' = Users(t)
        /\ Cardinality(Users(s)') = Cardinality(Users(s)) + 1 /\ Cardinality(Users(s)) < MaxRequests
    BY <2>3, UsersServed
  <2>5. UNCHANGED <<refMu, cPC, cRunner, llama>> /\ refMu[s] = "free" /\ refCount' = [refCount EXCEPT ![s] = Inc(@)]
    BY <1>17, <2>2 DEF UseLoadedRunner, Unlocked, life, cvars
  <2>6. CASE s = r
    <3>1. refCount[r] = Cardinality(Users(r)) + CountedOff(r) /\ CountedOff(r) \in {0, 1}
      BY <1>1, <1>2, <2>5, <2>6 DEF Exact, Loading, CountedOff
    <3>2. refCount[r] # RefMod - 1
      BY <1>0, <1>2, <2>4, <2>6, <3>1, SchedulerAssumption DEF SteadyState, Steady
    <3>3. refCount'[r] = refCount[r] + 1
      BY <1>0, <2>5, <2>6, <3>2 DEF Inc
    <3> QED BY <1>2, <2>4, <2>5, <2>6, <3>1, <3>3 DEF Exact, Loading, CountedOff
  <2>7. CASE s # r
    BY <1>0, <1>1, <2>4, <2>5, <2>7, ExactStays
  <2> QED BY <2>6, <2>7
<1>18. ASSUME NEW s \in Runners, LoadSucceeds(s) PROVE Exact(r)'
  <2>1. refMu[s] = "loader"
    BY <1>18 DEF LoadSucceeds
  <2>2. PICK q \in Requests : q = info[s].req
    BY <2>1, LoaderHand
  <2>3. Serves(q, s)
    BY <1>18, <2>1, <2>2, LoaderHand DEF LoadSucceeds, Serve, Serves, chans
  <2>4. /\ \A t \in Runners : t # s => Users(t)' = Users(t)
        /\ Cardinality(Users(s)') = Cardinality(Users(s)) + 1
    BY <2>3, UsersServed
  <2>5. UNCHANGED <<refCount, cPC, cRunner, llama>> /\ refMu' = [refMu EXCEPT ![s] = "free"]
    BY <1>18 DEF LoadSucceeds, refs, cvars
  <2>6. CASE s = r
    BY <1>0, <1>1, <1>2, <2>1, <2>4, <2>5, <2>6 DEF Exact, Loading, CountedOff
  <2>7. CASE s # r
    BY <1>0, <1>1, <2>4, <2>5, <2>7, ExactStays
  <2> QED BY <2>6, <2>7
<1>19. CASE Load
  <2>1. PICK s \in Runners : /\ llama[s] = "none"
                             /\ llama' = [llama EXCEPT ![s] = "open"]
                             /\ refMu' = [refMu EXCEPT ![s] = "loader"]
                             /\ refCount' = [refCount EXCEPT ![s] = 1]
    BY <1>19, LoadHand
  <2>2. SameFinishing /\ UNCHANGED <<cPC, cRunner>>
    BY <1>19 DEF Load, SameFinishing, chans, cvars, reqs, replies
  <2>3. Users(r)' = Users(r)
    BY <1>5, <2>2
  <2>4. CASE s = r
    <3>1. Users(r) = {}
      BY <2>1, <2>4 DEF Users, SteadyState, SteadyInv, ServedLive, Finishing
    <3>2. Cardinality(Users(r)) = 0
      BY <3>1, FS_EmptySet
    <3>3. ~(cPC = "finish" /\ cRunner = r)
      BY <2>1, <2>4 DEF SteadyState, SteadyInv, HandsLive, FinishLive
    <3> QED BY <1>0, <2>1, <2>2, <2>3, <2>4, <3>2, <3>3 DEF Exact, Loading, CountedOff
  <2>5. CASE s # r
    BY <1>0, <1>1, <2>1, <2>2, <2>3, <2>5, ExactStays
  <2> QED BY <2>4, <2>5
<1> QED BY <1>6, <1>7, <1>8, <1>9, <1>10, <1>11, <1>12, <1>13, <1>14, <1>15, <1>16, <1>17, <1>18, <1>19,
     SteadySteps

-----------------------------------------------------------------------------
(* The number of runners: a step either leaves the map and its limit alone *)
(* and places no new request, or finds room for one, or loads or unloads.  *)
Settled == UNCHANGED <<loaded, maxRunners>> /\ (Placing' => Placing)
RoomFound == Room /\ SetMaxRunners /\ UNCHANGED loaded

LEMMA RoomSteps ==
  ASSUME SteadyState, [Next]_vars
  PROVE  Settled \/ RoomFound \/ Load \/ Unload
<1> USE DEF Settled, Placing, maps, pvars
<1>1. ASSUME UNCHANGED vars PROVE Settled
  BY <1>1 DEF vars
<1>2. ASSUME Pending PROVE Settled \/ RoomFound \/ Load
  <2>1. CASE LoadModelFails \/ PlaceAmongOthers
    BY <2>1 DEF LoadModelFails, PlaceAmongOthers, RoomFound
  <2>2. CASE PlaceOnCpu \/ PlaceFirst
    BY <2>2 DEF PlaceOnCpu, PlaceFirst, PlaceOn, RoomFound
  <2>3. CASE ReceivePending \/ IgnoreUnload \/ FoundLoaded \/ MaxRunnersAchieved
    BY <2>3 DEF ReceivePending, IgnoreUnload, FoundLoaded, MaxRunnersAchieved
  <2>4. CASE FilterGpus \/ UpdateFreeSpace \/ \E r \in Runners : SumRunner(r)
    BY <2>4 DEF FilterGpus, UpdateFreeSpace, SumRunner
  <2>5. CASE PickFit
    BY <2>5 DEF PickFit, PlaceOn, Summed
  <2>6. CASE DelayRequest \/ MakeRoom
    BY <2>6 DEF DelayRequest, MakeRoom, NoFit, NextPending
  <2>7. CASE NeedsReload \/ UseLoadedRunner
    BY <2>7 DEF NeedsReload, UseLoadedRunner, NextPending
  <2>8. CASE FindRunnerToUnload \/ ScanRunner
    BY <2>8 DEF FindRunnerToUnload, ScanRunner
  <2>9. CASE NewServerFails \/ TriggerExpiration \/ SendExpiration \/ UnloadCompleted \/ StopPending
    BY <2>9 DEF NewServerFails, NextPending, TriggerExpiration, SendExpiration, UnloadCompleted, StopPending
  <2> QED BY <1>2, <2>1, <2>2, <2>3, <2>4, <2>5, <2>6, <2>7, <2>8, <2>9 DEF Pending
<1>3. ASSUME Completed PROVE Settled \/ Unload
  BY <1>3 DEF Completed, ReceiveFinished, LookupFinished, FinishRequest, ExpireFinished, ReceiveExpired,
     ExpiredInUse, ExpiredIdle, SendUnloaded, StopCompleted
<1>4. ASSUME Other PROVE Settled
  <2>1. CASE GetRunner \/ \E q \in Requests : ContextDone(q) \/ RequestStep(q)
    BY <2>1 DEF GetRunner, ContextDone, RequestStep, SendFinished, Requeue
  <2>2. ASSUME NEW r \in Runners, RunnerStep(r) PROVE Settled
    BY <2>2 DEF RunnerStep, LoadSucceeds, LoadFails, FailLoad, ExpireFailedOrTimedOut, RetryExpired,
       TimerFires, TimerCallback
  <2>3. CASE Stopper \/ \E m \in Models : ExpireRunner(m)
    BY <2>3 DEF Stopper, ExpireRunnerNow, SendStopped, ExpireRunner
  <2>4. CASE Shutdown \/ UnloadAllRunners
    BY <2>4 DEF Shutdown, UnloadAllRunners
  <2> QED BY <1>4, <2>1, <2>2, <2>3, <2>4 DEF Other
<1> QED BY <1>1, <1>2, <1>3, <1>4 DEF Next, Other

(* The loaded runners are finitely many.                                   *)
LEMMA LoadedFinite ==
  ASSUME LoadedOK
  PROVE  IsFiniteSet(LoadedRunners) /\ Cardinality(LoadedRunners) \in Nat
<1>1. IsFiniteSet(Runners)
  BY SchedulerAssumption, FS_Interval DEF Runners
<1>2. IsFiniteSet(LoadedRunners)
  BY <1>1, LoadedRunnersTypes, FS_Subset
<1> QED BY <1>2, FS_CardinalityType

(* The limit that the first placement sets is at least one.                *)
LEMMA LimitPositive ==
  ASSUME LoadedOK, SetMaxRunners
  PROVE  maxRunners' \in Nat \ {0} /\ (maxRunners > 0 => maxRunners' = maxRunners)
<1>1. Cardinality(Gpus) \in Nat \ {0}
  BY SchedulerAssumption, FS_CardinalityType, FS_EmptySet
<1>2. PICK n \in Nat \ {0} : n = IF ForCpu THEN 1 ELSE Cardinality(Gpus)
  BY <1>1
<1>3. ModelsPerGpu * n \in Nat \ {0}
  BY SchedulerAssumption, <1>2
<1> QED BY <1>2, <1>3 DEF SetMaxRunners, LoadedOK

(* The limit is kept by every step.                                        *)
LEMMA RoomLeftStep ==
  ASSUME SteadyState, [Next]_vars
  PROVE  RoomLeft'
<1>0. RoomLeft /\ LoadedOK /\ LoadedOK' /\ SlotFree
  <2>1. TypeInv'
    BY SteadyFacts, NextTypes
  <2> QED BY <2>1, SteadyFacts DEF SteadyState, SteadyInv, TypeInv, TypeOK
<1>1. IsFiniteSet(LoadedRunners) /\ Cardinality(LoadedRunners) \in Nat
  BY <1>0, LoadedFinite
<1>2. CASE Settled
  <2>1. LoadedRunners' = LoadedRunners
    BY <1>2 DEF Settled, LoadedRunners
  <2> QED BY <1>0, <1>2, <2>1 DEF Settled, RoomLeft
<1>3. CASE RoomFound
  <2>1. LoadedRunners' = LoadedRunners
    BY <1>3 DEF RoomFound, LoadedRunners
  <2>2. maxRunners' \in Nat \ {0} /\ (maxRunners > 0 => maxRunners' = maxRunners)
    BY <1>0, <1>3, LimitPositive DEF RoomFound
  <2>3. CASE maxRunners = 0
    <3>1. Cardinality(LoadedRunners) = 0
      BY <1>0, <2>3, FS_EmptySet DEF RoomLeft
    <3> QED BY <2>1, <2>2, <3>1 DEF RoomLeft
  <2>4. CASE maxRunners # 0
    <3>1. maxRunners > 0 /\ Cardinality(LoadedRunners) < maxRunners
      BY <1>0, <1>1, <1>3, <2>4 DEF RoomFound, Room, Full, LoadedOK
    <3> QED BY <1>0, <1>1, <2>1, <2>2, <3>1 DEF RoomLeft
  <2> QED BY <2>3, <2>4
<1>4. CASE Load
  <2>1. PICK r \in Runners : loaded' = [loaded EXCEPT ![PModel] = r] /\ PModel \in Models
    BY <1>4, LoadHand
  <2>2. Placing /\ ~Placing' /\ UNCHANGED maxRunners
    BY <1>4 DEF Load, NextPending, Placing
  <2>3. maxRunners > 0 /\ Cardinality(LoadedRunners) < maxRunners
    BY <1>0, <2>2 DEF RoomLeft, LoadedOK
  <2>4. LoadedRunners' \subseteq LoadedRunners \union {r}
    BY <1>0, <2>1 DEF LoadedRunners, LoadedOK
  <2>5. Cardinality(LoadedRunners \union {r}) <= Cardinality(LoadedRunners) + 1
        /\ IsFiniteSet(LoadedRunners \union {r})
    <3>1. /\ IsFiniteSet(LoadedRunners \union {r})
          /\ Cardinality(LoadedRunners \union {r}) =
               IF r \in LoadedRunners THEN Cardinality(LoadedRunners) ELSE Cardinality(LoadedRunners) + 1
      BY <1>1, FS_AddElement
    <3> QED BY <1>1, <3>1
  <2>6. Cardinality(LoadedRunners') <= Cardinality(LoadedRunners \union {r})
        /\ Cardinality(LoadedRunners') \in Nat /\ Cardinality(LoadedRunners \union {r}) \in Nat
    BY <2>4, <2>5, FS_Subset, FS_CardinalityType
  <2>7. Cardinality(LoadedRunners') <= maxRunners
    BY <1>0, <1>1, <2>3, <2>5, <2>6 DEF LoadedOK
  <2> QED BY <2>2, <2>3, <2>7 DEF RoomLeft
<1>5. CASE Unload
  <2>1. LoadedRunners' \subseteq LoadedRunners
    BY <1>0, <1>5 DEF Unload, LoadedRunners, LoadedOK
  <2>2. Cardinality(LoadedRunners') <= Cardinality(LoadedRunners) /\ Cardinality(LoadedRunners') \in Nat
    BY <1>1, <2>1, FS_Subset, FS_CardinalityType
  <2>3. UNCHANGED maxRunners /\ (Placing' <=> Placing)
    BY <1>5 DEF Unload, Placing, pvars
  <2> QED BY <1>0, <1>1, <2>1, <2>2, <2>3 DEF RoomLeft, LoadedOK
<1> QED BY <1>2, <1>3, <1>4, <1>5, RoomSteps

-----------------------------------------------------------------------------
(* The invariant holds before the first request.                           *)
LEMMA SteadyInit ==
  ASSUME Steady, Init
  PROVE  SteadyInv
<1>1. NoTimers /\ NoStops
  BY DEF Init, NoTimers, NoStops
<1>2. KeptForever
  BY DEF Init, KeptForever, NoOptions
<1>3. DurationsKept /\ OneExpiry /\ HandsLive
  BY DEF Init, DurationsKept, OneExpiry, NoExpiry, Expirer, HandsLive, PendingLive, FinishLive, Open
<1>4. MapExact /\ LoadersLive
  BY DEF Init, MapExact, LoadersLive, Open
<1>5. FinishOnce
  BY Numbers DEF Init, FinishOnce, Sent
<1>6. ServedLive /\ InUse /\ DoneServed
  BY Numbers DEF Init, ServedLive, Finishing, InUse, DoneServed, Sent
<1>7. RefCountExact
  BY DEF Init, RefCountExact
<1>8. RoomLeft
  <2>1. LoadedRunners = {} /\ ~Placing
    BY DEF Init, LoadedRunners, Placing
  <2>2. Cardinality(LoadedRunners) = 0
    BY <2>1, FS_EmptySet
  <2> QED BY <2>1, <2>2, SchedulerAssumption DEF Init, RoomLeft
<1> QED BY <1>1, <1>2, <1>3, <1>4, <1>5, <1>6, <1>7, <1>8 DEF SteadyInv

(* Every step keeps it.                                                    *)
LEMMA SteadyNext ==
  ASSUME SteadyState, [Next]_vars
  PROVE  SteadyInv'
BY NoTimersStep, NoStopsStep, KeptForeverStep, DurationsKeptStep, OneExpiryStep, MapExactStep,
   PendingLiveStep, FinishLiveStep, FinishOnceStep, ServedLiveStep, InUseStep, LoadersLiveStep,
   RefCountStep, RoomLeftStep DEF SteadyInv, HandsLive

(* The inductive invariant of a steady scheduler.                          *)
THEOREM SteadyInvariant ==
  ASSUME Steady
  PROVE  Spec => []SteadyInv
<1>1. Init => SteadyInv
  BY SteadyInit
<1>2. RequestInv /\ SafetyInv /\ SlotInv /\ SteadyInv /\ [Next]_vars => SteadyInv'
  BY SteadyNext DEF SteadyState
<1> QED BY <1>1, <1>2, RequestInvariant, SafetyInvariant, SlotInvariant, PTL DEF Spec

(* The count of every live runner is exact: the requests that were served  *)
(* by it and not yet looked up by processCompleted, the request it is      *)
(* being loaded for and the one that is being counted off.  A request is   *)
(* counted off the runner its model has then, not the one it was given, so *)
(* this needs that a used runner keeps its place in the map.               *)
THEOREM CountsExact ==
  ASSUME Steady
  PROVE  Spec => []RefCountExact
<1>1. SteadyInv => RefCountExact
  BY DEF SteadyInv
<1> QED BY <1>1, SteadyInvariant, PTL

(* The runner a request was given is not unloaded while the request uses   *)
(* it, although processPending evicts and reloads runners in between.      *)
THEOREM UsedRunnersLive ==
  ASSUME Steady
  PROVE  Spec => []InUseRunnerIsLive
<1>1. SteadyInv => InUseRunnerIsLive
  BY DEF SteadyInv, InUse, ServedLive, Finishing, InUseRunnerIsLive, Open
<1> QED BY <1>1, SteadyInvariant, PTL

(* There are never more live subprocesses than OLLAMA_MAX_LOADED_MODELS,   *)
(* or than the limit the first placement set: the room that processPending *)
(* found is still there when the runner it places enters the map.          *)
THEOREM RunnersWithinLimit ==
  ASSUME Steady
  PROVE  Spec => []AtMostMaxRunners
<1>1. TypeInv /\ SteadyInv => AtMostMaxRunners
  <2> SUFFICES ASSUME TypeInv, SteadyInv, maxRunners > 0
               PROVE  Cardinality({r \in Runners : llama[r] = "open"}) <= maxRunners
    BY DEF AtMostMaxRunners
  <2>1. LoadedOK /\ LifeOK
    BY DEF TypeInv, TypeOK
  <2>2. {r \in Runners : llama[r] = "open"} \subseteq LoadedRunners
    <3> SUFFICES ASSUME NEW r \in Runners, Open(r) PROVE r \in LoadedRunners
      BY DEF Open
    <3>1. info[r].modelPath \in Models
      BY <2>1 DEF LifeOK, RunnerInfo
    <3>2. loaded[info[r].modelPath] = r
      BY DEF SteadyInv, MapExact
    <3> QED BY <3>1, <3>2, Numbers DEF LoadedRunners
  <2>3. IsFiniteSet(LoadedRunners) /\ Cardinality(LoadedRunners) \in Nat
    BY <2>1, LoadedFinite
  <2>4. /\ Cardinality({r \in Runners : llama[r] = "open"}) <= Cardinality(LoadedRunners)
        /\ IsFiniteSet({r \in Runners : llama[r] = "open"})
    BY <2>2, <2>3, FS_Subset
  <2>5. Cardinality({r \in Runners : llama[r] = "open"}) \in Nat
    BY <2>4, FS_CardinalityType
  <2>6. Cardinality(LoadedRunners) <= maxRunners
    BY DEF SteadyInv, RoomLeft
  <2> QED BY <2>1, <2>3, <2>4, <2>5, <2>6 DEF LoadedOK
<1> QED BY <1>1, SteadyInvariant, TypeInvariant, PTL

=============================================================================
