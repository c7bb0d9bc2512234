------------------------ MODULE SchedulerProperties ------------------------
(***************************************************************************)
(* What the scheduler promises: the safety properties that hold in every   *)
(* environment, those that hold only while no runner expires on its own,   *)
(* the liveness properties, and one promise of a comment that the code     *)
(* does not keep.                                                          *)
(***************************************************************************)
EXTENDS Scheduler

Sent(ch) == {ch[i] : i \in DOMAIN ch}

(* An expired event for the runner is queued, being handled or certain.    *)
Expiring(r) ==
  \/ firing[r] > 0 \/ retry[r] > 0
  \/ r \in Sent(expiredCh)
  \/ cPC = "expired" /\ cRunner = r

(* No runner is left behind.  A live runner that no request uses has a     *)
(* timer or an expired event on its way, so that the scheduler will get to *)
(* unload it: useLoadedRunner, needsReload, a stop request, an eviction, a *)
(* failed load and a timer that fires while the runner is used again may   *)
(* interleave in any order.  (Unless its refCount has wrapped.)            *)
IdleRunnerExpires ==
  \A r \in Runners :
    /\ llama[r] = "open" /\ refMu[r] = "free"
    /\ refCount[r] = 0 /\ r \notin wrapped
    => timer[r] # "nil" \/ Expiring(r)

(* processPending never sleeps through the unload it asked for: while it   *)
(* waits on unloadedCh, an unload has been or will be announced, or the    *)
(* runner it chose is still in use and will be expired by the last of its  *)
(* requests because its keep-alive is zero.                                *)
NoLostWakeup ==
  pPC = "wait" =>
    \/ unloadedCh > 0 \/ cPC \in {"unload", "recover"}
    \/ Expiring(pRunner) \/ refMu[pRunner] # "free"
    \/ refCount[pRunner] > 0 /\ duration[pRunner] = 0

(* Every request that was made and not answered is with exactly one part   *)
(* of the scheduler: the queue, processPending, the goroutine that         *)
(* re-queues it or the loader of a runner.  Only a request whose client    *)
(* left, or one that shutdown interrupted, may be with none.               *)
Holders(q) ==
    {<<"queue", i>> : i \in {j \in DOMAIN pendingReqCh : pendingReqCh[j] = q}}
    \union (IF pReq = q THEN {<<"pending", 0>>} ELSE {})
    \union (IF task[q] = "requeue" THEN {<<"requeue", 0>>} ELSE {})
    \union {<<"loader", r>> : r \in {s \in Runners :
               refMu[s] = "loader" /\ info[s].req = q}}

RequestNeverLost ==
  \A q \in 1 .. submitted :
    IF answer[q] # "none" THEN Holders(q) = {}
    ELSE \/ Cardinality(Holders(q)) = 1
         \/ Holders(q) = {} /\ (done[q] \/ phase # "run")

(* What processCompleted checks before it waits for loadedMu still holds   *)
(* when it unloads: a step that gives up a live runner finds refCount 0,   *)
(* although requests for it are looked up and served in between.           *)
UnloadsOnlyIdle ==
  [][\A r \in Runners :
       llama[r] = "open" /\ llama'[r] = "nil"
         => refCount[r] = 0]_vars

(* The look-up that found no runner is still right when the new runner     *)
(* enters the map: no entry is overwritten, which would leave a subprocess *)
(* that nothing can reach.                                                 *)
NoEntryOverwritten ==
  [][\A m \in Models :
       loaded[m] # NoRunner /\ loaded'[m] # NoRunner => loaded'[m] = loaded[m]]_vars

-----------------------------------------------------------------------------
(* Requests that use a runner: served, and not yet counted as finished.    *)
Users(r) ==
  {q \in Requests : /\ got[q] = r
                    /\ \/ task[q] = "finish"
                       \/ q \in Sent(finishedReqCh)
                       \/ cReq = q}

(* refCount is exact: the users of a runner, plus the request it is being  *)
(* loaded for, plus the one processCompleted is about to take off.         *)
RefCountExact ==
  \A r \in Runners :
    llama[r] = "open" =>
      refCount[r] = Cardinality(Users(r))
        + (IF refMu[r] = "loader" THEN 1 ELSE 0)
        + (IF cPC = "finish" /\ cRunner = r THEN 1 ELSE 0)

(* "Runner is usable, return it": the runner a request was answered with   *)
(* is not unloaded while the request uses it, unless the server shuts down. *)
InUseRunnerIsLive ==
  \A q \in Requests :
    answer[q] = "runner" /\ ~done[q] /\ phase = "run"
      => llama[got[q]] = "open"

(* OLLAMA_MAX_LOADED_MODELS bounds the live runner subprocesses.           *)
AtMostMaxRunners ==
  maxRunners > 0 =>
    Cardinality({r \in Runners : llama[r] = "open"}) <= maxRunners

-----------------------------------------------------------------------------
(* Fairness: a goroutine that can run does, a select over several ready    *)
(* channels serves each of them in the end (the runtime picks at random),  *)
(* and WaitUntilRunning and a served request always end.  The runtime      *)
(* promises more; nothing below needs it.                                  *)
HasRunner(q) == answer[q] = "runner"
Fairness ==
  /\ WF_vars(Pending) /\ WF_vars(Completed) /\ SF_vars(ReceiveFinished)
  /\ WF_vars(Stopper)
  /\ WF_vars(\E q \in Requests : RequestStep(q))
  /\ WF_vars(\E q \in Requests : HasRunner(q) /\ ContextDone(q))
  /\ WF_vars(\E r \in Runners : LoadSucceeds(r) \/ LoadFails(r))
  /\ WF_vars(\E r \in Runners : RetryExpired(r))
  /\ WF_vars(\E r \in Runners : ExpireFailedOrTimedOut(r) \/ TimerFires(r)
                                  \/ TimerCallback(r))

FairSpec == Spec /\ Fairness

(* Every request is answered unless its client leaves or the server shuts  *)
(* down first.                                                             *)
RequestsAnswered ==
  \A q \in Requests :
    submitted >= q ~> \/ answer[q] # "none" \/ done[q]
                      \/ phase # "run"

(* A runner whose keep-alive is finite is unloaded in the end, unless the  *)
(* server shuts down first.                                                *)
RunnersUnloaded ==
  \A r \in Runners :
    llama[r] = "open" /\ duration[r] # Forever
      ~> llama[r] # "open" \/ phase # "run"

-----------------------------------------------------------------------------
(* routes.go on scheduleRunner: "It returns the allocated runner ... if    *)
(* successful and error otherwise": every call returns.                    *)
EveryCallReturns ==
  \A q \in Requests : submitted >= q ~> answer[q] # "none" \/ phase # "run"

=============================================================================
