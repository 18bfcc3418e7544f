-------------------------- MODULE CPAPILifecycle --------------------------
(***************************************************************************)
(* The life of the embedded CLIProxyAPI service: built at start, rebuilt   *)
(* by RestartCPAPI, run by a goroutine (a runner) per build, and shut down *)
(* by the closer.  cpapiMu guards each access to the service and to the    *)
(* stored cancel function, but RunCPAPI takes it twice: once to store its  *)
(* cancel function, once to fetch the service it runs.  A restart, the     *)
(* closer or another runner may come between the two.                      *)
(*                                                                         *)
(* Services are numbered by their build; runner n is the goroutine started *)
(* after build n, so runner 1 is the one in App.Start's errgroup.          *)
(***************************************************************************)
EXTENDS Integers, FiniteSets

CONSTANT
    MaxBuilds   \* bound: the number of services built

ASSUME BuildsAssumption == MaxBuilds \in Nat \ {0}

VARIABLES
    builds,     \* the number of services built so far
    current,    \* p.cliproxy: a service, or 0 for nil
    canceller,  \* p.selectorCancel: the runner it cancels, or 0 for nil
    pc,         \* pc[n]: where runner n is
    runs,       \* runs[n]: the service whose Run it called, or 0
    cancelled,  \* runners whose own context was cancelled
    appCtx,     \* the errgroup's context, parent of every runner's
    closing,    \* the close function: "no", "cancelled" or "done"
    panicked,   \* CLIProxyAPI() has panicked and ended the process
    hurried     \* history: a restart or the closer did not wait for a runner
                \* that was still starting

lifecycleVars == <<builds, current, canceller, pc, runs, cancelled, appCtx, closing,
                   panicked, hurried>>

Runners == 1..MaxBuilds

Starting == {n \in Runners : pc[n] \in {"spawned", "registered"}}

\* The context runner n works under has not been cancelled.
Live(n) == n \notin cancelled /\ appCtx = "live"

\* InitCPAPI has built the first service; App.Start starts runner 1.
LifecycleInit ==
    /\ builds = 1
    /\ current = 1
    /\ canceller = 0
    /\ pc = [n \in Runners |-> IF n = 1 THEN "spawned" ELSE "none"]
    /\ runs = [n \in Runners |-> 0]
    /\ cancelled = {}
    /\ appCtx = "live"
    /\ closing = "no"
    /\ panicked = FALSE
    /\ hurried = FALSE

----------------------------------------------------------------------------
(***************************************************************************)
(* RestartCPAPI.  Everything up to the goroutine happens under cpapiMu.    *)
(***************************************************************************)
\* Mutant: the restart does not cancel the runner it replaces.
KeepSelector ==
    /\ hurried' = (hurried \/ Starting # {})
    /\ UNCHANGED <<cancelled, canceller>>

CancelSelector ==
    /\ hurried' = (hurried \/ Starting # {})
    /\ cancelled' = cancelled \cup ({canceller} \ {0})
    /\ canceller' = 0

\* Mutant: the restart does not start a runner.
RebuildOnly ==
    /\ builds < MaxBuilds
    /\ CancelSelector
    /\ builds' = builds + 1
    /\ current' = builds'
    /\ UNCHANGED <<pc, runs, appCtx, closing, panicked>>

RestartCPAPI ==
    /\ builds < MaxBuilds
    /\ CancelSelector
    /\ builds' = builds + 1
    /\ current' = builds'
    /\ pc' = [pc EXCEPT ![builds'] = "spawned"]
    /\ UNCHANGED <<runs, appCtx, closing, panicked>>

\* Mutant: the error of the build is logged and the runner started anyway.
RebuildFailsButRuns ==
    /\ builds < MaxBuilds
    /\ CancelSelector
    /\ builds' = builds + 1
    /\ current' = 0
    /\ pc' = [pc EXCEPT ![builds'] = "spawned"]
    /\ UNCHANGED <<runs, appCtx, closing, panicked>>

\* buildCPAPILocked returns an error: the old service is gone, there is no
\* new one, and no runner is started.
RebuildFails ==
    /\ CancelSelector
    /\ current' = 0
    /\ UNCHANGED <<builds, pc, runs, appCtx, closing, panicked>>

----------------------------------------------------------------------------
(***************************************************************************)
(* RunCPAPI.                                                               *)
(***************************************************************************)

SetSelectorCancel(n) ==
    /\ pc[n] = "spawned"
    /\ canceller' = n
    /\ pc' = [pc EXCEPT ![n] = "registered"]
    /\ UNCHANGED <<builds, current, runs, cancelled, appCtx, closing, panicked,
                   hurried>>

\* CLIProxyAPI() and the call of Run.
FetchService(n) ==
    /\ pc[n] = "registered"
    /\ current # 0
    /\ runs' = [runs EXCEPT ![n] = current]
    /\ pc' = [pc EXCEPT ![n] = "running"]
    /\ UNCHANGED <<builds, current, canceller, cancelled, appCtx, closing,
                   panicked, hurried>>

FetchPanics(n) ==
    /\ pc[n] = "registered"
    /\ current = 0
    /\ panicked' = TRUE
    /\ UNCHANGED <<builds, current, canceller, pc, runs, cancelled, appCtx,
                   closing, hurried>>

\* Run returns context.Canceled, which RunCPAPI does not report, or nil.
RunStops(n) ==
    /\ pc[n] = "running"
    /\ ~Live(n) \/ runs[n] # current \/ closing = "done"
    /\ pc' = [pc EXCEPT ![n] = "returned"]
    /\ UNCHANGED <<builds, current, canceller, runs, cancelled, appCtx,
                   closing, panicked, hurried>>

\* Run returns another error.  RunCPAPI returns it; a restart's goroutine
\* logs it, but runner 1 is a member of the errgroup, which cancels its
\* context.
RunFails(n) ==
    /\ pc[n] = "running"
    /\ pc' = [pc EXCEPT ![n] = "returned"]
    /\ appCtx' = IF n = 1 THEN "cancelled" ELSE appCtx
    /\ UNCHANGED <<builds, current, canceller, runs, cancelled, closing,
                   panicked, hurried>>

----------------------------------------------------------------------------
(***************************************************************************)
(* The close function: cancelSelector, then Shutdown of the service that   *)
(* CLIProxyAPI() returns.                                                  *)
(***************************************************************************)
CloseCancels ==
    /\ closing = "no"
    /\ CancelSelector
    /\ closing' = "cancelled"
    /\ UNCHANGED <<builds, current, pc, runs, appCtx, panicked>>

CloseShutsDown ==
    /\ closing = "cancelled"
    /\ closing' = "done"
    /\ panicked' = (current = 0)
    /\ UNCHANGED <<builds, current, canceller, pc, runs, cancelled, appCtx,
                   hurried>>

----------------------------------------------------------------------------
Runner(n) == SetSelectorCancel(n) \/ FetchService(n) \/ FetchPanics(n)

LifecycleNext ==
    /\ ~panicked
    /\ \/ RestartCPAPI \/ RebuildFails
       \/ CloseCancels \/ CloseShutsDown
       \/ \E n \in Runners : Runner(n) \/ RunStops(n) \/ RunFails(n)

LifecycleSpec == LifecycleInit /\ [][LifecycleNext]_lifecycleVars

(***************************************************************************)
(* A goroutine that was started is scheduled until it calls Run.  Nothing  *)
(* makes a restart, a failure or the shutdown happen.                      *)
(***************************************************************************)
FairLifecycle ==
    LifecycleSpec /\ \A n \in Runners : WF_lifecycleVars(~panicked /\ Runner(n))

----------------------------------------------------------------------------
LifecycleTypes ==
    /\ builds \in Runners
    /\ current \in 0..MaxBuilds
    /\ canceller \in 0..MaxBuilds
    /\ pc \in [Runners -> {"none", "spawned", "registered", "running",
                            "returned"}]
    /\ runs \in [Runners -> 0..MaxBuilds]
    /\ cancelled \in SUBSET Runners
    /\ appCtx \in {"live", "cancelled"}
    /\ closing \in {"no", "cancelled", "done"}
    /\ panicked \in BOOLEAN
    /\ hurried \in BOOLEAN

\* A runner inside Run whose context is still live.
Serving(n) == pc[n] = "running" /\ Live(n)

\* The context of runner n can be cancelled through selectorCancel.
Cancellable(n) == canceller = n

\* If restarts have waited for the runner before them, there is one runner that
\* serves, at most: the one whose context the next restart or the closer will
\* cancel, and it runs the service that panel and closer see, never one that a
\* restart has shut down (RestartCPAPI, RunCPAPI, cancelSelector).
ServesCurrent ==
    /\ LifecycleTypes
    /\ ~hurried => \A n \in Runners :
          Serving(n) => Cancellable(n) /\ runs[n] = current

\* ... and starting a service does not panic, not even after a failed rebuild:
\* a runner finds the service it was started for (CLIProxyAPI's nil check).
\* Only the closer may meet a nil.
RunnerFindsService == panicked /\ ~hurried => closing = "done"

\* A service that was built comes up: its own runner calls Run on it, unless
\* it is replaced first, the application is stopped or the errgroup has been
\* cancelled.  Earlier runners that are still on their way do not prevent it.
ServiceComesUp ==
    \A n \in Runners :
        current = n ~> \/ runs[n] = n
                       \/ current # n
                       \/ closing # "no"
                       \/ appCtx = "cancelled"
                       \/ panicked
=============================================================================
