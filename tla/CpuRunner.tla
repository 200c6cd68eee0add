------------------------------ MODULE CpuRunner ------------------------------
(***************************************************************************)
(* The paged mode of cpu_runner: one thread, one request, at most          *)
(* max_new_tokens calls of step(), each followed by a scan of its output   *)
(* and a look at the request.  Unlike the server it compares every index   *)
(* with the size of the vector it reads.                                   *)
(***************************************************************************)
EXTENDS EngineProps

CONSTANT Main    (* its only thread *)

ASSUME MainAssumption == Threads = {Main}

VARIABLES
  run,      (* where main() is                                              *)
  i,        (* iterations of its loop so far                                *)
  k,        (* position in out.request_ids                                  *)
  gc        (* tokens printed                                               *)

runnerVars == <<run, i, k, gc>>
mainVars   == <<pagedVars, runnerVars>>

Request0 == 0    (* the first id submit_request gives *)

RunnerInit ==
  /\ EngineInit
  /\ run = "start" /\ i = 0 /\ k = 1 /\ gc = 0

MainSubmit(n, m) ==
  /\ run = "start" /\ SubmitTokens(Main, n, m)
  /\ run' = "loop"
  /\ UNCHANGED <<i, k, gc>>

\* mutant: the scan starts before the first entry
CallStepFromZero ==
  /\ run = "loop" /\ i < maxNew[Request0] /\ StepBegin(Main)
  /\ run' = "step" /\ k' = 0
  /\ UNCHANGED <<i, gc>>

CallStep ==
  /\ run = "loop" /\ i < maxNew[Request0] /\ StepBegin(Main)
  /\ run' = "step" /\ k' = 1
  /\ UNCHANGED <<i, gc>>

InStep == run = "step" /\ StepProgress(Main) /\ UNCHANGED runnerVars

Returned == run = "step" /\ At(Main, "out")

\* mutant: a step without a token does not count as an iteration
SleepForEver ==
  /\ Returned /\ outToks[Main] = <<>>
  /\ run' = "loop"
  /\ UNCHANGED <<pagedVars, i, k, gc>>

\* no new token: sleep and go round again, whatever request_ids says
SleepAndRetry ==
  /\ Returned /\ outToks[Main] = <<>>
  /\ run' = "loop" /\ i' = i + 1
  /\ UNCHANGED <<pagedVars, k, gc>>

\* mutant: the last entry is taken to have no text
HasTextBeforeLast == k < Len(outToks[Main])

HasText == k <= Len(outToks[Main])

ScanOutput ==
  /\ Returned /\ outToks[Main] # <<>> /\ k <= Len(outIds[Main])
  /\ LET mine == outIds[Main][k].rid = Request0 IN
     /\ gc'  = IF mine /\ HasText THEN gc + 1 ELSE gc
     /\ run' = IF mine /\ outIds[Main][k].fin THEN "done" ELSE "step"
  /\ k' = k + 1
  /\ UNCHANGED <<pagedVars, i>>

\* get_request after the scan
LookAtRequest ==
  /\ Returned /\ outToks[Main] # <<>> /\ k > Len(outIds[Main]) /\ lock = NoThread
  /\ IF Request0 \in known /\ state[Request0] = "FINISHED"
     THEN run' = "done" /\ UNCHANGED i
     ELSE run' = "loop" /\ i' = i + 1
  /\ UNCHANGED <<pagedVars, k, gc>>

LoopExhausted ==
  /\ run = "loop" /\ i >= maxNew[Request0]
  /\ run' = "done"
  /\ UNCHANGED <<pagedVars, i, k, gc>>

RunnerStep ==
  \/ CallStep \/ InStep
  \/ SleepAndRetry \/ ScanOutput \/ LookAtRequest \/ LoopExhausted

RunnerNext ==
  \/ \E n \in PromptLens, m \in MaxNews : MainSubmit(n, m)
  \/ RunnerStep

\* the thread is alone: it runs as long as it has something to run
RunnerSpec == RunnerInit /\ [][RunnerNext]_mainVars /\ WF_mainVars(RunnerNext)

-----------------------------------------------------------------------------

\* The pool has room for the longest request and for the block run_prefill loses.
PoolIsRoomy == \A n \in PromptLens, m \in MaxNews : BlocksFor(n + m) < NumBlocks

\* Type invariant of the runner's variables.
RunnerTypeOK ==
  /\ run \in {"start", "loop", "step", "done"}
  /\ i \in Nat /\ k \in Nat \ {0} /\ gc \in Nat

\* When it stops, every token the request ever got has been printed, and nothing else.
PrintsEveryToken ==
  run = "done" => gc = genLen[Request0]

\* It stops: no call of step() blocks or loops for ever, and the loop is bounded.
RunnerStops == <>(run = "done")

=============================================================================
