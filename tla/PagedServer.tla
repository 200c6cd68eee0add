----------------------------- MODULE PagedServer -----------------------------
(***************************************************************************)
(* The paged HTTP server: main() starts one detached client_thread per     *)
(* connection, and all of them call the one PagedEngine.  A completion     *)
(* submits a request and calls step() until an output names that request   *)
(* as finished, appending the tokens that outputs carry for it.            *)
(*                                                                         *)
(* A thread here is a client_thread whose connection brings one completion *)
(* request; the other endpoints answer without touching the engine.        *)
(* Reading the socket is external: it yields a prompt and max_tokens.      *)
(***************************************************************************)
EXTENDS EngineProps

VARIABLES
  conn,     (* where each client_thread is                                  *)
  rid,      (* the request it submitted                                     *)
  idx,      (* i of the loop over output.request_ids                        *)
  text,     (* tokens appended to full_text                                 *)
  stray,    (* ... of those, the ones read past output.new_token_ids        *)
  done,
  crashed   (* the process read through the null pointer of an empty vector *)

clientVars == <<conn, rid, idx, text, stray, done, crashed>>
serverVars == <<pagedVars, clientVars>>

ServerInit ==
  /\ EngineInit
  /\ conn    = [t \in Threads |-> "new"]
  /\ rid     = [t \in Threads |-> 0]
  /\ idx     = [t \in Threads |-> 1]
  /\ text    = [t \in Threads |-> 0]
  /\ stray   = [t \in Threads |-> 0]
  /\ done    = [t \in Threads |-> FALSE]
  /\ crashed = FALSE

ConnAt(t, label) == conn[t] = label

\* mutant: the id is read after the counter moved on
AcceptNextId(t, n, m) ==
  /\ ConnAt(t, "new") /\ SubmitTokens(t, n, m)
  /\ rid'  = [rid EXCEPT ![t] = nextId + 1]
  /\ conn' = [conn EXCEPT ![t] = "generate"]
  /\ UNCHANGED <<idx, text, stray, done, crashed>>

\* the request is parsed and submitted, an empty prompt included
Accept(t, n, m) ==
  /\ ConnAt(t, "new") /\ SubmitTokens(t, n, m)
  /\ rid'  = [rid EXCEPT ![t] = nextId]
  /\ conn' = [conn EXCEPT ![t] = "generate"]
  /\ UNCHANGED <<idx, text, stray, done, crashed>>

CallStep(t) ==
  /\ ConnAt(t, "generate") /\ ~done[t] /\ StepBegin(t)
  /\ conn' = [conn EXCEPT ![t] = "step"]
  /\ idx'  = [idx EXCEPT ![t] = 1]
  /\ UNCHANGED <<rid, text, stray, done, crashed>>

InStep(t) == ConnAt(t, "step") /\ StepProgress(t) /\ UNCHANGED clientVars

Scanning(t) == ConnAt(t, "step") /\ At(t, "out") /\ idx[t] <= Len(outIds[t])

\* mutant: the tokens of every request in the output are taken
AnyEntry(t) == TRUE

OwnEntry(t) == outIds[t][idx[t]].rid = rid[t]

\* output.new_token_ids[i] has no bounds check: past the end it yields whatever is in
\* memory, or faults when the vector never allocated any
TokenRead(t) ==
  IF idx[t] <= Len(outToks[t]) THEN {outToks[t][idx[t]]} ELSE Tokens

ReadFaults(t) == Scanning(t) /\ OwnEntry(t) /\ outToks[t] = <<>>

SkipEntry(t) ==
  /\ Scanning(t) /\ ~OwnEntry(t)
  /\ idx' = [idx EXCEPT ![t] = @ + 1]
  /\ UNCHANGED <<pagedVars, conn, rid, text, stray, done, crashed>>

TakeToken(t) ==
  /\ Scanning(t) /\ OwnEntry(t) /\ ~ReadFaults(t)
  /\ \E tid \in TokenRead(t) :
       /\ text' = IF tid = "eos" THEN text ELSE [text EXCEPT ![t] = @ + 1]
       /\ stray' = IF tid # "eos" /\ idx[t] > Len(outToks[t])
                   THEN [stray EXCEPT ![t] = @ + 1] ELSE stray
       /\ done' = [done EXCEPT ![t] = @ \/ tid = "eos" \/ outIds[t][idx[t]].fin]
  /\ idx' = [idx EXCEPT ![t] = @ + 1]
  /\ UNCHANGED <<pagedVars, conn, rid, crashed>>

Fault(t) ==
  /\ ReadFaults(t)
  /\ crashed' = TRUE
  /\ UNCHANGED <<pagedVars, conn, rid, idx, text, stray, done>>

EndScan(t) ==
  /\ ConnAt(t, "step") /\ At(t, "out") /\ idx[t] > Len(outIds[t])
  /\ conn' = [conn EXCEPT ![t] = "generate"]
  /\ UNCHANGED <<pagedVars, rid, idx, text, stray, done, crashed>>

\* send and close; the request stays in the engine
Reply(t) ==
  /\ ConnAt(t, "generate") /\ done[t]
  /\ conn' = [conn EXCEPT ![t] = "closed"]
  /\ UNCHANGED <<pagedVars, rid, idx, text, stray, done, crashed>>

ClientStep(t) ==
  \/ CallStep(t) \/ InStep(t)
  \/ SkipEntry(t) \/ TakeToken(t) \/ Fault(t) \/ EndScan(t)
  \/ Reply(t)

ServerNext ==
  /\ ~crashed
  /\ \E t \in Threads :
       \/ \E n \in PromptLens, m \in MaxNews : Accept(t, n, m)
       \/ ClientStep(t)

ServerSpec == ServerInit /\ [][ServerNext]_serverVars

\* a client_thread that can run does run; nothing obliges a new connection to come
ServerFairness == \A t \in Threads : WF_serverVars(~crashed /\ ClientStep(t))

=============================================================================
