----------------------------- MODULE ServerProps -----------------------------
(***************************************************************************)
(* What the server promises its clients, over the server's steps with a    *)
(* history variable beside them: state loses that a request has finished   *)
(* when phase 2 of schedule() admits it again.                             *)
(***************************************************************************)
EXTENDS PagedServer

VARIABLE ended  \* the requests that have been FINISHED at some time

tracedVars == <<serverVars, ended>>

TracedInit == ServerInit /\ ended = {}

TracedNext ==
  /\ ServerNext
  /\ ended' = ended \cup {r \in Rids : state'[r] = "FINISHED"}

TracedSpec     == TracedInit /\ [][TracedNext]_tracedVars
FairTracedSpec == TracedSpec /\ ServerFairness

\* Type invariant of the client threads' variables.
ServerTypeOK ==
  /\ conn \in [Threads -> {"new", "generate", "step", "closed"}]
  /\ rid \in [Threads -> Rids]
  /\ idx \in [Threads -> Nat \ {0}]
  /\ text \in [Threads -> Nat]
  /\ stray \in [Threads -> Nat]
  /\ done \in [Threads -> BOOLEAN]
  /\ crashed \in BOOLEAN

\* Whatever thread executes its batch entry, a token generated for a request reaches
\* its client at most once: a reply has no more tokens than were generated.
NoTokenTwice ==
  \A t \in Threads : ~ConnAt(t, "new") => text[t] - stray[t] <= genLen[rid[t]]

\* A client is answered only once its request has finished, and there the request stays.
\* It can leave FINISHED in one way only: it was preempted while its last token was in
\* flight, report_output finished it by that token where it was, in waiting_, and phase 2
\* of schedule() admitted it again whatever its state.
AnsweredIsFinished ==
  \A t \in Threads :
    ConnAt(t, "closed") =>
      state[rid[t]] = "FINISHED" \/ (preempted[rid[t]] /\ rid[t] \in ended)

\* A completion is answered, as the documented call with "max_tokens" expects
\* (README.md:60).
CompletionAnswered ==
  \A t \in Threads : ConnAt(t, "generate") ~> ConnAt(t, "closed")

=============================================================================
