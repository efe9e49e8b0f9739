---------------------------- MODULE QueryOutcome ----------------------------
(***************************************************************************)
(* A query as bdNodeManager sees it: whether it idles, and the verdict it  *)
(* has come to.  Module bdQuery has the whole query; a step of it is one   *)
(* to an outcome here (theorem OutcomesOnly of bdQueryProofs).             *)
(***************************************************************************)

FinalState == {"FAILURE", "FOUND_CLOSEST", "PEER_UNREACHABLE", "SUCCESS"}

Finished(q) == q.mState # "QUERYING"

\* nextQuery does nothing any more.
IsOver(q) == Finished(q) /\ ~ q.doIdle

\* What may become of q, with these verdicts: an idling query may get another one.
Outcomes(q, verdicts) ==
    {q} \cup {[q EXCEPT !.mState = v] : v \in IF IsOver(q) THEN {} ELSE verdicts}
=============================================================================
