------------------------------- MODULE Swarm --------------------------------
(* What a request to Swarm (libs/go/swarm) can come to.  A reply is what the server did and what
   came back: "json" a well-formed answer, "odd" one in Swarm's other encoding (an empty array for
   an empty object, a string for a version, an integer for a boolean), "invalid" one with isValid
   false, "error" one with an error text, "html" one that is not JSON, "none" no answer.  Swarm
   itself is external. *)

Replies ==
    {[applied |-> TRUE, form |-> "json"], [applied |-> TRUE, form |-> "odd"],
     [applied |-> FALSE, form |-> "invalid"], [applied |-> FALSE, form |-> "error"],
     [applied |-> FALSE, form |-> "html"], [applied |-> TRUE, form |-> "html"],
     [applied |-> FALSE, form |-> "none"], [applied |-> TRUE, form |-> "none"]}

\* A well-formed answer that lacks what was asked for: nothing was done.
NoPart == [applied |-> FALSE, form |-> "json"]

\* doSwarmRequest: whether it returns no error.  The status code is not looked at.
doSwarmRequest(reply) == reply.form \notin {"none", "invalid", "error"}
\* The decoders of VersionID, CommitStatus, Participant, CommentContext, TestRunsMap and SwarmBool.
UnmarshalJSON(reply) == reply.form \in {"json", "odd"}
\* The method of Context, which decodes the answer too.
ContextDoSwarmRequest(reply) == doSwarmRequest(reply) /\ UnmarshalJSON(reply)

\* What a caller can tell apart: whether Swarm did it, and whether the call succeeded.
Outcomes == {[applied |-> r.applied, ok |-> ContextDoSwarmRequest(r)] : r \in Replies}
=============================================================================
