------------------------------ MODULE MCHistory ------------------------------
(* Small instances of History for TLC: C reaches A only through the relay B. *)
EXTENDS HistoryProperties, TLC

CONSTANTS bodyA, bodyB, bodyC, jobSent, jobOwn

MCFrom == [j \in Job |-> IF j = jobSent THEN bodyB ELSE bodyA]
MCRuns == [j \in Job |-> bodyA]
MCLink == {<<bodyC, bodyB>>, <<bodyB, bodyA>>}
MCPaired == (bodyA :> {bodyB, bodyC}) @@ (bodyB :> {bodyA, bodyC}) @@ (bodyC :> {bodyB})

\* One invocation with the outcomes it can have, and two that need two pages,
\* one or the other denied.
MCPlans ==
  {(jobSent :> {"running", "done", "failed"}) @@ (jobOwn :> {}),
   (jobSent :> {"waiting", "running", "uncertain"}) @@ (jobOwn :> {}),
   (jobSent :> {"denied"}) @@ (jobOwn :> {"queued"}),
   (jobSent :> {"queued"}) @@ (jobOwn :> {"denied"})}

=============================================================================
