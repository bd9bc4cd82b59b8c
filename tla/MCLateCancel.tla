---------------------------- MODULE MCLateCancel ----------------------------
(* JobQueue with one more history variable: when the current claim, or the *)
(* pending job, was first asked to stop.  request_cancel re-stamps         *)
(* cancel_requested_at, so the row alone does not say.                     *)
EXTENDS MCJobQueue

VARIABLE first_asked

RequestHistory ==
  first_asked' = [j \in JobId |->
    CASE row'[j].cancel_requested_at = Null -> Null
      [] first_asked[j] = Null              -> row'[j].cancel_requested_at
      [] OTHER                              -> first_asked[j]]

InitAsked == Init /\ first_asked = [j \in JobId |-> Null]
NextAsked == Next /\ RequestHistory
SpecAsked == InitAsked /\ [][NextAsked]_<<vars, first_asked>>

\* of-mcp tools/jobs.rs, cancel_job: it "still succeeds for a claim that has
\* already expired, as long as the cancellation was requested before it lapsed
\* ... if nobody asked this job to stop before your claim expired, it is
\* refused like the others".  So a claim that ends as cancelled was asked to
\* stop before its expiry.
LapsedClaimWasAskedInTime ==
  [][\A j \in JobId :
       row[j].status \in Claimed /\ row'[j].status = "cancelled"
         => first_asked[j] < row[j].claim_expires_at]_<<vars, first_asked>>

=============================================================================
