------------------------- MODULE CampaignSendTypes -------------------------
(***************************************************************************)
(* The enumerations of the campaign send pipeline: the status fields of its *)
(* documents and the steps of a send, grouped by the try block of the code   *)
(* that encloses them.                                                      *)
(***************************************************************************)

\* Campaign.status: the values this pipeline reads or writes.
CampaignStatus == {"draft", "running", "paused", "completed", "failed",
                   "cancelled", "archived"}
SENDABLE_STATUSES == {"draft", "scheduled", "failed"}

\* The statuses from which a user may move a campaign to each target.
TransitionFrom == [paused    |-> {"running"},
                   running   |-> {"paused"},
                   cancelled |-> {"draft", "scheduled", "running", "paused"},
                   archived  |-> {"completed", "cancelled", "failed"}]

\* Campaign.sendState.phase.
SendPhase == {"idle", "queued", "resolving", "running", "completed", "failed"}

\* CampaignRecipient.status, and "none" where there is no row.
RowStatus == {"none", "pending", "prepared", "queued", "suppressed"}

\* Communication.status of a campaign message, and "none" before it exists.
CommStatus == {"none", "sending", "sent", "failed"}

\* sendCampaign, inside the HTTP request.
RequestSteps == {"resetRows", "resetComms", "resetCampaign", "request"}

\* runCampaignSendFromSnapshot before its try block: a throw goes to the
\* catch of runCampaignSendJob.
BeforeTry == {"decide", "resolving", "clear", "insert", "resolved",
              "resumeCheck", "resumeDone", "precheck", "reserve",
              "reserveTake", "reserveRecord", "start", "release",
              "releaseClear", "sendCatch"}

\* Inside the try block of runCampaignSendFromSnapshot.
SendTry == {"load", "chunk", "filter", "suppress", "claim", "persist",
            "prepare", "bookkeep", "finish", "finalize", "finalizeClear",
            "complete", "chunkFailed"}

\* Inside the try block of processCampaignSendChunk.
ChunkTry == {"submit", "apply", "markQueued", "stats"}

\* Steps during which a Bull worker is executing the job.
ActiveSteps == BeforeTry \cup SendTry \cup ChunkTry \cup {"jobCatch", "attemptFailed"}

\* A send that will do nothing more: refused, finished, or given up by Bull.
EndSteps == {"rejected", "done", "failed"}

Step == {"idle", "waiting"} \cup RequestSteps \cup ActiveSteps \cup EndSteps
=============================================================================
