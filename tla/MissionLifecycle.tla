--------------------------- MODULE MissionLifecycle ---------------------------
(***************************************************************************)
(* Statuses of a mission, the transitions the manager admits, and what a   *)
(* verifier's result says about the status.  Pure; Mission and             *)
(* MissionCampaign build on it.                                            *)
(***************************************************************************)
MissionStatuses == {"active", "paused", "completed", "failed", "canceled", "blocked",
                    "budget_exhausted", "verifier_failed"}

_ALLOWED_TRANSITIONS ==
    [s \in MissionStatuses |->
       CASE s = "active" -> MissionStatuses
         [] s = "paused" -> {"paused", "active", "canceled", "failed"}
         [] s = "completed" -> {"completed"}
         [] s = "failed" -> {"failed", "active", "canceled"}
         [] s = "canceled" -> {"canceled", "active"}
         [] s = "blocked" -> {"blocked", "active", "canceled", "failed"}
         [] s = "budget_exhausted" -> {"budget_exhausted", "active", "canceled"}
         [] s = "verifier_failed" -> {"verifier_failed", "active", "failed", "canceled"}]

can_transition_mission_status(previous, next) == next \in _ALLOWED_TRANSITIONS[previous]

(* What a verifier yields: it passes, it fails, or it throws.              *)
Results == {"passed", "failed", "threw"}
=============================================================================
