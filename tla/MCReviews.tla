----------------------------- MODULE MCReviews ------------------------------
(***************************************************************************)
(* An instance of Reviews for TLC, and one request for an insight. The two *)
(* share ai-service and no state, so their interleavings tell nothing: a   *)
(* behaviour is one of the applications or one of the insight. What a      *)
(* service without a provider answers to an application is one of the      *)
(* errors of Answer, so one value of provider is enough for those.         *)
(***************************************************************************)
EXTENDS Reviews, Insight

(* At once, in time, while a pause runs, at the deadline, at the timeout.  *)
MCDurations == {0, 1, 6, Deadline - 1, Deadline, CallTimeout - 1, CallTimeout}

MCInit == Init /\ LuciInit

NoneApplied == \A a \in Applications : stage[a] = "new"

MCNext ==
  \/ NoneApplied /\ GenerateLuciInsight /\ UNCHANGED vars
  \/ told = "none" /\ provider /\ Next /\ UNCHANGED luci

MCSpec ==
  MCInit /\ [][MCNext]_<<vars, luci>>
    /\ \A a \in Applications : WF_vars(RecordVerdict(a))
=============================================================================
