CONSTANTS
  Overlap = FALSE
  Stored = {"unprovisioned", "provisioned"}
  MaxEvents = 2
SPECIFICATION Spec
INVARIANTS TypeOK SMFollowsStatus ChannelIsCurrent ClientsKnowClock SubscribersKnowConnection AnsweredMeansDone
 
