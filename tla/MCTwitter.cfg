\* Two drafts, two tries per post, two approvals, one interrupted cycle.
SPECIFICATION Spec
CONSTANTS
  MaxDrafts = 2
  MaxRetries = 2
  MaxApprovals = 2
  MaxInterrupts = 1
INVARIANTS
  EachCopyHasACause
  PostedIsPublished
  AgentWordsNeedApproval
CHECK_DEADLOCK FALSE
