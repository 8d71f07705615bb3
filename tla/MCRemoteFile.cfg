\* The agent and the download end, and others change the file a bounded number
\* of times.  The agent and the download meet only in the file, and an edit is
\* to a download one more replacement by others, so each runs alone.
CHECK_DEADLOCK FALSE
SPECIFICATION FairSpec
CONSTANTS
  None = None
  MaxText = 4
  MaxEdits = 2
  TailSlack = 1
  Contents <- Texts
  Limits = {1, 2}
  EditLists <- Lists
  Chunk = 2
  Casts = {{"agent"}, {"download"}}
  MaxChanges = 3
INVARIANTS
  PagesAgree
  CapExact
  TargetSound
PROPERTIES
  EditKeepsOthers
  AgentSettles
  DownloadReturns
