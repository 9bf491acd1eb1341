SPECIFICATION KnowledgeSpec
CONSTANTS
  Docs = {d1, d2}
  Tasks = {1, 2}
  Stores = {"memory", "supabase"}
  Quota = 3
  MaxPieces = 2
  MaxLost = 1
  MaxRestarts = 1
CHECK_DEADLOCK FALSE
INVARIANT SearchIsCurrent
