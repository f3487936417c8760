\* Two requests at a time, two servers, one chat and one other conversation.
SPECIFICATION FairSpec
CONSTANTS
  c1 = c1
  c2 = c2
  s1 = s1
  s2 = s2
  chat = chat
  web = web
  Threads = {web}
  Chats = {chat}
  Lengths = {0, 2}
  Calls = {c1, c2}
  Servers = {s1, s2}
  MaxWork = 3
  MaxUpdates = 1
  MaxFaults = 1
INVARIANTS
  ConversationsAreKept
  RepliesInOrder
  RepeatedForCause
PROPERTIES
  UpdatesArePublished
\* Nobody may have more to say.
CHECK_DEADLOCK FALSE
