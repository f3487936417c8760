\* What the reuse of row ids does to a conversation: violated.
SPECIFICATION Spec
CONSTANTS
  c1 = c1
  c2 = c2
  s1 = s1
  s2 = s2
  chat = chat
  web = web
  Threads = {web}
  Chats = {chat}
  Lengths = {0, 2}
  Calls = {c1, c2}
  Servers = {s1, s2}
  MaxWork = 3
  MaxUpdates = 1
  MaxFaults = 0
INVARIANT OnlyItsOwnDeletion
CHECK_DEADLOCK FALSE
