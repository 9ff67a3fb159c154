\* Two updates and two requests over two chats and one session, with crashes, losses of power and a
\* change of config.json between two starts.
SPECIFICATION Spec
SYMMETRY Interchangeable
CONSTANTS
  chat1 = chat1
  chat2 = chat2
  Chat = {chat1, chat2}
  Null = null
  Global = global
  NoWrite = noWrite
  Unchecked = unchecked
  NoSession = noSession
  NoBinding = noBinding
  Torn = torn
  Client = {u1, u2}
  Session = {s1}
  Request = {r1, r2}
  MaxRevision = 2
  Config <- Configs
  Payload <- Payloads
  Reset <- Resets
  Override <- Overrides
  Authority <- Authorities
INVARIANTS
  AckedUpdateSurvives
  OneWinnerPerRevision
  OneAuthorityPerSession
  NoSharedSession
PROPERTY UpdatesKeepChatsRunnable
CHECK_DEADLOCK FALSE
