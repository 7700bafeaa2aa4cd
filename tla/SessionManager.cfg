\* Two senders and two applications, a limit of one session each: a sender
\* can hold sessions of both applications. No symmetry: it is unsound for
\* SlotReclaimed.
CONSTANTS
  Handle = {h1, h2}
  Sender = {s1, s2}
  App = {a1, a2}
  None = None
  MaxSessions = 1
  MaxIdle = 1
  MaxAge = 3
SPECIFICATION FairSpec
INVARIANTS TypeOK RegistrySound
PROPERTIES StepsSound RegistrySpec SlotReclaimed
