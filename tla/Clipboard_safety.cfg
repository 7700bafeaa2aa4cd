SPECIFICATION PortalSpec
CONSTANTS
  Base = {"text", "image"} TextBase = {"text"} Charset = {"", "utf-8", "UTF-8", "other"} NoMatch = NoMatch
  MaxCopy = 2 MaxPaste = 2 MaxSel = 2 None = None Faults = {"primary", "stop", "device_gone"}
  Offers <- MCOffers MaxCmds = 2 Wanted <- MCWanted
  Session = {h1} DirectCopies = 1 Unheard = Unheard
INVARIANTS PortalTypeOK PastesServed AgreesWithCompositor OwnerKnown MatchIsNearest
CHECK_DEADLOCK FALSE
