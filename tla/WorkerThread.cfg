SPECIFICATION FairSpec
CONSTANTS
  MaxSent <- OnceOrTwice
INVARIANTS SilentOnceTerminated ReleasedWhenClosed ScriptsOnce
PROPERTIES StopsOrStarts ChannelsAttach
CHECK_DEADLOCK FALSE
