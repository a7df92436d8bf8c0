SPECIFICATION PollersSpec
CONSTANTS
  Fds <- MCFds
INVARIANTS WatchedExactly
