\* Three commands of every kind, every reply, timer, abort and teardown order; nothing needs to answer.
SPECIFICATION FairSpec
CONSTANTS
  MaxCmds = 3
INVARIANTS
  WaitersAreOwed
  PendingIsQueued
  CutOffIsNotRefused
PROPERTIES
  NothingOutlivesTheLink
  Correlated
  TimersSettle
