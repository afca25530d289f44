SPECIFICATION Spec
CONSTANTS Peers = {"a", "b"}
          Tests = {"t"}
          MaxEdits = 3
INVARIANT NeverSnapshottedFailsClosed
CHECK_DEADLOCK FALSE
