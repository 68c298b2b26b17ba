------------------------------- MODULE MCSse -------------------------------
(* TLC instances of Sse. *)
EXTENDS Sse

\* Two harts share two global events.
TwoGlobals ==
  [up |-> {1, 2}, globals |-> {10, 11}, locals |-> {}, prios |-> {0},
   configs |-> {TRUE, FALSE}, moves |-> "never", stops |-> FALSE]

\* A global event is moved back and forth between two harts.
Moving ==
  [up |-> {1, 2}, globals |-> {10}, locals |-> {}, prios |-> {0},
   configs |-> {FALSE}, moves |-> "quiet", stops |-> FALSE]

\* Three events of changing priority nest on a hart that stops and starts.
Nesting ==
  [up |-> {1}, globals |-> {10}, locals |-> {5, 6}, prios |-> {0, 1},
   configs |-> {TRUE, FALSE}, moves |-> "never", stops |-> TRUE]

\* Two harts inject local events into each other.
Crossing ==
  [up |-> {1, 2}, globals |-> {}, locals |-> {5}, prios |-> {0},
   configs |-> {FALSE}, moves |-> "never", stops |-> FALSE]

SafetySetups == {TwoGlobals, Moving, Nesting}
LiveSetups == {Crossing}
=============================================================================
