--------------------------- MODULE MCRuntimeEngine ---------------------------
EXTENDS RuntimeEngine

MCUnit == {"a", "b", "c", "d"}

MCGraphs == {
  [a |-> {}, b |-> {"a"}, c |-> {"a"}, d |-> {"b", "c"}],     \* diamond
  [a |-> {}, b |-> {}, c |-> {"a", "b"}, d |-> {"b"}],        \* two roots
  [a |-> {"b"}, b |-> {"a"}, c |-> {}, d |-> {}],             \* cycle
  [a |-> {"x"}, b |-> {}, c |-> {}, d |-> {}]}                \* unknown id

MCConfigs == [jobs : {0, 2}, failFast : BOOLEAN]
=============================================================================
