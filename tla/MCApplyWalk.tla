----------------------------- MODULE MCApplyWalk -----------------------------
EXTENDS ApplyWalk

MCUnit == {"a", "b", "c", "d"}
MCGroup == MCUnit

Own == [u \in MCUnit |-> u]

\* Two builds share a target directory beside a third; the last unit needs both.
Builds == [deps |-> [a |-> {}, b |-> {}, c |-> {}, d |-> {"a", "b"}],
           wave |-> [a |-> 1, b |-> 1, c |-> 1, d |-> 2],
           group |-> [Own EXCEPT !["b"] = "a"],
           persistent |-> {}, hit |-> {}, keyed |-> {"a", "c"}]

\* A service, a root that can fail beside it, a test that needs both, a hit.
Mixed == [deps |-> [a |-> {}, b |-> {}, c |-> {"a", "b"}, d |-> {"a"}],
          wave |-> [a |-> 1, b |-> 1, c |-> 2, d |-> 2],
          group |-> Own,
          persistent |-> {"a"}, hit |-> {"d"}, keyed |-> {"b"}]

\* A service that depends on a service, a test of the second, a job of the first.
Chain == [deps |-> [a |-> {}, b |-> {"a"}, c |-> {"b"}, d |-> {"a"}],
          wave |-> [a |-> 1, b |-> 2, c |-> 3, d |-> 2],
          group |-> Own,
          persistent |-> {"a", "b"}, hit |-> {}, keyed |-> {"d"}]

\* `toven dev`: an API service and a web service that calls it, nothing else downstream.
DevServices == [Chain EXCEPT !.deps = [a |-> {}, b |-> {"a"}, c |-> {}, d |-> {}],
                             !.wave = [a |-> 1, b |-> 2, c |-> 1, d |-> 1],
                             !.keyed = {}]
DevPlans == {DevServices}
DevOptions == [maxParallel : {2}, failFast : {FALSE}, unitTimeout : {FALSE}]

MCPlans == {Builds, Mixed, Chain}

MCOptions == [maxParallel : {1, 2}, failFast : BOOLEAN, unitTimeout : BOOLEAN]
=============================================================================
