---------------------------- MODULE MCReleaseRuns ----------------------------
EXTENDS ReleaseRuns

\* A library and what depends on it in one repository, a plugin in another; the
\* plan goes from one repository to the other and back.
MCModule == {"lib", "app", "ext"}
MCMemberOf == [m \in MCModule |-> IF m = "ext" THEN "plugin" ELSE "main"]
MCRank == [m \in MCModule |-> CASE m = "lib" -> 0 [] m = "ext" -> 1 [] m = "app" -> 2]
MCDependsOn == {<<"app", "lib">>}
MCDeveloped == {<<"desk", "lib">>}

\* Command lines: release tag, release publish, release publish --set-version v.
tagRun(noPush) == [publish |-> FALSE, noPush |-> noPush, setVersion |-> 0]
publishRun(v) == [publish |-> TRUE, noPush |-> FALSE, setVersion |-> v]
MCRunOptions == {tagRun(TRUE), publishRun(0), publishRun(2)}

\* The runs of one clone in which a document is refuted.
MCPublishOnly == {publishRun(0)}

\* A run that prepares, commits or tags, that pushes nothing, or whose loop is over
\* touches nothing other clones see and sees nothing of theirs: its step commutes
\* with theirs, so it is taken first.
Private(c) ==
  \/ pc[c] \in {"prepare", "commit", "tag"}
  \/ pc[c] = "push" /\ ~Pushes(c)
  \/ pc[c] \in {"reconcile", "publish", "host"} /\ todo[c] = {}
PrivateStepsFirst == (\E c \in Clone : Private(c)) =>
  \E c \in Clone : Private(c) /\ <<pc[c], left[c], todo[c]>>' # <<pc[c], left[c], todo[c]>>
===============================================================================
