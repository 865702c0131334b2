----------------------------- MODULE MCVersionPlan -----------------------------
(* Projects and command lines for TLC. *)
EXTENDS VersionPlan

CONSTANTS lib, app, root

MCModule == {lib, app, root}
MCStable == 3   \* channels 1 and 2

Chain == {<<app, lib>>, <<root, app>>}
Star == {<<root, lib>>, <<root, app>>}
All(x) == [m \in MCModule |-> x]

Project(deps, mode, baseline) ==
  [deps |-> deps, level |-> All("Auto"), dependents |-> All("Bump"), excluded |-> {},
   umbrella |-> IF mode = "PerModule" THEN NoModule ELSE root, tagMode |-> mode,
   baseline |-> baseline, policy |-> "SemverCascade", channels |-> {2}, released |-> MCModule]

MCProjects ==
  { \* Go's layout, with a module never released yet and one that never is
    [Project(Chain, "PerModule", "OwnTag") EXCEPT !.released = {lib}, !.excluded = {root}],
    \* JavaScript's
    [Project(Chain, "PerModule", "Registry") EXCEPT !.level[app] = "Minor"],
    \* Rust's
    Project(Star, "Both", "RegistryUmbrella"),
    [Project(Chain, "Umbrella", "UmbrellaTag") EXCEPT !.released = {}],
    [Project(Chain, "PerModule", "OwnTag") EXCEPT !.dependents[app] = "Upgrade",
                                                  !.channels = {1, 2}],
    [Project(Chain, "PerModule", "OwnTag") EXCEPT !.policy = "Manifest"] }

\* Rust's layout, with a module the umbrella does not depend on.
MCApart == {Project({<<root, lib>>}, "Both", "RegistryUmbrella")}

None == [levels |-> All("None"), sets |-> All(NoVersion), named |-> {}, channel |-> MCStable]
MCRequests ==
  { None,
    [None EXCEPT !.channel = 1], [None EXCEPT !.channel = 2],
    [None EXCEPT !.sets[lib] = <<1, 2, 0, MCStable, 0>>, !.levels[app] = "Minor",
                 !.named = {lib, app}] }

MCOutages == {{}, {lib}}
MCBreaking == {2}
=============================================================================
