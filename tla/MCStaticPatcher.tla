-------------------------- MODULE MCStaticPatcher --------------------------
(* Builds and launchers of StaticPatcher. *)
EXTENDS StaticPatcher, TLC

CONSTANTS l1, l2, none

MCLauncher == {l1, l2}

Build(gate, near) == [gate |-> gate, near |-> near]

\* What the builds of May and June 2026 are like, each of the other forms, a build
\* without epilogue in reach, one whose short frame another function hides.
Known == Build("bit18", {1, 4, 5})
Others ==
  {Build("mask", {1, 2, 4, 5}), Build("short", {4, 5}), Build("short", {1, 4, 5}),
   Build("byte", {1, 3, 4, 5}), Build("bit18", {}), Build("options", {}),
   Build("unknown", {4, 5})}
MCHistories == {<<Known, b>> : b \in Others \cup {Known}} \cup {<<b, Known>> : b \in Others}

Symmetry == Permutations(MCLauncher)
=============================================================================
