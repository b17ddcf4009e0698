----------------------------- MODULE MCEngines -----------------------------
(* Instances of Engines for TLC. *)
EXTENDS Engines

CONSTANTS p1, p2, p3

ThreePids == {p1, p2, p3}
AllKinds == {"qemu", "firecracker", "docker", "bhyve", "jail"}
=============================================================================
