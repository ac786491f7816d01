------------------------ MODULE MCPositionLifecycle ------------------------
(* Instances of PositionLifecycle for TLC. *)
EXTENDS PositionLifecycle

Settled == {"monitor", "timestop", "momentum"}
WithMomentum == {"monitor", "momentum"}
Entered == {"monitor", "unwind"}

Usual == {"partial", "throws", "external"}
Everything == FaultKinds
=============================================================================
