-------------------------------- MODULE MCAv --------------------------------
(***************************************************************************)
(* The parts of the AV transport, checked side by side: an initial state   *)
(* picks one of them, whose steps are then taken while the rest stays as   *)
(* it was.                                                                 *)
(***************************************************************************)
EXTENDS AvChannel, AvEngine, AvSync, AvCenter, AvOutput, AvCoder, AvPipeline, AvPlugin

VARIABLE part

\* The initial values a part chooses from are fixed where it takes no steps.
InitFixed ==
  /\ part # "engine" => /\ engClass = CHOOSE c \in EngClasses : TRUE
                        /\ engOwner = CHOOSE o \in EngOwners : TRUE
                        /\ engPeer = CHOOSE p \in EngPeers : TRUE
  /\ part # "coder" => coderKind = "encoder"
  /\ part # "pipeline" => side = "sender" /\ coded
  /\ part # "plugin" => plgKind = "busOut"

MCInit ==
  /\ part \in {"channel", "engine", "sync", "center", "output", "coder", "pipeline",
              "plugin"}
  /\ ChInit /\ EngInit /\ SyncInit /\ CenInit /\ OcInit /\ CdInit /\ PipeInit
  /\ PlgInit
  /\ InitFixed

Kept(p, vars) == IF part = p THEN TRUE ELSE UNCHANGED vars

OthersKept ==
  /\ UNCHANGED part
  /\ Kept("channel", chVars) /\ Kept("engine", engVars) /\ Kept("sync", syncVars)
  /\ Kept("center", cenVars) /\ Kept("output", ocVars) /\ Kept("coder", cdVars)
  /\ Kept("pipeline", pipeVars) /\ Kept("plugin", plgVars)

MCNext ==
  \/ part = "channel" /\ OthersKept /\ ChNext
  \/ part = "engine" /\ OthersKept /\ EngNext
  \/ part = "sync" /\ OthersKept /\ SyncNext
  \/ part = "center" /\ OthersKept /\ CenNext
  \/ part = "output" /\ OthersKept /\ OcNext
  \/ part = "coder" /\ OthersKept /\ CdNext
  \/ part = "pipeline" /\ OthersKept /\ PipeNext
  \/ part = "plugin" /\ OthersKept /\ PlgNext
=============================================================================
