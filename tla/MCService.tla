----------------------------- MODULE MCService ------------------------------
(***************************************************************************)
(* The parts of the service process and of its clients that have no state  *)
(* in common with each other, checked side by side: an initial state picks *)
(* one of them, whose steps are then taken while the rest stays as it was. *)
(***************************************************************************)
EXTENDS IpcWire, ClientKit, ResourceStore, HdfLoad, ComponentLoad, EnableParam, BusinessSync,
        LowLatency

VARIABLE part

\* Two descriptors that differ in every member, so that a mixed-up list shows.
MCIpcDescriptors ==
  { [dhType |-> 1, id |-> "dh1", customParams |-> "params1", token |-> 9],
    [dhType |-> 2, id |-> "dh2", customParams |-> "params2", token |-> 8] }

\* Configuration files: one that says nothing about audio, one that disables it
\* and one that enables a microphone for the sink role.
MCLdFiles ==
  { [types |-> {"camera"}, enable |-> [s \in Subtypes |-> {}]],
    [types |-> {"audio", "camera"},
     enable |-> [s \in Subtypes |-> {<<"sink", FALSE>>, <<"source", FALSE>>}]],
    [types |-> {"camera"}, enable |-> [s \in Subtypes |-> {<<"sink", s = "mic">>}]] }

\* The initial values a part chooses from are fixed where it takes no steps.
InitFixed ==
  /\ part # "kit" => kitSa = "up"
  /\ part # "store" => rsStore = "cap" /\ rsDb = [k \in RsKeys |-> "none"]
  /\ part # "loader" => file = CHOOSE f \in LdFiles : TRUE
  /\ part # "param" => epSubtype = "open" /\ epSameAccount /\ epActive /\ epOwnVersion

MCInit ==
  /\ part \in {"ipc", "kit", "store", "hdf", "loader", "param", "business", "latency"}
  /\ IpcInit /\ KitInit /\ RsInit /\ HdfInit /\ LdInit /\ EpInit /\ BzInit /\ LlInit
  /\ InitFixed

Kept(p, vars) == IF part = p THEN TRUE ELSE UNCHANGED vars

OthersKept ==
  /\ UNCHANGED part
  /\ Kept("ipc", ipcVars) /\ Kept("kit", kitVars) /\ Kept("store", rsVars)
  /\ Kept("hdf", hdfVars) /\ Kept("loader", ldVars) /\ Kept("param", epVars)
  /\ Kept("business", bzVars) /\ Kept("latency", llVars)

MCNext ==
  \/ part = "ipc" /\ OthersKept /\ IpcNext
  \/ part = "kit" /\ OthersKept /\ KitNext
  \/ part = "store" /\ OthersKept /\ RsNext
  \/ part = "hdf" /\ OthersKept /\ HdfNext
  \/ part = "loader" /\ OthersKept /\ LdNext
  \/ part = "param" /\ OthersKept /\ EpNext
  \/ part = "business" /\ OthersKept /\ BzNext
  \/ part = "latency" /\ OthersKept /\ LlNext
=============================================================================
