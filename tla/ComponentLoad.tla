---------------------------- MODULE ComponentLoad ---------------------------
(***************************************************************************)
(* ComponentLoader: reads the component profile, opens and closes the      *)
(* component libraries, and keeps the local version other devices read.    *)
(* Every method takes compHandlerMapMutex_ except the second half of the   *)
(* three Release methods, so those are two steps.                          *)
(***************************************************************************)
EXTENDS Integers

CONSTANTS
  LdTypes,         \* hardware types, "audio" among them
  LdKinds,         \* libraries of a component: "source", "sink", "hardware"
  LdFiles          \* component profiles a device may have installed

Subtypes == {"mic", "speaker"}
NoComp == <<>>

VARIABLES
  file,            \* the component profile installed on this device
  comp,            \* compHandlerMap_: absent, or the set of open libraries
  version,         \* types of localDHVersion_.compVersions
  versionInit,     \* isLocalVersionInit_
  stored,          \* types of the version record this process wrote, {} before it did
  addFailed,       \* the last AddVersion failed
  localInit,       \* isLocalInit_ of the manager
  rel              \* Release calls past their checks

ldVars == <<file, comp, version, versionInit, stored, addFailed, localInit, rel>>

LdInit ==
  /\ file \in LdFiles
  /\ comp = [t \in LdTypes |-> NoComp]
  /\ version = {} /\ versionInit = FALSE /\ stored = {} /\ addFailed = FALSE
  /\ localInit = FALSE /\ rel = {}

\* IsSubtypeAnyRoleEnabled: what ParseComponentEnableConfig made of the file;
\* a bool there sets both roles, an object the roles it names.
AnyRoleEnabled(s) == \E r \in {"sink", "source"} : <<r, TRUE>> \in file.enable[s]

\* RegisterAudioComponentIfNeeded: audio is built in unless every subtype is off.
AudioNeeded == \E s \in Subtypes : file.enable[s] = {} \/ AnyRoleEnabled(s)

WithAudio(types) == IF AudioNeeded THEN types \cup {"audio"} ELSE types \ {"audio"}

\* The types of localDHVersion_ once the file is parsed.
ParsedVersionNoAudio == version \cup file.types
ParsedVersion == WithAudio(version \cup file.types)

\* ParseConfig, GetCompPathAndVersion, GetAllHandler: a file that cannot be
\* found, read or parsed leaves the loader as it is.
ParseConfig ==
  \/ UNCHANGED <<comp, version, versionInit>>
  \/ /\ comp' = [t \in LdTypes |-> IF t \in WithAudio(file.types) THEN <<{}>> ELSE comp[t]]
     /\ version' = ParsedVersion
     /\ versionInit' = TRUE

\* Written only if a version was ever parsed.  AddVersion fails when the
\* database adapter is missing or refuses the record; nobody looks at it.
StoreLocalDHVersionInDB ==
  IF versionInit'
  THEN \/ stored' = version' /\ addFailed' = FALSE
       \/ stored' = stored /\ addFailed' = TRUE
  ELSE UNCHANGED <<stored, addFailed>>

LoaderInit == ParseConfig /\ StoreLocalDHVersionInDB

\* LocalInit runs the loader once between two releases of the manager.
LocalInit ==
  /\ ~localInit
  /\ LoaderInit
  /\ localInit' = TRUE
  /\ UNCHANGED rel

\* GetHandler: dlopen; ReleaseHandler: dlclose.
Open(t, k) == comp' = [comp EXCEPT ![t] = <<comp[t][1] \cup {k}>>]
Close(t, k) == comp' = [comp EXCEPT ![t] = <<comp[t][1] \ {k}>>]

\* GetSource, GetSink, GetHardwareHandler with a result pointer: open the
\* library when it is not, find the factory symbol, close it again when the
\* symbol is missing.
GetHandle(t, k) ==
  /\ comp[t] # NoComp
  /\ \/ Open(t, k)
     \/ k \notin comp[t][1] /\ UNCHANGED comp
     \/ Close(t, k)
  /\ UNCHANGED <<version, versionInit, stored, addFailed, localInit, rel>>

\* GetSource(dhType), GetSink(dhType), GetHardwareHandler(dhType): refused when
\* the library is open already.
LoadHandle(t, k) ==
  /\ comp[t] # NoComp /\ k \notin comp[t][1]
  /\ Open(t, k) \/ UNCHANGED comp
  /\ UNCHANGED <<version, versionInit, stored, addFailed, localInit, rel>>

\* IsDHTypeExist and IsDHTypeSourceLoaded (SinkLoaded, HandlerLoaded).
Loaded(t, k) == comp[t] # NoComp /\ k \in comp[t][1]

\* ReleaseSource, ReleaseSink, ReleaseHardwareHandler: the checks take the
\* lock, the use of compHandlerMap_[dhType] afterwards does not.
ReleaseChecked(t, k) ==
  /\ Loaded(t, k)
  /\ rel' = rel \cup {<<t, k>>}
  /\ UNCHANGED <<comp, version, versionInit, stored, addFailed, localInit>>

\* operator[] makes an empty entry when UnInit has cleared the map meanwhile.
ReleaseHandle(t, k) ==
  /\ <<t, k>> \in rel
  /\ comp' = [comp EXCEPT ![t] = IF @ = NoComp THEN <<{}>> ELSE <<@[1] \ {k}>>]
  /\ rel' = rel \ {<<t, k>>}
  /\ UNCHANGED <<version, versionInit, stored, addFailed, localInit>>

\* Release of the manager: UnInit closes every library; the version stays.
UnInit ==
  /\ localInit
  /\ comp' = [t \in LdTypes |-> NoComp]
  /\ localInit' = FALSE
  /\ UNCHANGED <<version, versionInit, stored, addFailed, rel>>

LdNext ==
  /\ \/ LocalInit \/ UnInit
     \/ \E t \in LdTypes, k \in LdKinds :
          \/ GetHandle(t, k) \/ LoadHandle(t, k)
          \/ ReleaseChecked(t, k) \/ ReleaseHandle(t, k)
  /\ UNCHANGED file

LdSpec == LdInit /\ [][LdNext]_ldVars

-----------------------------------------------------------------------------
(* Every type the loader supports has a local version, and is in the version *)
(* record other devices read before they use it unless the last attempt to   *)
(* write that record failed: the result of AddVersion is ignored and the     *)
(* loader goes on.  A failed attempt leaves no part of a version behind, and *)
(* neither the version nor the record names what the profile rules out.      *)
(* Through any sequence of Init, failed Init, UnInit and releases, the entry *)
(* a racing release re-creates included.                                     *)
LdSupportedIsVersioned ==
  /\ \A t \in LdTypes : comp[t] # NoComp => t \in version /\ (t \in stored \/ addFailed)
  /\ version \subseteq WithAudio(file.types) /\ stored \in {{}, version}
=============================================================================
