------------------------------ MODULE MCRequests ------------------------------
(***************************************************************************)
(* Instances for TLC of the components that serve requests, and of the     *)
(* tools around them.  They share no state, so that a behaviour explores   *)
(* one of them, chosen at the start; the others stay as they are.          *)
(***************************************************************************)
EXTENDS SessionBinding, Access, RequestPath, SqlTiming, StatsReport, Acceptance, Gather, TLC

CONSTANTS r1, r2, r3, ea, eb, ga

VARIABLE part  \* the component that is explored

mcVars == <<part, bindVars, accessVars, pathVars, timingVars, statVars, testVars, gatherVars>>

(* Values of the constants. *)
MCPidOf == (r1 :> 1) @@ (r2 :> 2) @@ (r3 :> 1)
MCExtras == <<ea, eb>>
MCGauges == <<ga>>
MCSampleOf == (ea :> 1) @@ (eb :> 1) @@ (ga :> 2)

NoSettings == [client |-> FALSE, repository |-> FALSE, key |-> "none", secret |-> None,
               session |-> "none", enabled |-> {"debug"}]

MCInit ==
  /\ part \in {"binding", "access", "path", "timing", "stats", "test", "gather"}
  /\ BindInit /\ (part # "binding" => setup = SetupSession("main") /\ asked = "READ_ONLY")
  /\ AccessInit /\ (part # "access" => settings = NoSettings)
  /\ PathInit /\ (part # "path" => incoming = [method |-> "GET", auth |-> FALSE, route |-> FALSE])
  /\ TimingInit
  /\ StatInit /\ (part # "stats" => args = [extra |-> <<>>, gauge |-> <<>>, push |-> FALSE])
  /\ TestInit /\ (part # "test" => job = "retry")
  /\ GatherInit /\ (part # "gather" => gathered = "memory" /\ limit = 0)

MCNext ==
  \/ /\ part = "binding" /\ BindNext
     /\ UNCHANGED <<part, accessVars, pathVars, timingVars, statVars, testVars, gatherVars>>
  \/ /\ part = "access" /\ AccessNext
     /\ UNCHANGED <<part, bindVars, pathVars, timingVars, statVars, testVars, gatherVars>>
  \/ /\ part = "path" /\ PathNext
     /\ UNCHANGED <<part, bindVars, accessVars, timingVars, statVars, testVars, gatherVars>>
  \/ /\ part = "timing" /\ TimingNext
     /\ UNCHANGED <<part, bindVars, accessVars, pathVars, statVars, testVars, gatherVars>>
  \/ /\ part = "stats" /\ StatNext
     /\ UNCHANGED <<part, bindVars, accessVars, pathVars, timingVars, testVars, gatherVars>>
  \/ /\ part = "test" /\ TestNext
     /\ UNCHANGED <<part, bindVars, accessVars, pathVars, timingVars, statVars, gatherVars>>
  \/ /\ part = "gather" /\ GatherNext
     /\ UNCHANGED <<part, bindVars, accessVars, pathVars, timingVars, statVars, testVars>>

MCSpec == MCInit /\ [][MCNext]_mcVars

\* The variables of each component have values of their types, whatever its actions do.
RequestsTypeOK ==
  CASE part = "binding" -> BindTypeOK
    [] part = "access" -> AccessTypeOK
    [] part = "path" -> PathTypeOK
    [] part = "timing" -> TimingTypeOK
    [] part = "stats" -> StatTypeOK
    [] part = "test" -> TestTypeOK
    [] part = "gather" -> GatherTypeOK
==============================================================================
