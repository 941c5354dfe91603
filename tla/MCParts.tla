------------------------------- MODULE MCParts ------------------------------
(***************************************************************************)
(* Parts of SSHakku that share no state, in one instance for TLC: a        *)
(* behaviour is one of one part, chosen at the start, and the others stay  *)
(* as they begin.                                                          *)
(***************************************************************************)
EXTENDS MoveKeys, Handoff, AgentService, SessionLog,
        ProtectKeys, Configuration, TLC

VARIABLE part

partsVars == <<part, vars, hoVars, svVars, slVars, pkVars, cfVars>>

PartsInit ==
  /\ part \in {"move_keys", "handoff", "agent_service",
               "session_log", "protect-keys", "configuration"}
  /\ Init /\ (part # "move_keys" => theirs = NoNames /\ decides = "own")
  /\ HandoffInit
  /\ AgentServiceInit
  /\ SessionLogInit
  /\ ProtectKeysInit
  /\ ConfigurationInit

PartsNext ==
  /\ UNCHANGED part
  /\ \/ part = "move_keys" /\ Next
     \/ part = "handoff" /\ HandoffNext
     \/ part = "agent_service" /\ AgentServiceNext
     \/ part = "session_log" /\ SessionLogNext
     \/ part = "protect-keys" /\ ProtectKeysNext
     \/ part = "configuration" /\ ConfigurationNext
  /\ part # "move_keys" => UNCHANGED vars
  /\ part # "handoff" => UNCHANGED hoVars
  /\ part # "agent_service" => UNCHANGED svVars
  /\ part # "session_log" => UNCHANGED slVars
  /\ part # "protect-keys" => UNCHANGED pkVars
  /\ part # "configuration" => UNCHANGED cfVars

PartsSpec ==
  PartsInit /\ [][PartsNext]_partsVars /\ HandoffFairness /\ AgentServiceFairness

(* Every part keeps its types.                                              *)
PartsTypeOK ==
  /\ TypeOK /\ HandoffTypeOK /\ AgentServiceTypeOK
  /\ SessionLogTypeOK /\ ProtectKeysTypeOK /\ ConfigurationTypeOK
=============================================================================
