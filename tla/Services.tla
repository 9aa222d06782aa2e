------------------------------ MODULE Services ------------------------------
(***************************************************************************)
(* Threat intelligence, the agent sync, automation, sessions and health in *)
(* one process (main.rs): requests of all five interleave.  Each has       *)
(* tables and locals of its own, so that a step of one leaves the          *)
(* variables of the others alone.                                          *)
(***************************************************************************)
EXTENDS ThreatIntel, Agents, Automation, Session, Health

servicesVars == <<vars, syncVars, autoVars, sessionVars, healthVars>>

ServicesInit == Init /\ SyncInit /\ AutoInit /\ SessionInit /\ HealthInit

IntelMoves   == Next /\ UNCHANGED <<syncVars, autoVars, sessionVars, healthVars>>
SyncMoves    == SyncNext /\ UNCHANGED <<vars, autoVars, sessionVars, healthVars>>
AutoMoves    == AutoNext /\ UNCHANGED <<vars, syncVars, sessionVars, healthVars>>
SessionMoves == SessionNext /\ UNCHANGED <<vars, syncVars, autoVars, healthVars>>
HealthMoves  == HealthNext /\ UNCHANGED <<vars, syncVars, autoVars, sessionVars>>

ServicesNext == IntelMoves \/ SyncMoves \/ AutoMoves \/ SessionMoves \/ HealthMoves

ServicesSpec == ServicesInit /\ [][ServicesNext]_servicesVars

(* Every service is in a state of its type.                                *)
ServicesTypeOK == TypeOK /\ SyncTypeOK /\ AutoTypeOK /\ SessionTypeOK /\ HealthTypeOK
=============================================================================
