------------------------------- MODULE MCFleet -------------------------------
(***************************************************************************)
(* The satellites: how machines are enrolled, which is Enrolment, and how  *)
(* their rows are managed and agents deployed to them, which is Fleet.     *)
(* Both write the table satellites, but Fleet leaves out which machine a   *)
(* row is for, so a behaviour is one of a single part, chosen at the       *)
(* start.                                                                  *)
(***************************************************************************)
EXTENDS Enrolment

CONSTANTS Parts,              \* the parts to check
          MaxSatellites, Names, Tags, Clients, MaxSessions,   \* of Fleet
          Cpus, Mems, Disks,  \* the percentages telemetry reports
          Targets             \* satellites a deployment may name

(* Telemetry reports percentages, and there are finitely many tags.        *)
ASSUME LoadsAssumption == Cpus \cup Mems \cup Disks \subseteq 0 .. 100
ASSUME TagsAssumption == IsFiniteSet(Tags)

VARIABLES part, sat, made, telemetry, stream, sessions, req

fleetVars == <<sat, made, telemetry, stream, sessions, req>>
allVars == <<part, vars, fleetVars>>

(* Deployments require any tags, prefer any, and name a satellite or none.  *)
Sats == INSTANCE Fleet WITH
  Loads <- [cpu : Cpus, mem : Mems, disk : Disks],
  Orders <- [require : SUBSET Tags, prefer : SUBSET Tags, target : Targets \cup {None}],
  born <- made
-----------------------------------------------------------------------------
PartInit == part \in Parts /\ Init /\ Sats!Init

EnrolPart == part = "enrolment" /\ Next /\ UNCHANGED <<part, fleetVars>>

FleetPart == part = "fleet" /\ Sats!Next /\ UNCHANGED <<part, vars>>

PartNext == EnrolPart \/ FleetPart

PartSpec == PartInit /\ [][PartNext]_allVars
-----------------------------------------------------------------------------
(* The satellite chosen for an agent has the required tags, and no         *)
(* satellite that was passed over beats it in every respect                *)
(* (dispatcher.go:85-111, 288-305).                                        *)
NotDominated == Sats!NotDominated
=============================================================================
