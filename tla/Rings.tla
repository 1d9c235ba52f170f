-------------------------------- MODULE Rings --------------------------------
(***************************************************************************)
(* The rings of zad1 and of zad2, which share nothing: in a behaviour of   *)
(* this module one of them runs, chosen at the start, zad1's as SemRing    *)
(* has it, zad2's over all its runs (PosixRestart).  The other one stays   *)
(* as it begins.                                                           *)
(***************************************************************************)
EXTENDS SemRing

CONSTANTS
  Workers2,    \* of zad2
  MaxTorn

VARIABLES
  version,
  sem2, ring2, loc2, phase, call, named, living, stale, torn

vars2 == <<sem2, ring2, loc2, phase, call, named, living, stale, torn>>

Posix == INSTANCE PosixRestart
  WITH Workers <- Workers2, sem <- sem2, ring <- ring2, loc <- loc2

RingsInit == version \in {"zad1", "zad2"} /\ Init /\ Posix!RestartInit

RingsNext ==
  \/ version = "zad1" /\ Next /\ UNCHANGED <<version, vars2>>
  \/ version = "zad2" /\ Posix!RestartNext /\ UNCHANGED <<version, vars>>

RingsSpec == RingsInit /\ [][RingsNext]_<<version, vars, vars2>>

-----------------------------------------------------------------------------
\* Killed runs lose tokens of the named semaphores, and make some only between two unlinks of
\* pizzeria_delete: furnace.c and table.c of zad2, pizzeria.c.
CapacityNeverGrows == Posix!CapacityNeverGrows

\* A run that finds no old names meets nothing of the runs before it, and is a run of a
\* bounded first-in first-out queue: furnace.c and table.c of zad2, pizzeria_create.
FreshRunsAreFifo == Posix!FreshRunsAreFifo
=============================================================================
