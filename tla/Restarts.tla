------------------------------ MODULE Restarts ------------------------------
(***************************************************************************)
(* What outlives the process: the catalog and the block list, each with    *)
(* its copy on disk, under one process that may die between any two steps. *)
(* main imports the old catalog file, then the resolver loads the block    *)
(* list, then the store loads the catalog and its refreshes begin.         *)
(***************************************************************************)
EXTENDS Catalog, BlockList

CONSTANT MaxDeaths      \* bound: crashes

VARIABLES stage,    \* of the start: "off", "migrated", "blocks", then "up"
          deaths

diskVars == <<catalogVars, blockVars, stage, deaths>>

DiskInit == CatalogInit /\ BlocksInit /\ stage = "off" /\ deaths = 0

Migrate ==
  /\ stage = "off" /\ stage' = "migrated"
  /\ MigrateCatalogJSON
  /\ UNCHANGED <<blockVars, deaths>>

LoadBlocks ==
  /\ stage = "migrated" /\ stage' = "blocks"
  /\ LoadBlockedIPs
  /\ UNCHANGED <<catalogVars, deaths>>

\* Fault: no load before the refreshes begin.
RefreshUnloaded ==
  /\ stage = "blocks" /\ stage' = "up"
  /\ chain' = 1
  /\ UNCHANGED <<cache, table, legacy, refresher, ticks, unread, mixed,
                 blockVars, deaths>>

LoadCatalog ==
  /\ stage = "blocks" /\ stage' = "up"
  /\ LoadSnapshot
  /\ UNCHANGED <<blockVars, deaths>>

ProcessDies ==
  /\ stage # "off" /\ stage' = "off"
  /\ deaths < MaxDeaths /\ deaths' = deaths + 1
  /\ CatalogCrash /\ BlocksCrash

(* The two parts share the process and nothing else, and no property reads *)
(* both, so a behaviour interleaves the crashes with one of them (bound). *)
Refresh ==
  /\ stage = "up" /\ edits = 0
  /\ RefreshStep
  /\ UNCHANGED <<blockVars, stage, deaths>>

Moderate ==
  /\ stage = "up" /\ ticks = 0 /\ chain = 1
  /\ BlockStep
  /\ UNCHANGED <<catalogVars, stage, deaths>>

DiskNext == Migrate \/ LoadBlocks \/ LoadCatalog \/ ProcessDies \/ Refresh \/ Moderate

DiskSpec == DiskInit /\ [][DiskNext]_diskVars

(***************************************************************************)
(* Properties.                                                             *)
(***************************************************************************)
(* "A restart serves the last good catalog": once the refreshes are quiet, *)
(* the table holds what the caches hold, unless a save failed, the table   *)
(* could not be read at the start, or one refresh changed its cache while  *)
(* another was copying (persistSnapshot copies before it takes the lock,   *)
(* so the older copy may be saved last).                                   *)
CatalogSurvives ==
  stage = "up" /\ ~mixed /\ ~(\E k \in Kinds : Writing(k)) => table = cache

(* "Blocks are administrative decisions: they must survive a restart": the *)
(* file reads as the list in memory, or, while one call is writing, as the *)
(* list before it, so a crash at any point keeps the old list or the new   *)
(* one.  It holds unless two calls met or a write failed (sure): writers   *)
(* share the temporary file and copy before they write.                    *)
BlocksSurvive ==
  stage = "up" /\ sure =>
    Readable(file) \in (IF Busy = {} THEN {blocked} ELSE {settled, blocked})

(* A crash loses neither: what a start reads is what was last there. *)
RestartKeeps == CatalogSurvives /\ BlocksSurvive

=============================================================================
