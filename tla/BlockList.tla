------------------------------ MODULE BlockList ------------------------------
(***************************************************************************)
(* The blocked addresses and their file blocked.json.  An administrator's  *)
(* block or unblock changes the list under the resolver's lock, copies it  *)
(* under the lock again, and writes the copy without any lock: to one      *)
(* temporary file all writers share, renamed onto the list's path.         *)
(***************************************************************************)
EXTENDS Integers, FiniteSets

CONSTANTS Ips, Editors,
          MaxEdits     \* bound: blocks and unblocks

VARIABLES blocked,   \* the addresses in memory
          file, tmp, \* what the list's path and the temporary path hold
          admin,     \* per administrator: the call under way
          edits,
          settled,   \* history: the list before the call under way
          sure       \* history: no two writes met and none failed

blockVars == <<blocked, file, tmp, admin, edits, settled, sure>>

NoFile == [is |-> "none", ips |-> {}]
Blank == [is |-> "blank", ips |-> {}]          \* created or truncated
Torn == [is |-> "torn", ips |-> {}]            \* the rests of two writes
List(s) == [is |-> "list", ips |-> s]
Contents == {NoFile, Blank, Torn} \cup {List(s) : s \in SUBSET Ips}

Waiting == [at |-> "idle", copy |-> {}, on |-> "none"]

BlocksInit ==
  /\ blocked = {} /\ file = NoFile /\ tmp = NoFile
  /\ admin = [a \in Editors |-> Waiting]
  /\ edits = 0 /\ settled = {} /\ sure = TRUE

Busy == {a \in Editors : admin[a].at # "idle"}

Changed(a, list) ==
  /\ admin[a].at = "idle" /\ edits < MaxEdits
  /\ edits' = edits + 1
  /\ settled' = IF Busy = {} THEN blocked ELSE settled
  /\ sure' = (sure /\ Busy = {})
  /\ blocked' = list
  /\ admin' = [admin EXCEPT ![a].at = "changed"]
  /\ UNCHANGED <<file, tmp>>

BlockIP(a, ip) == Changed(a, blocked \cup {ip})
UnblockIP(a, ip) == Changed(a, blocked \ {ip})

Copy(a) ==
  /\ admin[a].at = "changed"
  /\ admin' = [admin EXCEPT ![a].at = IF blocked = {} THEN "removing"
                                                      ELSE "opening",
                            ![a].copy = blocked]
  /\ UNCHANGED <<blocked, file, tmp, edits, settled, sure>>

(* A path that is removed or renamed over takes its open handles along. *)
Moved(from, to) ==
  [a \in Editors |-> [admin[a] EXCEPT !.on = IF @ = from THEN to
                                            ELSE IF @ = to THEN "gone" ELSE @]]

RemoveFile(a) ==
  /\ admin[a].at = "removing"
  /\ file' = NoFile
  /\ admin' = [Moved("file", "gone") EXCEPT ![a] = Waiting]
  /\ UNCHANGED <<blocked, tmp, edits, settled, sure>>

OpenTmp(a) ==
  /\ admin[a].at = "opening"
  /\ \/ /\ tmp' = Blank
        /\ admin' = [admin EXCEPT ![a].at = "writing", ![a].on = "tmp"]
        /\ UNCHANGED sure
     \/ /\ sure' = FALSE                             \* the open failed
        /\ admin' = [admin EXCEPT ![a] = Waiting]
        /\ UNCHANGED tmp
  /\ UNCHANGED <<blocked, file, edits, settled>>

(* The write goes over what another writer left behind the same handle:    *)
(* a longer text keeps its tail.                                           *)
Over(old, copy) ==
  CASE old.is = "blank" -> {List(copy)}
    [] old.is = "list" /\ old.ips \subseteq copy -> {List(copy)}
    [] OTHER -> {List(copy), Torn}

WriteTmp(a) ==
  /\ admin[a].at = "writing"
  /\ LET w == admin[a] IN
       \/ /\ CASE w.on = "tmp" -> tmp' \in Over(tmp, w.copy) /\ UNCHANGED file
               [] w.on = "file" -> file' \in Over(file, w.copy) /\ UNCHANGED tmp
               [] w.on = "gone" -> UNCHANGED <<file, tmp>>
          /\ admin' = [admin EXCEPT ![a].at = "renaming", ![a].on = "none"]
          /\ UNCHANGED sure
       \/ /\ sure' = FALSE                           \* the write failed
          /\ admin' = [admin EXCEPT ![a] = Waiting]
          /\ UNCHANGED <<file, tmp>>
  /\ UNCHANGED <<blocked, edits, settled>>

Rename(a) ==
  /\ admin[a].at = "renaming"
  /\ \/ /\ tmp # NoFile
        /\ file' = tmp /\ tmp' = NoFile
        /\ admin' = [Moved("tmp", "file") EXCEPT ![a] = Waiting]
        /\ UNCHANGED sure
     \/ /\ tmp' = NoFile /\ sure' = FALSE            \* failed: tmp is removed
        /\ admin' = [Moved("tmp", "gone") EXCEPT ![a] = Waiting]
        /\ UNCHANGED file
  /\ UNCHANGED <<blocked, edits, settled>>

(***************************************************************************)
(* A crash and the next start.                                             *)
(***************************************************************************)
BlocksCrash ==
  /\ blocked' = {} /\ admin' = [a \in Editors |-> Waiting]
  /\ UNCHANGED <<file, tmp, edits, settled, sure>>

Readable(f) == IF f.is = "list" THEN f.ips ELSE {}

LoadBlockedIPs ==
  /\ blocked' = Readable(file) /\ settled' = Readable(file) /\ sure' = TRUE
  /\ UNCHANGED <<file, tmp, admin, edits>>

BlockStep ==
  \E a \in Editors :
    \/ \E ip \in Ips : BlockIP(a, ip) \/ UnblockIP(a, ip)
    \/ Copy(a) \/ RemoveFile(a) \/ OpenTmp(a) \/ WriteTmp(a) \/ Rename(a)

=============================================================================
