------------------------------- MODULE GeoCache -------------------------------
(***************************************************************************)
(* The database of countries that the controller keeps in memory           *)
(* (geoip_handler.go: openStagedDatabase): it is the one that the search   *)
(* finds, and now and then the controller looks whether the file is still  *)
(* the one it read, while updates and users move files.  The module adds   *)
(* it to Staging.                                                          *)
(***************************************************************************)
EXTENDS Staging

VARIABLE geo

geoVars == <<archived, disk, persisted, job, found, staged, start, geo>>

(* The release that the database is of, its path, and the time of the file *)
(* there; of which it only matters where the file that had it is now.      *)
(* While a file is being opened, the time was taken.  As history, whether  *)
(* nothing was moved since the last look began.  As a bound, a behaviour   *)
(* has lookups, or it has starts (lookups are "off"): neither reads what   *)
(* the other writes.                                                       *)
Geo == [at : {"idle", "open", "off"}, db : Releases \cup {None}, path : Places,
        seen : {"target", "bak", "gone"}, undisturbed : BOOLEAN]

Unopened == [at |-> "idle", db |-> None, path |-> 1, seen |-> "gone", undisturbed |-> FALSE]

GeoInit == StagingInit /\ geo \in {Unopened, [Unopened EXCEPT !.at = "off"]}

Looking(g) == job.at # "down" /\ ~archived /\ geo' = g /\ UNCHANGED allVars

(* Mutant: a file at the same path is the same file.                       *)
LookByPath ==
  /\ geo.at = "idle"
  /\ Looking(IF Present = {} THEN Unopened
             ELSE IF geo.db # None /\ geo.path = First
             THEN [geo EXCEPT !.undisturbed = TRUE]
             ELSE [at |-> "open", db |-> None, path |-> First, seen |-> "target", undisturbed |-> TRUE])

(* The interval is over: the file is found, and its time is taken.         *)
Look ==
  /\ geo.at = "idle"
  /\ Looking(IF Present = {} THEN Unopened
             ELSE IF geo.db # None /\ geo.path = First /\ geo.seen = "target"
             THEN [geo EXCEPT !.undisturbed = TRUE]
             ELSE [at |-> "open", db |-> None, path |-> First, seen |-> "target", undisturbed |-> TRUE])

(* Then it is read, by now perhaps another one.                            *)
Open ==
  /\ geo.at = "open"
  /\ Target(geo.path) # None
  /\ Looking([geo EXCEPT !.at = "idle", !.db = Target(geo.path).of])

(* There is none, or it cannot be read.                                    *)
OpenFails == geo.at = "open" /\ Looking(Unopened)

(* A file keeps its time when it is moved; no two files have the same.     *)
Moved(seen, before, after) ==
  CASE seen = "target" -> IF after.target = None THEN "bak" ELSE "target"
    [] seen = "bak" /\ after.bak = None ->
         IF before.target = None /\ after.target # None THEN "target" ELSE "gone"
    [] seen = "bak" /\ after.bak # None ->
         IF before.target # None /\ after.target = None THEN "gone" ELSE "bak"
    [] OTHER -> "gone"

(* What the steps of Staging mean for it.                                  *)
Elsewhere ==
  /\ StagingNext
  /\ geo.at # "off" => \A i \in Instances : start'[i].at = "idle"
  /\ geo' = IF geo.at = "off" THEN geo
            ELSE IF job'.at = "down" THEN Unopened
            ELSE [geo EXCEPT !.seen = Moved(@, disk[geo.path], disk'[geo.path]),
                             !.undisturbed = @ /\ disk' = disk]

GeoNext == Look \/ Open \/ OpenFails \/ Elsewhere

GeoSpec == GeoInit /\ [][GeoNext]_geoVars

-----------------------------------------------------------------------------
(* Properties.                                                             *)

(* After a look that nothing disturbed, answers come from the file that    *)
(* the search finds, whatever was moved between the looks, or during the   *)
(* last one between the taking of its time and its reading.                *)
LooksFindTheFile ==
  geo.at = "idle" /\ geo.undisturbed /\ geo.db # None =>
    Present # {} /\ Target(First).of = geo.db
=============================================================================
