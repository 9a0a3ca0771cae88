----------------------------- MODULE DonorCache -----------------------------
(***************************************************************************)
(* donor_tracks of scripts/make_gdi.py: the donor disc's files are         *)
(* extracted once into build/donor and taken from there ever after.  An    *)
(* extraction writes file after file and can be killed anywhere.           *)
(***************************************************************************)
EXTENDS Integers, FiniteSets

CONSTANTS
  DonorFiles,   \* the files that are looked for
  Used,         \* those whose bytes become part of a disc
  MaxKills,     \* bound: runs that are killed
  Nothing       \* no file, no disc

VARIABLES
  donor,   \* each file of the cache: "absent", "partial" or "whole"
  left,    \* the files the extraction under way has still to write
  now,     \* the file it is writing, or Nothing
  made,    \* the files of the disc mastered last, or Nothing
  kills,   \* runs that were killed
  step

donorVars == <<donor, left, now, made, kills, step>>

Conditions == {"absent", "partial", "whole"}

DonorTypes ==
  /\ donor \in [DonorFiles -> Conditions]
  /\ left \subseteq DonorFiles
  /\ now \in DonorFiles \cup {Nothing}
  /\ made = Nothing \/ made \in [Used -> Conditions]
  /\ kills \in 0 .. MaxKills
  /\ step \in {"idle", "extract", "copy"}

DonorInit ==
  /\ donor = [f \in DonorFiles |-> "absent"]
  /\ left = {} /\ now = Nothing /\ made = Nothing /\ kills = 0 /\ step = "idle"

Exists(f) == donor[f] # "absent"

(* The sentinel.                                                           *)
Cached == \A f \in DonorFiles : Exists(f)

Begin ==
  /\ step = "idle"
  /\ IF Cached THEN step' = "copy" /\ left' = left
     ELSE step' = "extract" /\ left' = DonorFiles
  /\ UNCHANGED <<donor, now, made, kills>>

(* 7zz x -y, in the archive's order, over what there is.                   *)
Open ==
  /\ step = "extract" /\ now = Nothing
  /\ \E f \in left :
       /\ now' = f /\ left' = left \ {f}
       /\ donor' = [donor EXCEPT ![f] = "partial"]
  /\ UNCHANGED <<made, kills, step>>

Close ==
  /\ step = "extract" /\ now # Nothing
  /\ donor' = [donor EXCEPT ![now] = "whole"]
  /\ now' = Nothing
  /\ step' = IF left = {} THEN "copy" ELSE step
  /\ UNCHANGED <<left, made, kills>>

(* main: the files are copied, an absent one ends the run; the asserts on  *)
(* track 3 look at a few sectors of it, if there is art to put in.         *)
Copy ==
  /\ step = "copy"
  /\ made' = IF \A f \in Used : Exists(f) THEN [f \in Used |-> donor[f]] ELSE made
  /\ step' = "idle"
  /\ UNCHANGED <<donor, left, now, kills>>

Kill ==
  /\ step # "idle" /\ kills < MaxKills
  /\ step' = "idle" /\ now' = Nothing /\ left' = {} /\ kills' = kills + 1
  /\ UNCHANGED <<donor, made>>

DonorNext == Begin \/ Open \/ Close \/ Copy \/ Kill

DonorSpec == DonorInit /\ [][DonorNext]_donorVars
-----------------------------------------------------------------------------
(* What the sentinel's comment promises: an interrupted extraction does    *)
(* not serve partial tracks (make_gdi.py:212-213).                         *)
NonePartial == made # Nothing => \A f \in Used : made[f] = "whole"

-----------------------------------------------------------------------------
(* What is true of it, for any archive with these files.                   *)
DonorArchive ==
  /\ IsFiniteSet(DonorFiles) /\ Used \subseteq DonorFiles /\ Nothing \notin DonorFiles
  /\ MaxKills \in Nat

(* An extraction that is not killed heals the cache, whatever was in it    *)
(* (make_gdi.py:214-219).                                                  *)
ExtractionHeals ==
  [][step = "extract" /\ step' = "copy" =>
       \A f \in DonorFiles : donor'[f] = "whole"]_donorVars

(* No more files of a disc are partial than runs were killed before it     *)
(* (make_gdi.py:209-220).                                                  *)
OnePerKill == made # Nothing => Cardinality({f \in Used : made[f] # "whole"}) <= kills

(* Files no run is at work on, of which a killed one wrote a part.         *)
Broken == {f \in DonorFiles : donor[f] = "partial" /\ f # now}

DonorInv ==
  /\ DonorTypes
  /\ step # "extract" => now = Nothing
  /\ step = "extract" => \A f \in DonorFiles : donor[f] = "whole" \/ f \in left \/ f = now
  /\ now # Nothing => donor[now] = "partial" /\ now \notin left
  /\ step = "copy" => Cached
  /\ Cardinality(Broken) <= kills
  /\ OnePerKill
=============================================================================
