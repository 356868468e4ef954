--------------------------- MODULE SearchReaders ----------------------------
(***************************************************************************)
(* SstableReader::search_readers on a level below level 0: a binary search *)
(* for the last table whose first key is smaller than the key sought, and  *)
(* a scan from there.  The loops run under the read lock of the readers,   *)
(* so the level only changes between two searches.                         *)
(***************************************************************************)
EXTENDS Integers, Sequences

CONSTANTS SearchKeys,     \* byte strings
          Before(_, _)    \* their order

ASSUME OrderAssumption ==
  /\ \A a \in SearchKeys : ~Before(a, a)
  /\ \A a, b \in SearchKeys : a = b \/ Before(a, b) \/ Before(b, a)
  /\ \A a, b, c \in SearchKeys : Before(a, b) /\ Before(b, c) => Before(a, c)

VARIABLES readers,      \* the TableReaders of the level, records with fields min and max
          sought,       \* key
          left, right,  \* the bounds of the binary search, counted from 1
          scan,         \* the position of the scan
          res,          \* the positions of the readers to look into
          spc           \* idle, halve, scan, found

searchVars == <<sought, left, right, scan, res, spc>>
allVars == <<readers, searchVars>>

NotAfter(a, b) == ~Before(b, a)

\* The tables of a level are sorted and their key ranges are disjoint.
IsLevel(rs) ==
  /\ Len(rs) \in Nat
  /\ \A i \in 1..Len(rs) :
       rs[i].min \in SearchKeys /\ rs[i].max \in SearchKeys /\ NotAfter(rs[i].min, rs[i].max)
  /\ \A i, j \in 1..Len(rs) : i < j => Before(rs[i].max, rs[j].min)

Covers(r, k) == NotAfter(r.min, k) /\ NotAfter(k, r.max)

AnyKey == CHOOSE k \in SearchKeys : TRUE

SearchInit ==
  /\ sought = AnyKey
  /\ left = 1 /\ right = 1 /\ scan = 1 /\ res = <<>> /\ spc = "idle"

BeginSearch(k) ==
  /\ spc = "idle"
  /\ sought' = k /\ left' = 1 /\ right' = Len(readers) /\ scan' = 1 /\ res' = <<>>
  /\ spc' = IF Len(readers) = 0 THEN "found" ELSE "halve"

Middle == (left + right + 1) \div 2

\* Mutant of Halve: the left bound moves past the middle table.
HalveSkips ==
  /\ spc = "halve" /\ left < right
  /\ IF Before(readers[Middle].min, sought)
     THEN left' = Middle + 1 /\ right' = right
     ELSE right' = Middle - 1 /\ left' = left
  /\ UNCHANGED <<sought, scan, res, spc>>

Halve ==
  /\ spc = "halve" /\ left < right
  /\ IF Before(readers[Middle].min, sought)
     THEN left' = Middle /\ right' = right
     ELSE right' = Middle - 1 /\ left' = left
  /\ UNCHANGED <<sought, scan, res, spc>>

StartScan ==
  /\ spc = "halve" /\ left >= right
  /\ scan' = left /\ spc' = "scan"
  /\ UNCHANGED <<sought, left, right, res>>

ScanReader ==
  /\ spc = "scan" /\ scan <= Len(readers)
  /\ IF Covers(readers[scan], sought)
     THEN res' = Append(res, scan) /\ scan' = scan + 1 /\ spc' = spc
     ELSE /\ res' = res
          /\ IF Before(sought, readers[scan].min)
             THEN spc' = "found" /\ scan' = scan
             ELSE spc' = spc /\ scan' = scan + 1
  /\ UNCHANGED <<sought, left, right>>

EndScan ==
  /\ spc = "scan" /\ scan > Len(readers)
  /\ spc' = "found"
  /\ UNCHANGED <<sought, left, right, scan, res>>

EndSearch ==
  /\ spc = "found"
  /\ spc' = "idle" /\ left' = 1 /\ right' = 1 /\ scan' = 1 /\ res' = <<>>
  /\ sought' = AnyKey

SearchStep == Halve \/ StartScan \/ ScanReader \/ EndScan

\* A compaction replaces the level while no search runs.
ChangeLevel == spc = "idle" /\ IsLevel(readers') /\ UNCHANGED searchVars

Search ==
  \/ (\E k \in SearchKeys : BeginSearch(k)) /\ UNCHANGED readers
  \/ (SearchStep \/ EndSearch) /\ UNCHANGED readers
  \/ ChangeLevel

SearchSpec == SearchInit /\ SearchKeys # {} /\ IsLevel(readers) /\ [][Search]_allVars

(***************************************************************************)
(* A finished search has found every table of the level whose key range    *)
(* holds the key, and no other: a get that looks only into res misses no   *)
(* entry of the level.                                                     *)
(***************************************************************************)
SearchIsComplete ==
  spc = "found" =>
    \A i \in 1..Len(readers) :
      Covers(readers[i], sought) <=> \E j \in 1..Len(res) : res[j] = i

-----------------------------------------------------------------------------
(***************************************************************************)
(* The inductive invariant: left moves only past tables that end before    *)
(* the key, and res holds the covering tables before the scan.             *)
(***************************************************************************)
SearchInv ==
  /\ IsLevel(readers)
  /\ sought \in SearchKeys
  /\ spc \in {"idle", "halve", "scan", "found"}
  /\ left \in Nat /\ right \in Nat /\ scan \in Nat
  /\ res \in Seq(Nat)
  /\ spc = "halve" =>
       /\ 1 <= left /\ left <= right /\ right <= Len(readers)
       /\ res = <<>>
       /\ \A i \in 1..Len(readers) : i < left => Before(readers[i].max, sought)
  /\ spc = "scan" =>
       /\ 1 <= scan
       /\ \A i \in 1..Len(readers) : i < scan =>
            (Covers(readers[i], sought) <=> \E j \in 1..Len(res) : res[j] = i)
       /\ \A j \in 1..Len(res) : res[j] < scan
  /\ SearchIsComplete
==============================================================================
