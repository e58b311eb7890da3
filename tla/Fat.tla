-------------------------------- MODULE Fat ---------------------------------
(***************************************************************************)
(* MSDOSPartitionTable::ReadPartitions and ReadBiosBlock: for each         *)
(* partition of the table, the entries of the root directory's first       *)
(* sector, and for each file its sectors, cluster by cluster along the     *)
(* allocation table, to be printed.                                        *)
(*                                                                         *)
(* Read28 stores nothing, so every buffer holds what the stack had there:  *)
(* the code looks at arbitrary values, chosen here when they are looked    *)
(* at.  The walk is compared with the file those values describe.          *)
(***************************************************************************)
EXTENDS Ata, Sequences

CONSTANTS
  Partitions,      \* entries of the partition table: 4
  Entries,         \* directory entries of a sector: 16
  SectorsPerCluster, \* what the boot sector may say
  FileSizes,       \* sizes of files in sectors, rounded up; at most 0 for none
  Clusters,        \* numbers of clusters the directory or the table may give
  Numbers,         \* of 32 bits: 2^32
  BpbBytes         \* size of the boot sector's header: 90

ASSUME FatAssumption ==
  /\ Partitions \in Nat \ {0} /\ Entries \in Nat \ {0}
  /\ SectorsPerCluster \subseteq Nat /\ FileSizes \subseteq Int /\ Clusters \subseteq Int
  /\ Numbers \in Nat \ {0}
  /\ BpbBytes \in 1 .. SectorBytes

VARIABLES
  at,         \* what the code does when the drive has answered
  partition, entry, \* the loops' counters
  perCluster, dataStart, \* from the boot sector
  size, left, \* of the file: all sectors, and those still to be read
  cluster,    \* nextFileCluster
  offset,     \* sectorOffset
  asked,      \* history: what was asked for in this cluster, [number, sector] each
  walked      \* history: the clusters before it, [cluster, asked] each

fatVars == <<at, partition, entry, perCluster, dataStart, size, left, cluster, offset,
             asked, walked>>
diskVars == <<fatVars, ataVars>>

FatInit ==
  /\ at = "start"
  /\ partition = 0 /\ entry = 0 /\ perCluster = 0 /\ dataStart = 0
  /\ size = 0 /\ left = 0 /\ cluster = 0 /\ offset = 0
  /\ asked = <<>> /\ walked = <<>>

boot == <<perCluster, dataStart>>
file == <<size, left, cluster, offset, asked, walked>>

DriveFree == ata.op = "none"

-----------------------------------------------------------------------------
(* ReadPartitions. *)

ReadPartitions ==
  /\ at = "start" /\ DriveFree
  /\ Read28(0, SectorBytes)
  /\ at' = "magic"
  /\ UNCHANGED <<partition, entry, boot, file>>

CheckMagic ==
  /\ at = "magic" /\ DriveFree
  /\ \E legal \in BOOLEAN : at' = IF legal THEN "partition" ELSE "end"
  /\ partition' = 0
  /\ UNCHANGED <<ataVars, entry, boot, file>>

\* A partition without an id is skipped; of another the boot sector is read,
\* which may be too far away for Read28.
NextPartition ==
  /\ at = "partition" /\ DriveFree
  /\ IF partition = Partitions
     THEN at' = "end" /\ UNCHANGED <<ataVars, partition>>
     ELSE /\ partition' = partition + 1
          /\ \/ at' = "partition" /\ UNCHANGED ataVars
             \/ at' = "boot" /\ \E sector \in SectorNumbers : Read28(sector, BpbBytes)
  /\ UNCHANGED <<entry, boot, file>>

-----------------------------------------------------------------------------
(* ReadBiosBlock. *)

ReadRoot ==
  /\ at = "boot" /\ DriveFree
  /\ perCluster' \in SectorsPerCluster /\ dataStart' \in SectorNumbers
  /\ \E root \in SectorNumbers : Read28(root, SectorBytes)
  /\ entry' = 0
  /\ at' = "entry"
  /\ UNCHANGED <<partition, file>>

(***************************************************************************)
(* The test for the last entry assigns instead of comparing, and never     *)
(* ends the loop: all entries are gone through.  One that is a long name   *)
(* or a directory is skipped.                                              *)
(***************************************************************************)
NextEntry ==
  /\ at = "entry" /\ DriveFree
  /\ IF entry = Entries
     THEN at' = "partition" /\ UNCHANGED <<entry, file>>
     ELSE /\ entry' = entry + 1
          /\ \/ at' = "entry" /\ UNCHANGED file
             \/ /\ size' \in FileSizes
                /\ left' = size'
                /\ at' = IF size' > 0 THEN "sector" ELSE "entry"
                /\ cluster' \in Clusters
                /\ offset' = 0
                /\ UNCHANGED <<asked, walked>>
  /\ UNCHANGED <<ataVars, partition, boot>>

\* The number of a sector of the disk, by its cluster and the offset into it.
FileSector(c, o) == (dataStart + perCluster * (c - 2) + o) % Numbers

\* The size counted down before the test for the end of the cluster, for a mutant.
CountedFirst(o, l) == [left |-> l - 1, full |-> o + 1 > perCluster]

\* The test comes after the sector is read: at the end of a cluster one more
\* is read, and not counted.
Counted(o, l) ==
  [left |-> IF o + 1 > perCluster THEN l ELSE l - 1, full |-> o + 1 > perCluster]

\* What became of a number the drive was asked for; a wide one never got there.
Refused == -1

Request(number) ==
  [number |-> number, sector |-> IF Wide(number) THEN Refused ELSE SectorIn(lba')]

ReadSector ==
  /\ at = "sector" /\ DriveFree
  /\ LET number == FileSector(cluster, offset) IN
     /\ Read28(number, SectorBytes)
     /\ asked' = IF perCluster = 0 THEN asked ELSE Append(asked, Request(number))
  /\ LET now == Counted(offset, left) IN
     /\ left' = now.left
     /\ offset' = offset + 1
     /\ at' = IF now.full \/ now.left <= 0 THEN "table" ELSE "sector"
  /\ UNCHANGED <<partition, entry, boot, size, cluster, walked>>

\* The sector of the allocation table with the number of the next cluster,
\* which is read behind the last one, too.  The history is of one file.
ReadTable ==
  /\ at = "table" /\ DriveFree
  /\ \E table \in SectorNumbers : Read28(table, SectorBytes)
  /\ cluster' \in Clusters
  /\ offset' = 0
  /\ at' = IF left > 0 THEN "sector" ELSE "entry"
  /\ asked' = <<>>
  /\ walked' = IF left <= 0 \/ perCluster = 0 THEN <<>>
               ELSE Append(walked, [cluster |-> cluster, asked |-> asked])
  /\ UNCHANGED <<partition, entry, boot, size, left>>

FatCode ==
  \/ ReadPartitions \/ CheckMagic \/ NextPartition \/ ReadRoot
  \/ NextEntry \/ ReadSector \/ ReadTable

-----------------------------------------------------------------------------
\* Another user of the driver, before or after.
AtaUser ==
  /\ at \in {"start", "end"} /\ DriveFree
  /\ \/ Identify
     \/ \E sector \in SectorNumbers : Write28(sector, BpbBytes)
     \/ Flush
  /\ UNCHANGED fatVars

AtaCode == AtaPoll \/ AtaWords

AtaStep == (AtaCode \/ DriveAnswers) /\ UNCHANGED fatVars

FatNext == FatCode \/ AtaUser \/ AtaStep

FatFairness == WF_diskVars(FatCode) /\ WF_diskVars(AtaCode /\ UNCHANGED fatVars)
                 /\ WF_diskVars(DriveAnswers /\ UNCHANGED fatVars)

FatSpec == AtaInit /\ FatInit /\ [][FatNext]_diskVars /\ FatFairness

-----------------------------------------------------------------------------
\* The reads of a cluster are for its sectors from the first one on.
FromFirst(c, reads) ==
  \A i \in 1 .. Len(reads) : reads[i].number = FileSector(c, i - 1)

\* The number reaches the drive as it is: its first and its third byte are what
\* the register holds that nobody writes.
Survives(number) ==
  ~Wide(number) /\ FirstByte(number) = lba.high /\ ThirdByte(number) = lba.high

(***************************************************************************)
(* Along the clusters of a file its sectors are asked for in order, and    *)
(* none is left out: of each cluster the code asks for all sectors, from   *)
(* the first one, and for the one behind it; of the last, for as many as   *)
(* are left of the file, and no more.  The sector behind a cluster is, in  *)
(* a file that lies in one piece, its own next one, which is so asked for, *)
(* and printed, twice.  And the drive reads the sector it is asked for     *)
(* exactly if the number survives the registers.                           *)
(***************************************************************************)
FileSectorsInOrder ==
  perCluster # 0 =>
    /\ \A k \in 1 .. Len(walked) :
         Len(walked[k].asked) = perCluster + 1 /\ FromFirst(walked[k].cluster, walked[k].asked)
    /\ Len(asked) <= perCluster + 1 /\ FromFirst(cluster, asked)
    /\ at = "table" /\ left <= 0 =>
         /\ Len(asked) <= perCluster
         /\ Len(walked) * perCluster + Len(asked) = size
    /\ \A k \in 1 .. Len(walked) - 1 :
         walked[k + 1].cluster = walked[k].cluster + 1 =>
           walked[k].asked[perCluster + 1].number = walked[k + 1].asked[1].number
    /\ \A reads \in {asked} \union {walked[k].asked : k \in 1 .. Len(walked)} :
         \A i \in 1 .. Len(reads) :
           reads[i].sector = reads[i].number <=> Survives(reads[i].number)

\* A file is left again, whatever the allocation table says, unless the boot
\* sector gives a cluster no sectors.
FileLeft ==
  (at = "sector" /\ perCluster # 0) ~> at = "entry"
=============================================================================
