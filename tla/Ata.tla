-------------------------------- MODULE Ata ---------------------------------
(***************************************************************************)
(* AdvancedTechnologyAttachment: a drive behind ports.  Identify, Read28   *)
(* and Flush give a command and poll the status until the drive is not     *)
(* busy or reports an error; Write28 does not look at the status at all.   *)
(* Read28 takes the words of the sector from the drive and keeps none.     *)
(*                                                                         *)
(* The number of a sector goes to the drive in four registers, and not     *)
(* whole: the third byte is written over the first, and nothing is written *)
(* to the register that is there for it.                                   *)
(*                                                                         *)
(* The drive is external.  Where there is none the status reads as zero or *)
(* as ones, which is both busy and an error.                               *)
(***************************************************************************)
EXTENDS Integers

CONSTANTS
  SectorBytes,   \* 512
  SectorNumbers,     \* numbers of sectors the code may come to, of 32 bits
  HighRegisters  \* what the register that nobody writes may hold

ASSUME SectorAssumption ==
  /\ SectorBytes \in Nat \ {0} /\ SectorBytes % 2 = 0
  /\ SectorNumbers \subseteq Nat /\ HighRegisters \subseteq 0 .. 255

VARIABLES
  drive,  \* [state, command, error, words]: words it has for the code, or waits for
  lba,    \* the registers of the sector number: [low, mid, high, device]
  ata     \* [op, step, count]: the operation under way and its byte count

ataVars == <<drive, lba, ata>>

Resting == [op |-> "none", step |-> "none", count |-> 0]

AtaInit ==
  /\ drive \in [state : {"ready", "zero", "ones"}, command : {"none"}, error : {FALSE},
                words : {0}]
  /\ lba \in [low : {0}, mid : {0}, high : HighRegisters, device : {0}]
  /\ ata = Resting

SectorWords == SectorBytes \div 2

Present == drive.state \notin {"zero", "ones"}
Busy    == drive.state \in {"busy", "ones"}
Error   == drive.error \/ drive.state = "ones"

\* A command starts the drive, whatever it was about to do.
Start(op) ==
  drive' = IF Present THEN [state |-> "busy", command |-> op, error |-> FALSE, words |-> 0]
           ELSE drive

-----------------------------------------------------------------------------
(* The operations. *)

Identify ==
  /\ IF drive.state = "ones" THEN lba' = [lba EXCEPT !.device = 0] /\ UNCHANGED <<drive, ata>>
     ELSE /\ lba' = [lba EXCEPT !.device = 0, !.low = 0, !.mid = 0]
          /\ Start("identify")
          /\ ata' = IF Present THEN [op |-> "identify", step |-> "poll", count |-> SectorBytes]
                    ELSE Resting

\* A number of more than 28 bits.
Wide(sector) == sector > 268435455

FirstByte(sector)  == sector % 256
SecondByte(sector) == (sector \div 256) % 256
ThirdByte(sector)  == (sector \div 65536) % 256
LastBits(sector)   == (sector \div 16777216) % 16

\* The stores to the registers, in their order: low is written twice.
WriteSector(sector) ==
  lba' = [lba EXCEPT !.device = LastBits(sector),
                     !.low = FirstByte(sector),
                     !.mid = SecondByte(sector),
                     !.low = ThirdByte(sector)]

\* The sector a drive takes from its registers.
SectorIn(registers) ==
  registers.device * 16777216 + registers.high * 65536 + registers.mid * 256 + registers.low

\* A wide number is refused before the drive is touched.
Read28(sector, count) ==
  IF Wide(sector) THEN UNCHANGED ataVars
  ELSE /\ WriteSector(sector)
       /\ Start("read")
       /\ ata' = [op |-> "read", step |-> "poll", count |-> count]

Write28(sector, count) ==
  IF Wide(sector) \/ count > SectorBytes THEN UNCHANGED ataVars
  ELSE /\ WriteSector(sector)
       /\ Start("write")
       /\ ata' = [op |-> "write", step |-> "words", count |-> count]

\* The first status is only compared with zero.
Flush ==
  /\ lba' = [lba EXCEPT !.device = 0]
  /\ Start("flush")
  /\ ata' = IF drive.state = "zero" THEN Resting
            ELSE [op |-> "flush", step |-> "poll", count |-> 0]

\* The two conditions of the loop joined by "or", for a mutant.
PollUntilError ==
  /\ ata.step = "poll"
  /\ IF Busy \/ ~Error THEN UNCHANGED ata ELSE ata' = Resting
  /\ UNCHANGED <<drive, lba>>

AtaPoll ==
  /\ ata.step = "poll"
  /\ IF Busy /\ ~Error THEN UNCHANGED ata
     ELSE ata' = IF Error \/ ata.op = "flush" THEN Resting
                 ELSE [ata EXCEPT !.step = "words"]
  /\ UNCHANGED <<drive, lba>>

\* Words of the first loop, which counts bytes by two, and of the second,
\* which goes on from the next even byte.
FirstWords(count) == (count + 1) \div 2

\* The second loop left out, for a mutant.
Undrained(count) == FirstWords(count)

Words(count) ==
  FirstWords(count) + (SectorBytes - (count + (count % 2))) \div 2

\* What the drive is left with: words it does not expect are lost.
AtaWords ==
  /\ ata.step = "words"
  /\ LET left == drive.words - Words(ata.count)
         taking == IF ata.op = "write" THEN "wants" ELSE "data" IN
     IF drive.state # taking THEN UNCHANGED drive
     ELSE drive' = [state   |-> IF left <= 0 THEN "ready" ELSE taking,
                    command |-> drive.command,
                    error   |-> drive.error,
                    words   |-> IF left < 0 THEN 0 ELSE left]
  /\ ata' = Resting
  /\ UNCHANGED lba

\* The drive is done: it has the words of a sector, or waits for them, or not.
DriveAnswers ==
  /\ drive.state = "busy"
  /\ \E error \in BOOLEAN :
       LET moves == ~error /\ drive.command # "flush" IN
       drive' = [state   |-> CASE ~moves -> "ready"
                               [] moves /\ drive.command = "write" -> "wants"
                               [] OTHER -> "data",
                 command |-> drive.command,
                 error   |-> error,
                 words   |-> IF moves THEN SectorWords ELSE 0]
  /\ UNCHANGED <<lba, ata>>

-----------------------------------------------------------------------------
(***************************************************************************)
(* A read, whatever part of a sector was asked for, leaves the drive with  *)
(* no words of that sector, so that the next command finds it ready.       *)
(***************************************************************************)
DriveEmptied == ata.op = "none" => drive.state # "data"
=============================================================================
