---------------------------- MODULE OpticalDrive ----------------------------
(***************************************************************************)
(* The optical drive, which is external: what the code and its notes       *)
(* (specs 11 and 12) rely on.  A LibreDrive drive returns raw sectors once *)
(* it has answered the whole unlock sequence, and stays raw; a cold drive, *)
(* fresh from an eject or a reset, encrypts the content of a BEE disc over *)
(* the bus; after a reset the next command, whoever sends it, is answered  *)
(* with UNIT ATTENTION.  Of a sequence that another replay has mixed its   *)
(* commands into nothing is known, and nothing is assumed.                 *)
(*                                                                         *)
(* A component: DecryptDisc and DriveSession conjoin its actions with      *)
(* those of the programs that send the commands.                           *)
(***************************************************************************)
EXTENDS Integers

CONSTANTS
  UnlockTable,   \* number of commands in LIBREDRIVE_UNLOCK_WH16NS60
  Kinds,         \* drives considered, among "libre" and "plain"
  MaxResets      \* bound on the resets of the drive

ASSUME OpticalDriveAssumption ==
  /\ UnlockTable \in Nat \ {0}
  /\ Kinds \subseteq {"libre", "plain"}
  /\ MaxResets \in Nat

VARIABLES
  kind, bee,     \* the drive, and whether the disc in it is a BEE disc
  raw,           \* the drive returns raw sectors
  scraped,       \* commands of the table it has seen in order while cold
  attention,     \* it has a UNIT ATTENTION to report
  resets         \* resets so far

driveVars == <<kind, bee, raw, scraped, attention, resets>>

DriveInit ==
  /\ kind \in Kinds
  /\ bee \in BOOLEAN
  /\ raw \in (IF kind = "libre" THEN BOOLEAN ELSE {FALSE})
  /\ scraped = 0
  /\ attention = FALSE
  /\ resets = 0

(* The sectors it sends are bus-encrypted.                                  *)
SendsBus == bee /\ ~raw

(* It answers a command of the unlock sequence.  The first one begins the   *)
(* sequence; one out of its turn is no progress and may spoil what was seen.*)
Scrape(command) ==
  /\ ~attention
  /\ \/ raw /\ UNCHANGED scraped
     \/ ~raw /\ command = 0 /\ scraped' = 1
     \/ ~raw /\ command # 0 /\ command = scraped /\ scraped' = scraped + 1
     \/ ~raw /\ command \notin {0, scraped} /\ scraped' \in {0, scraped}
  /\ raw' = (raw \/ (kind = "libre" /\ scraped' = UnlockTable))
  /\ UNCHANGED <<kind, bee, attention, resets>>

(* A command fails, with the attention if there is one.                     *)
Refuse ==
  /\ attention' = FALSE
  /\ UNCHANGED <<kind, bee, raw, scraped, resets>>

(* Eject and reload, bus reset, power loss: cold again, attention pending.  *)
DriveReset ==
  /\ resets < MaxResets
  /\ resets' = resets + 1
  /\ raw' = FALSE
  /\ scraped' = 0
  /\ attention' = TRUE
  /\ UNCHANGED <<kind, bee>>

(* Type invariant of OpticalDrive.  A raw drive has the chipset for it, and *)
(* one that is cold has not answered the sequence.                          *)
DriveTypeOK ==
  /\ kind \in Kinds
  /\ {bee, attention} \subseteq BOOLEAN
  /\ raw \in (IF kind = "libre" THEN BOOLEAN ELSE {FALSE})
  /\ scraped \in 0..UnlockTable
  /\ kind = "libre" /\ scraped = UnlockTable => raw
  /\ resets \in 0..MaxResets
=============================================================================
