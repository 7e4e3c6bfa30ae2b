---------------------------- MODULE DriveSession ----------------------------
(***************************************************************************)
(* The programs that use one drive at the same time and one after another: *)
(*   "unlock"    freeblue unlock                                           *)
(*   "decrypt"   freeblue decrypt, of a clip on the mounted disc           *)
(*   "vid"       read_volume_id, with or without unlock_first              *)
(*   "ake"       partial_ake_probe                                         *)
(* Each opens the drive, sends its commands and closes it; what is left    *)
(* behind is in the drive: its raw mode and the AGIDs it gave out.         *)
(*                                                                         *)
(* One action is one SCSI command, or one unit read through the file       *)
(* system, which is external: it keeps the sectors it has read as long as  *)
(* it likes, at most until the disc is unmounted, and it takes a UNIT      *)
(* ATTENTION like any program.                                             *)
(*                                                                         *)
(* write_clip and its reader, reading such a file, are DecryptFile; here a *)
(* unit is read and written in one step.                                   *)
(***************************************************************************)
EXTENDS Integers, Sequences, OpticalDrive

CONSTANTS
  Procs,         \* the programs
  Agids,         \* the AGIDs of the drive: a drive has four
  NumUnits,      \* units of the clip
  Faults,        \* TRUE when a command may fail for no reason of ours
  None

ASSUME DriveSessionAssumption ==
  /\ NumUnits \in Nat
  /\ Faults \in BOOLEAN
  /\ None \notin Agids

VARIABLES
  run,           \* what each program is doing
  agids,         \* the AGIDs of the drive: "free", "allocated" or "certified"
  revoked,       \* the drive rejects the host certificate
  mounted,       \* the disc is mounted
  cached,        \* sectors the file system holds, by unit: "raw", "bus" or "no"
  promised,      \* an unlock said "drive now returns raw sectors", no other
                 \* replay was mixed into its own, and the drive was not
                 \* reset since it began
  kept           \* the disc was mounted with `promised`, and still so

osVars == <<mounted, cached, promised, kept>>
vars == <<run, agids, revoked, osVars, driveVars>>

(* An idle program.  `mixed`: a cold drive got commands of another replay   *)
(* between those of its own unlock.  `calm`: no reset of the drive since it *)
(* began (for decrypt: since the unlock), no command of it failed for       *)
(* another reason than the drive's own refusal, and its unlock, when it has *)
(* ended, was not mixed.  No code sees these.                               *)
Idle ==
  [command |-> None, pc |-> "idle", cmd |-> 0, libredrive |-> FALSE,
   agid |-> None, file |-> << >>, exit |-> "running", calm |-> TRUE,
   mixed |-> FALSE]

Init ==
  /\ DriveInit
  /\ run = [p \in Procs |-> Idle]
  /\ agids = [a \in Agids |-> "free"]
  /\ revoked \in BOOLEAN
  /\ mounted = FALSE
  /\ cached = [k \in 1..NumUnits |-> "no"]
  /\ promised = FALSE
  /\ kept = FALSE

At(p, pc) == run[p].pc = pc

Go(p, pc) == run' = [run EXCEPT ![p].pc = pc]

(* The program ends; of its locals, the properties look at `file` only.     *)
ExitWith(p, how, calm) ==
  run' = [run EXCEPT ![p] = [Idle EXCEPT !.command = run[p].command,
            !.pc = "exit", !.exit = how, !.file = run[p].file, !.calm = calm]]

Exit(p, how) == ExitWith(p, how, run[p].calm)

-----------------------------------------------------------------------------
(* Starting and ending a program.                                          *)

Start(p, command, pc) ==
  /\ At(p, "idle")
  /\ run' = [run EXCEPT ![p] = [Idle EXCEPT !.command = command, !.pc = pc]]
  /\ UNCHANGED <<agids, revoked, osVars, driveVars>>

(* ScsiDev::open, and what comes first.  A program that cannot open the     *)
(* drive ends without a trace.                                              *)
StartOnDrive(p) ==
  \/ Start(p, "unlock", "replay")
  \/ Start(p, "vid", "replay")
  \/ Start(p, "vid", "vid")
  \/ Start(p, "ake", "replay")

StartDecrypt(p) ==
  /\ At(p, "idle")
  /\ mounted
  /\ run' = [run EXCEPT ![p] = [Idle EXCEPT !.command = "decrypt",
                                  !.pc = "pull", !.calm = kept]]
  /\ UNCHANGED <<agids, revoked, osVars, driveVars>>

(* The handle is closed, and nothing is told to the drive.                  *)
Leave(p) ==
  /\ At(p, "exit")
  /\ run' = [run EXCEPT ![p] = Idle]
  /\ UNCHANGED <<agids, revoked, osVars, driveVars>>

-----------------------------------------------------------------------------
(* unlock(): the replay of the table.                                      *)

(* Mutated form of Answered: one command more than the table has.           *)
AnsweredPast(p) ==
  /\ At(p, "replay")
  /\ run[p].cmd <= UnlockTable
  /\ Scrape(run[p].cmd)
  /\ run' = [run EXCEPT ![p].cmd = @ + 1]
  /\ UNCHANGED <<agids, revoked, osVars>>

(* A program that is not p, after a command of p's replay.                  *)
Mixed(q) ==
  IF At(q, "replay") /\ run[q].command = "unlock" /\ run[q].cmd > 0 /\ ~raw
  THEN [run[q] EXCEPT !.mixed = TRUE]
  ELSE run[q]

(* The first answer has the signature, unless it is cut short before it.    *)
Answered(p) ==
  /\ At(p, "replay")
  /\ run[p].cmd < UnlockTable
  /\ Scrape(run[p].cmd)
  /\ \E signed \in BOOLEAN :
       /\ \/ run[p].cmd = 0 /\ signed = (kind = "libre")
          \/ run[p].cmd = 0 /\ Faults /\ ~signed
          \/ run[p].cmd > 0 /\ signed = run[p].libredrive
       /\ run' = [q \in Procs |->
                    IF q # p THEN Mixed(q)
                    ELSE [run[p] EXCEPT !.cmd = @ + 1, !.libredrive = signed]]
  /\ UNCHANGED <<agids, revoked, osVars>>

AfterReplay == [vid |-> "vid", ake |-> "agid"]

(* Mutated form of Unlocked: the signature alone is enough.                 *)
UnlockedBySignature(p) ==
  /\ At(p, "replay")
  /\ run[p].cmd > 0
  /\ run[p].command = "unlock"
  /\ ExitWith(p, IF run[p].libredrive THEN "ok" ELSE "not LibreDrive",
              run[p].calm /\ ~run[p].mixed)
  /\ promised' = (promised \/ (run[p].libredrive /\ run[p].calm /\ ~run[p].mixed))
  /\ UNCHANGED <<agids, revoked, mounted, cached, kept, driveVars>>

Unlocked(p) ==
  /\ At(p, "replay")
  /\ run[p].cmd = UnlockTable
  /\ run[p].command = "unlock"
  /\ ExitWith(p, IF run[p].libredrive THEN "ok" ELSE "not LibreDrive",
              run[p].calm /\ ~run[p].mixed)
  /\ promised' = (promised \/ (run[p].libredrive /\ run[p].calm /\ ~run[p].mixed))
  /\ UNCHANGED <<agids, revoked, mounted, cached, kept, driveVars>>

(* read_volume_id and partial_ake_probe go on whatever unlock() returned.   *)
Replayed(p) ==
  /\ At(p, "replay")
  /\ run[p].cmd = UnlockTable
  /\ run[p].command # "unlock"
  /\ run' = [run EXCEPT ![p].pc = AfterReplay[run[p].command], ![p].cmd = 0,
                        ![p].libredrive = FALSE]
  /\ UNCHANGED <<agids, revoked, osVars, driveVars>>

-----------------------------------------------------------------------------
(* A command that the drive does not carry out.                            *)

(* What the program ends with, by the command that fails.  The probe writes *)
(* it into its log; unlock and read_volume_id return it.                    *)
Failure ==
  [replay |-> "error", vid |-> "error", agid |-> "no AGID",
   send |-> "REJECTED", cert |-> "no drive cert"]

Sending(p) ==
  /\ run[p].pc \in DOMAIN Failure
  /\ At(p, "replay") => run[p].cmd < UnlockTable

(* Mutated form of Failed: a failed command of the replay is passed over.   *)
FailedPasses(p) ==
  /\ Sending(p)
  /\ attention \/ Faults
  /\ Refuse
  /\ IF At(p, "replay") THEN run' = [run EXCEPT ![p].cmd = @ + 1]
     ELSE ExitWith(p, Failure[run[p].pc], FALSE)
  /\ UNCHANGED <<agids, revoked, osVars>>

(* A UNIT ATTENTION, a timeout, a transport error: an error like any other. *)
Failed(p) ==
  /\ Sending(p)
  /\ attention \/ Faults
  /\ Refuse
  /\ ExitWith(p, Failure[run[p].pc], FALSE)
  /\ UNCHANGED <<agids, revoked, osVars>>

(* What the drive itself says no to: READ BUFFER if it has no such buffer,  *)
(* READ DISC STRUCTURE 0x80 (no key was established: whether an unlocked    *)
(* drive answers is open), an AGID when none is free, a certificate that is *)
(* revoked or sent under an AGID it did not give, its own before it has     *)
(* ours.                                                                    *)
Refuses(p) ==
  CASE At(p, "replay") -> kind = "plain"
    [] At(p, "vid") -> TRUE
    [] At(p, "agid") -> \A a \in Agids : agids[a] # "free"
    [] At(p, "send") -> agids[run[p].agid] = "free" \/ revoked
    [] OTHER -> agids[run[p].agid] # "certified"

Refused(p) ==
  /\ Sending(p)
  /\ ~attention
  /\ Refuses(p)
  /\ Exit(p, Failure[run[p].pc])
  /\ UNCHANGED <<agids, revoked, osVars, driveVars>>

-----------------------------------------------------------------------------
(* read_volume_id, after the replay or without: a drive in raw mode may     *)
(* answer, with all of the Volume ID or with too few bytes.                 *)
VidRead(p) ==
  /\ At(p, "vid")
  /\ ~attention
  /\ raw
  /\ \/ Exit(p, "VID")
     \/ Faults /\ ExitWith(p, "error", FALSE)
  /\ UNCHANGED <<agids, revoked, osVars, driveVars>>

-----------------------------------------------------------------------------
(* partial_ake_probe, after the replay.                                    *)

(* Mutated form of AgidGiven: two bits of the answer are taken for another  *)
(* AGID.                                                                    *)
AgidGivenMisread(p) ==
  /\ At(p, "agid")
  /\ ~attention
  /\ \E a, b \in Agids :
       /\ agids[a] = "free"
       /\ agids' = [agids EXCEPT ![a] = "allocated"]
       /\ run' = [run EXCEPT ![p].agid = b, ![p].pc = "send"]
  /\ UNCHANGED <<revoked, osVars, driveVars>>

(* REPORT KEY: an AGID of the drive's choice.  It is never given back.      *)
AgidGiven(p) ==
  /\ At(p, "agid")
  /\ ~attention
  /\ \E a \in Agids :
       /\ agids[a] = "free"
       /\ agids' = [agids EXCEPT ![a] = "allocated"]
       /\ run' = [run EXCEPT ![p].agid = a, ![p].pc = "send"]
  /\ UNCHANGED <<revoked, osVars, driveVars>>

(* The answer has fewer than 8 bytes: the AGID is given out, and nobody has *)
(* it.                                                                      *)
AgidCutShort(p) ==
  /\ At(p, "agid")
  /\ ~attention
  /\ Faults
  /\ \E a \in Agids :
       /\ agids[a] = "free"
       /\ agids' = [agids EXCEPT ![a] = "allocated"]
  /\ ExitWith(p, "no AGID", FALSE)
  /\ UNCHANGED <<revoked, osVars, driveVars>>

(* SEND KEY: the host certificate, padded or cut to 92 bytes.               *)
CertSent(p) ==
  /\ At(p, "send")
  /\ ~attention
  /\ ~Refuses(p)
  /\ agids' = [agids EXCEPT ![run[p].agid] = "certified"]
  /\ Go(p, "cert")
  /\ UNCHANGED <<revoked, osVars, driveVars>>

(* REPORT KEY: the drive's certificate.                                     *)
CertRead(p) ==
  /\ At(p, "cert")
  /\ ~attention
  /\ ~Refuses(p)
  /\ Exit(p, "ACCEPTED")
  /\ UNCHANGED <<agids, revoked, osVars, driveVars>>

-----------------------------------------------------------------------------
(* decrypt, of a file on the mounted disc.                                 *)

Pull(p) ==
  LET k == Len(run[p].file) + 1
      sent == IF SendsBus THEN "bus" ELSE "raw"
      unit == IF cached[k] = "no" THEN sent ELSE cached[k]
  IN  /\ At(p, "pull")
      /\ mounted
      /\ k <= NumUnits
      /\ cached' = [cached EXCEPT ![k] = unit]
      /\ run' = [run EXCEPT ![p].file = Append(@, unit)]
      /\ IF cached[k] = "no" THEN Refuse ELSE UNCHANGED driveVars
      /\ UNCHANGED <<agids, revoked, mounted, promised, kept>>

PullEnd(p) ==
  /\ At(p, "pull")
  /\ Len(run[p].file) = NumUnits
  /\ Exit(p, "ok")
  /\ UNCHANGED <<agids, revoked, osVars, driveVars>>

(* The disc is gone, or read() fails for a reason of its own.               *)
PullError(p) ==
  /\ At(p, "pull")
  /\ \/ ~mounted /\ UNCHANGED driveVars
     \/ mounted /\ Faults /\ Refuse
  /\ Exit(p, "read failed")
  /\ UNCHANGED <<agids, revoked, osVars>>

-----------------------------------------------------------------------------
(* The user and the world outside.                                         *)

Mount ==
  /\ ~mounted
  /\ mounted' = TRUE
  /\ kept' = promised
  /\ Refuse
  /\ UNCHANGED <<run, agids, revoked, cached, promised>>

Unmount ==
  /\ mounted
  /\ mounted' = FALSE
  /\ cached' = [k \in 1..NumUnits |-> "no"]
  /\ kept' = FALSE
  /\ UNCHANGED <<run, agids, revoked, promised, driveVars>>

(* The file system lets go of the sectors of a unit.                        *)
Evict ==
  /\ \E k \in 1..NumUnits :
       /\ cached[k] # "no"
       /\ cached' = [cached EXCEPT ![k] = "no"]
  /\ UNCHANGED <<run, agids, revoked, mounted, promised, kept, driveVars>>

(* A reset takes the AGIDs and the raw mode; an eject also the mount.       *)
Reset ==
  /\ DriveReset
  /\ agids' = [a \in Agids |-> "free"]
  /\ mounted' \in {FALSE, mounted}
  /\ cached' = IF mounted' THEN cached ELSE [k \in 1..NumUnits |-> "no"]
  /\ promised' = FALSE
  /\ kept' = FALSE
  /\ run' = [p \in Procs |-> [run[p] EXCEPT !.calm = At(p, "idle")]]
  /\ UNCHANGED revoked

Step(p) ==
  \/ Answered(p)
  \/ Unlocked(p)
  \/ Replayed(p)
  \/ Failed(p)
  \/ Refused(p)
  \/ VidRead(p)
  \/ AgidGiven(p)
  \/ AgidCutShort(p)
  \/ CertSent(p)
  \/ CertRead(p)
  \/ Pull(p)
  \/ PullEnd(p)
  \/ PullError(p)
  \/ Leave(p)

Next ==
  \/ \E p \in Procs : StartOnDrive(p) \/ StartDecrypt(p) \/ Step(p)
  \/ Mount
  \/ Unmount
  \/ Evict
  \/ Reset

Spec == Init /\ [][Next]_vars

-----------------------------------------------------------------------------
(* Correctness.                                                            *)

Outcomes == {"running", "ok", "not LibreDrive", "error", "VID", "no AGID",
             "REJECTED", "no drive cert", "ACCEPTED", "read failed"}

Programs ==
  [command : {None, "unlock", "vid", "ake", "decrypt"},
   pc : {"idle", "replay", "vid", "agid", "send", "cert", "pull", "exit"},
   cmd : 0..UnlockTable,
   libredrive : BOOLEAN,
   agid : Agids \cup {None},
   file : Seq({"raw", "bus"}),
   exit : Outcomes,
   calm : BOOLEAN,
   mixed : BOOLEAN]

(* Type invariant of DriveSession.  No key is sent before there is an AGID  *)
(* to send it under.                                                        *)
TypeOK ==
  /\ DriveTypeOK
  /\ run \in [Procs -> Programs]
  /\ \A p \in Procs : run[p].pc \in {"send", "cert"} => run[p].agid \in Agids
  /\ \A p \in Procs : Len(run[p].file) <= NumUnits
  /\ agids \in [Agids -> {"free", "allocated", "certified"}]
  /\ {revoked, mounted, promised, kept} \subseteq BOOLEAN
  /\ cached \in [1..NumUnits -> {"raw", "bus", "no"}]

(* "LibreDrive unlock OK -- drive now returns raw sectors" (main.rs:71):    *)
(* true unless the drive was reset or a cold drive got another replay's     *)
(* commands while the unlock ran, whatever else other programs sent to it   *)
(* in between, and at whatever point replays that began before it stopped.  *)
UnlockedIsRaw ==
  \A p \in Procs :
    run[p].command = "unlock" /\ run[p].exit = "ok" /\ run[p].calm => raw

(* "Mount it read-only and `freeblue decrypt` the m2ts" (main.rs:72): after *)
(* an unlock that said so, a mount and no reset since that unlock began, no *)
(* unit of the clip is bus-encrypted, however many commands others send and *)
(* whatever had been mounted before.                                        *)
RawSession ==
  \A p \in Procs :
    run[p].command = "decrypt" /\ run[p].calm =>
      \A k \in DOMAIN run[p].file : run[p].file[k] = "raw"

(* "report exactly where the drive accepts or rejects" (lib.rs:195): a      *)
(* probe that met no reset and no fault says of the certificate what the    *)
(* drive thinks of it, also while other probes run; or that it got no AGID, *)
(* and then earlier ones have used them up.                                 *)
ProbeVerdict ==
  \A p \in Procs :
    run[p].command = "ake" /\ run[p].calm =>
      /\ run[p].exit = "ACCEPTED" => ~revoked
      /\ run[p].exit = "REJECTED" => revoked
      /\ run[p].exit = "no AGID" => \A a \in Agids : agids[a] # "free"
      /\ run[p].exit # "no drive cert"

(* "Backends must never silently emit bus-encrypted bytes" (spec 11, 11.2): *)
(* decrypt, which reads through PlainUdfReader (lib.rs:91-96), takes no     *)
(* bus-encrypted unit for content, unlock or not.                           *)
DecryptNeverBus ==
  \A p \in Procs :
    run[p].command = "decrypt" =>
      \A k \in DOMAIN run[p].file : run[p].file[k] # "bus"
=============================================================================
