------------------------- MODULE DriveSessionProofs -------------------------
(***************************************************************************)
(* Theorems about DriveSession, for any number of programs, AGIDs, units,  *)
(* commands of the table and resets.                                       *)
(***************************************************************************)
EXTENDS DriveSession, TLAPS

(* What holds of the drive and of the file system.  A disc that was mounted *)
(* after an unlock has only raw sectors to give, cached or not.             *)
SharedOK ==
  /\ DriveTypeOK
  /\ agids \in [Agids -> {"free", "allocated", "certified"}]
  /\ revoked \in BOOLEAN
  /\ mounted \in BOOLEAN
  /\ promised \in BOOLEAN
  /\ kept \in BOOLEAN
  /\ cached \in [1..NumUnits -> {"raw", "bus", "no"}]
  /\ promised => raw
  /\ kept => promised
  /\ kept => \A k \in 1..NumUnits : cached[k] # "bus"
  /\ ~mounted => \A k \in 1..NumUnits : cached[k] = "no"

(* What a replay knows: a drive that is cold, and was not reset meanwhile   *)
(* or sent another replay's commands, has seen the commands this one got    *)
(* answers to.                                                              *)
ReplayOK(r) ==
  r.pc = "replay" =>
    /\ r.command \in {"unlock", "vid", "ake"}
    /\ r.command = "unlock" /\ r.cmd > 0 /\ r.calm /\ ~r.mixed =>
         raw \/ scraped = r.cmd
    /\ r.libredrive => kind = "libre"

UnlockOK(r) == r.command = "unlock" /\ r.exit = "ok" /\ r.calm => raw

(* While a clip is read, no reset since the unlock: the promise holds, and  *)
(* the mount of the moment is one that came after it.                       *)
DecryptOK(r) ==
  /\ r.pc = "pull" => r.command = "decrypt"
  /\ r.pc = "pull" /\ r.calm => promised /\ (mounted => kept)
  /\ r.command = "decrypt" /\ r.calm =>
       \A k \in 1..Len(r.file) : r.file[k] = "raw"

(* The AGID of a probe is its own for as long as the drive is not reset.    *)
ProbeOK(r) ==
  /\ r.pc \in {"send", "cert"} => r.agid \in Agids
  /\ r.pc = "send" /\ r.calm => agids[r.agid] # "free"
  /\ r.pc = "cert" /\ r.calm => agids[r.agid] = "certified" /\ ~revoked
  /\ r.command = "ake" /\ r.calm =>
       /\ r.exit = "ACCEPTED" => ~revoked
       /\ r.exit = "REJECTED" => revoked
       /\ r.exit = "no AGID" => \A a \in Agids : agids[a] # "free"
       /\ r.exit # "no drive cert"

ProgramOK(r) ==
  /\ r \in Programs
  /\ Len(r.file) <= NumUnits
  /\ r.pc = "idle" => r.file = << >>
  /\ r.pc # "exit" => r.exit = "running"
  /\ ReplayOK(r)
  /\ UnlockOK(r)
  /\ DecryptOK(r)
  /\ ProbeOK(r)

IInv ==
  /\ SharedOK
  /\ run \in [Procs -> Programs]
  /\ \A p \in Procs : ProgramOK(run[p])

(* What every step but a reset does to what programs rely on.               *)
Lasting ==
  /\ kind' = kind
  /\ raw => raw'
  /\ promised => promised'
  /\ promised /\ mounted' /\ (mounted => kept) => kept'
  /\ \A a \in Agids : agids[a] # "free" => agids'[a] # "free"
  /\ \A a \in Agids : agids[a] = "certified" => agids'[a] = "certified"
  /\ revoked' = revoked

(* Nor does it take from a replay the place it has in the sequence.         *)
Undisturbed(r) ==
  \/ raw
  \/ scraped' = scraped
  \/ ~(r.pc = "replay" /\ r.command = "unlock" /\ r.cmd > 0)
  \/ r.mixed

-----------------------------------------------------------------------------
LEMMA ProgramLasts ==
  ASSUME NEW r, ProgramOK(r), SharedOK, SharedOK', Lasting, Undisturbed(r)
  PROVE  ProgramOK(r)'
<1>1. ReplayOK(r)'
  BY DEF ProgramOK, Programs, ReplayOK, Lasting, Undisturbed
<1>2. UnlockOK(r)'
  BY DEF ProgramOK, UnlockOK, Lasting
<1>3. DecryptOK(r)'
  BY DEF ProgramOK, DecryptOK, Lasting
<1>4. ProbeOK(r)'
  BY DEF ProgramOK, ProbeOK, Lasting
<1>. QED  BY <1>1, <1>2, <1>3, <1>4 DEF ProgramOK

(* A step of one program keeps the invariant if it leaves to the others     *)
(* what they rely on.                                                       *)
LEMMA OneProgram ==
  ASSUME IInv, SharedOK', Lasting, scraped' = scraped, NEW p \in Procs, NEW r, ProgramOK(r)',
         run' = [run EXCEPT ![p] = r]
  PROVE  IInv'
<1>1. r \in Programs
  BY DEF ProgramOK, Programs, Outcomes
<1>2. run' \in [Procs -> Programs]
  BY <1>1 DEF IInv
<1>3. ASSUME NEW q \in Procs
      PROVE  ProgramOK(run[q])'
  <2>1. CASE q = p
    BY <2>1 DEF IInv
  <2>2. CASE q # p
    <3>1. run'[q] = run[q]
      BY <2>2 DEF IInv
    <3>. DEFINE s == run[q]
    <3>2. \A t : ProgramOK(t) => ProgramOK(t)'
      BY ProgramLasts DEF IInv, Undisturbed
    <3>. QED  BY <3>1, <3>2 DEF IInv
  <2>. QED  BY <2>1, <2>2
<1>. QED  BY <1>2, <1>3 DEF IInv

(* And so does a step of none.                                              *)
LEMMA NoProgram ==
  ASSUME IInv, SharedOK', Lasting, scraped' = scraped, run' = run
  PROVE  IInv'
<1>1. \A t : ProgramOK(t) => ProgramOK(t)'
  BY ProgramLasts DEF IInv, Undisturbed
<1>. QED  BY <1>1 DEF IInv

-----------------------------------------------------------------------------
LEMMA InitIInv == Init => IInv
<1>. SUFFICES ASSUME Init PROVE IInv
  OBVIOUS
<1>1. DriveTypeOK
  <2>1. raw \in (IF kind = "libre" THEN BOOLEAN ELSE {FALSE})
    BY Zenon DEF Init, DriveInit
  <2>2. {bee, attention} \subseteq BOOLEAN
    BY Zenon DEF Init, DriveInit
  <2>3. /\ kind \in Kinds
        /\ scraped \in 0..UnlockTable
        /\ scraped # UnlockTable
        /\ resets \in 0..MaxResets
    BY OpticalDriveAssumption DEF Init, DriveInit
  <2>. QED  BY <2>1, <2>2, <2>3 DEF DriveTypeOK
<1>2. SharedOK
  BY <1>1, DriveSessionAssumption DEF Init, SharedOK
<1>3. Idle \in Programs
  BY OpticalDriveAssumption DEF Idle, Programs, Outcomes
<1>4. ProgramOK(Idle)
  BY <1>3, DriveSessionAssumption
  DEF ProgramOK, Idle, ReplayOK, UnlockOK, DecryptOK, ProbeOK
<1>. QED  BY <1>2, <1>3, <1>4 DEF Init, IInv

(* A failed command, or none, leaves the drive as it is.                    *)
LEMMA DriveStays ==
  ASSUME DriveTypeOK, Refuse \/ UNCHANGED driveVars
  PROVE  DriveTypeOK' /\ UNCHANGED <<kind, raw, scraped>>
<1>1. UNCHANGED <<kind, bee, raw, scraped, resets>>
  BY DEF Refuse, driveVars
<1>2. attention' = FALSE \/ attention' = attention
  BY DEF Refuse, driveVars
<1>3. bee \in BOOLEAN /\ attention \in BOOLEAN
  BY DEF DriveTypeOK
<1>4. {bee', attention'} \subseteq BOOLEAN
  BY <1>1, <1>2, <1>3
<1>5. raw' \in (IF kind' = "libre" THEN BOOLEAN ELSE {FALSE})
  BY <1>1 DEF DriveTypeOK
<1>6. kind' = "libre" /\ scraped' = UnlockTable => raw'
  BY <1>1, Zenon DEF DriveTypeOK
<1>7. scraped' \in 0..UnlockTable
  BY <1>1, OpticalDriveAssumption DEF DriveTypeOK
<1>8. kind' \in Kinds /\ resets' \in 0..MaxResets
  BY <1>1 DEF DriveTypeOK
<1>. QED  BY <1>1, <1>4, <1>5, <1>6, <1>7, <1>8, Zenon DEF DriveTypeOK

(* A command or its failure, or nothing, at the drive.                      *)
LEMMA DriveSteps ==
  ASSUME IInv, UNCHANGED <<agids, revoked, osVars>>,
         \/ \E c \in 0..(UnlockTable - 1) : Scrape(c)
         \/ Refuse
         \/ UNCHANGED driveVars
  PROVE  SharedOK' /\ Lasting
<1>1. DriveTypeOK' /\ kind' = kind /\ (raw => raw')
  <2>1. CASE Refuse \/ UNCHANGED driveVars
    <3>1. DriveTypeOK' /\ UNCHANGED <<kind, raw, scraped>>
      BY <2>1, DriveStays DEF IInv, SharedOK
    <3>. QED  BY <3>1
  <2>2. ASSUME NEW c \in 0..(UnlockTable - 1), Scrape(c)
        PROVE  DriveTypeOK' /\ kind' = kind /\ (raw => raw')
    <3>1. /\ UNCHANGED <<kind, bee, attention, resets>>
          /\ scraped' \in {0, 1, scraped} \/ (scraped = c /\ scraped' = scraped + 1)
      BY <2>2 DEF Scrape
    <3>2. scraped' \in 0..UnlockTable
      BY <3>1, OpticalDriveAssumption DEF IInv, SharedOK, DriveTypeOK
    <3>3. raw' \in (IF kind = "libre" THEN BOOLEAN ELSE {FALSE})
      BY <2>2, Zenon DEF IInv, SharedOK, DriveTypeOK, Scrape
    <3>4. (raw => raw') /\ (kind = "libre" /\ scraped' = UnlockTable => raw')
      BY <2>2, Zenon DEF Scrape
    <3>. QED  BY <3>1, <3>2, <3>3, <3>4 DEF IInv, SharedOK, DriveTypeOK
  <2>. QED  BY <2>1, <2>2
<1>2. SharedOK'
  BY <1>1 DEF IInv, SharedOK, osVars
<1>3. Lasting
  BY <1>1 DEF IInv, SharedOK, osVars, Lasting
<1>. QED  BY <1>2, <1>3

(* Most steps of a program leave the shared state alone, but for the drive. *)
LEMMA ProgramSteps ==
  ASSUME IInv, UNCHANGED <<agids, revoked, osVars>>,
         Refuse \/ UNCHANGED driveVars,
         NEW p \in Procs, NEW r, ProgramOK(r), run' = [run EXCEPT ![p] = r]
  PROVE  IInv'
<1>1. SharedOK' /\ Lasting
  BY DriveSteps
<1>2. scraped' = scraped
  BY DriveStays DEF IInv, SharedOK
<1>3. ProgramOK(r)'
  BY <1>1, <1>2, ProgramLasts DEF IInv, Undisturbed
<1>. QED  BY <1>1, <1>2, <1>3, OneProgram

-----------------------------------------------------------------------------
(* Starting and ending.                                                     *)

LEMMA StartIInv ==
  ASSUME IInv, NEW p \in Procs, StartOnDrive(p) \/ StartDecrypt(p)
  PROVE  IInv'
<1>1. CASE StartOnDrive(p)
  <2>1. PICK command \in {"unlock", "vid", "ake"}, pc \in {"replay", "vid"} :
          Start(p, command, pc)
    BY <1>1 DEF StartOnDrive
  <2>2. PICK r : r = [Idle EXCEPT !.command = command, !.pc = pc]
    OBVIOUS
  <2>3. r = [command |-> command, pc |-> pc, cmd |-> 0, libredrive |-> FALSE,
             agid |-> None, file |-> << >>, exit |-> "running", calm |-> TRUE,
             mixed |-> FALSE]
    BY <2>2 DEF Idle
  <2>4. r \in Programs
    BY <2>3, OpticalDriveAssumption DEF Programs, Outcomes
  <2>5. ReplayOK(r)
    BY <2>3, OpticalDriveAssumption
    DEF ReplayOK, IInv, SharedOK, DriveTypeOK
  <2>6. ProgramOK(r)
    BY <2>3, <2>4, <2>5, DriveSessionAssumption
    DEF ProgramOK, UnlockOK, DecryptOK, ProbeOK
  <2>. QED  BY <2>1, <2>2, <2>6, ProgramSteps DEF Start
<1>2. CASE StartDecrypt(p)
  <2>1. PICK r :
          r = [Idle EXCEPT !.command = "decrypt", !.pc = "pull", !.calm = kept]
    OBVIOUS
  <2>2. kept \in BOOLEAN
    BY DEF IInv, SharedOK
  <2>3. r = [command |-> "decrypt", pc |-> "pull", cmd |-> 0, libredrive |-> FALSE,
             agid |-> None, file |-> << >>, exit |-> "running", calm |-> kept,
             mixed |-> FALSE]
    BY <2>1 DEF Idle
  <2>4. r \in Programs
    BY <2>2, <2>3, OpticalDriveAssumption DEF Programs, Outcomes
  <2>5. DecryptOK(r)
    BY <2>3 DEF DecryptOK, IInv, SharedOK
  <2>6. ProgramOK(r)
    BY <2>3, <2>4, <2>5, DriveSessionAssumption
    DEF ProgramOK, ReplayOK, UnlockOK, ProbeOK
  <2>. QED  BY <1>2, <2>1, <2>6, ProgramSteps DEF StartDecrypt
<1>. QED  BY <1>1, <1>2

LEMMA LeaveIInv ==
  ASSUME IInv, NEW p \in Procs, Leave(p)
  PROVE  IInv'
<1>1. ProgramOK(Idle)
  BY OpticalDriveAssumption, DriveSessionAssumption
  DEF ProgramOK, Idle, Programs, Outcomes, ReplayOK, UnlockOK, DecryptOK, ProbeOK
<1>2. PICK r : r = Idle
  OBVIOUS
<1>3. ProgramOK(r)
  BY <1>1, <1>2
<1>. QED  BY <1>2, <1>3, ProgramSteps DEF Leave

(* What a program ends as.                                                  *)
Ended(r, how, calm) ==
  [Idle EXCEPT !.command = r.command, !.pc = "exit", !.exit = how,
               !.file = r.file, !.calm = calm]

LEMMA EndedType ==
  ASSUME NEW r \in Programs, NEW how \in Outcomes, NEW calm \in BOOLEAN
  PROVE  Ended(r, how, calm) \in Programs
<1>1. PICK d : d = [Idle EXCEPT !.command = r.command, !.pc = "exit", !.exit = how]
  OBVIOUS
<1>2. d = [command |-> r.command, pc |-> "exit", cmd |-> 0, libredrive |-> FALSE,
           agid |-> None, file |-> << >>, exit |-> how, calm |-> TRUE,
           mixed |-> FALSE]
  BY <1>1 DEF Idle
<1>3. PICK e : e = [d EXCEPT !.file = r.file, !.calm = calm]
  OBVIOUS
<1>4. e = Ended(r, how, calm)
  BY <1>1, <1>3, Zenon DEF Ended
<1>5. e = [command |-> r.command, pc |-> "exit", cmd |-> 0, libredrive |-> FALSE,
           agid |-> None, file |-> r.file, exit |-> how, calm |-> calm,
           mixed |-> FALSE]
  BY <1>2, <1>3
<1>6. /\ r.command \in {None, "unlock", "vid", "ake", "decrypt"}
      /\ r.file \in Seq({"raw", "bus"})
  BY DEF Programs
<1>7. e \in Programs
  BY <1>5, <1>6, OpticalDriveAssumption DEF Programs
<1>. QED  BY <1>4, <1>7

LEMMA EndedOK ==
  ASSUME NEW r, ProgramOK(r), NEW how \in Outcomes, NEW calm \in BOOLEAN,
         calm => r.calm,
         r.command = "unlock" /\ how = "ok" /\ calm => raw,
         r.command = "ake" /\ calm =>
           /\ how = "ACCEPTED" => ~revoked
           /\ how = "REJECTED" => revoked
           /\ how = "no AGID" => \A a \in Agids : agids[a] # "free"
           /\ how # "no drive cert"
  PROVE  ProgramOK(Ended(r, how, calm))
<1>. DEFINE e == Ended(r, how, calm)
<1>1. e \in Programs
  BY EndedType DEF ProgramOK
<1>2. /\ e.command = r.command
      /\ e.pc = "exit"
      /\ e.exit = how
      /\ e.file = r.file
      /\ e.calm = calm
  BY DEF Ended, Idle
<1>. HIDE DEF e
<1>3. DecryptOK(e)
  BY <1>2 DEF DecryptOK, ProgramOK
<1>4. ReplayOK(e) /\ UnlockOK(e) /\ ProbeOK(e)
  BY <1>2 DEF ReplayOK, UnlockOK, ProbeOK
<1>5. ProgramOK(e)
  BY <1>1, <1>2, <1>3, <1>4 DEF ProgramOK
<1>. QED  BY <1>5 DEF e

(* A program ends, and the shared state stays as it is.                     *)
LEMMA ExitSteps ==
  ASSUME IInv, UNCHANGED <<agids, revoked, osVars>>,
         Refuse \/ UNCHANGED driveVars,
         NEW p \in Procs, NEW how \in Outcomes, NEW calm \in BOOLEAN,
         ExitWith(p, how, calm), calm => run[p].calm,
         run[p].command = "unlock" /\ how = "ok" /\ calm => raw,
         run[p].command = "ake" /\ calm =>
           /\ how = "ACCEPTED" => ~revoked
           /\ how = "REJECTED" => revoked
           /\ how = "no AGID" => \A a \in Agids : agids[a] # "free"
           /\ how # "no drive cert"
  PROVE  IInv'
<1>1. ProgramOK(run[p])
  BY DEF IInv
<1>2. PICK s : s = run[p]
  OBVIOUS
<1>3. ProgramOK(Ended(s, how, calm))
  BY <1>1, <1>2, EndedOK
<1>4. PICK r : r = Ended(s, how, calm)
  OBVIOUS
<1>5. run' = [run EXCEPT ![p] = r]
  BY <1>2, <1>4, Zenon DEF ExitWith, Ended
<1>6. ProgramOK(r)
  BY <1>3, <1>4
<1>. QED  BY <1>5, <1>6, ProgramSteps

LEMMA FailureIs ==
  /\ DOMAIN Failure = {"replay", "vid", "agid", "send", "cert"}
  /\ Failure["replay"] = "error"
  /\ Failure["vid"] = "error"
  /\ Failure["agid"] = "no AGID"
  /\ Failure["send"] = "REJECTED"
  /\ Failure["cert"] = "no drive cert"
BY DEF Failure

LEMMA FailedIInv ==
  ASSUME IInv, NEW p \in Procs, Failed(p)
  PROVE  IInv'
<1>1. Failure[run[p].pc] \in Outcomes
  BY FailureIs DEF Failed, Sending, Outcomes
<1>2. /\ Refuse
      /\ UNCHANGED <<agids, revoked, osVars>>
      /\ ExitWith(p, Failure[run[p].pc], FALSE)
  BY DEF Failed
<1>. QED  BY <1>1, <1>2, ExitSteps

LEMMA RefusedIInv ==
  ASSUME IInv, NEW p \in Procs, Refused(p)
  PROVE  IInv'
<1>. DEFINE how == Failure[run[p].pc]
<1>1. /\ UNCHANGED <<agids, revoked, osVars, driveVars>>
      /\ ExitWith(p, how, run[p].calm)
      /\ run[p].pc \in {"replay", "vid", "agid", "send", "cert"}
      /\ Refuses(p)
  BY FailureIs DEF Refused, Sending, Exit
<1>2. ProgramOK(run[p]) /\ run[p].calm \in BOOLEAN
  BY DEF IInv, ProgramOK, Programs
<1>3. how \in Outcomes /\ how \notin {"ok", "ACCEPTED"}
  BY <1>1, FailureIs DEF Outcomes
<1>4. how = "REJECTED" /\ run[p].calm => revoked
  BY <1>1, <1>2, FailureIs DEF Refuses, At, ProgramOK, ProbeOK
<1>5. how = "no AGID" => \A a \in Agids : agids[a] # "free"
  BY <1>1, FailureIs DEF Refuses, At
<1>6. how = "no drive cert" => ~run[p].calm
  BY <1>1, <1>2, FailureIs DEF Refuses, At, ProgramOK, ProbeOK
<1>. HIDE DEF how
<1>. QED  BY <1>1, <1>2, <1>3, <1>4, <1>5, <1>6, ExitSteps

LEMMA ReadIInv ==
  ASSUME IInv, NEW p \in Procs, CertRead(p) \/ PullEnd(p) \/ PullError(p)
  PROVE  IInv'
<1>1. ProgramOK(run[p]) /\ run[p].calm \in BOOLEAN
  BY DEF IInv, ProgramOK, Programs
<1>2. /\ UNCHANGED <<agids, revoked, osVars>>
      /\ Refuse \/ UNCHANGED driveVars
  BY DEF CertRead, PullEnd, PullError
<1>3. CASE CertRead(p)
  <2>1. ExitWith(p, "ACCEPTED", run[p].calm) /\ (run[p].calm => ~revoked)
    BY <1>1, <1>3 DEF CertRead, Exit, At, ProgramOK, ProbeOK
  <2>. QED  BY <1>1, <1>2, <2>1, ExitSteps DEF Outcomes
<1>4. ASSUME NEW how \in {"ok", "read failed"}, Exit(p, how), At(p, "pull")
      PROVE  IInv'
  <2>1. ExitWith(p, how, run[p].calm) /\ run[p].command = "decrypt"
    BY <1>1, <1>4 DEF Exit, At, ProgramOK, DecryptOK
  <2>2. how \in Outcomes
    BY DEF Outcomes
  <2>. QED  BY <1>1, <1>2, <2>1, <2>2, ExitSteps
<1>. QED  BY <1>3, <1>4 DEF PullEnd, PullError

LEMMA VidReadIInv ==
  ASSUME IInv, NEW p \in Procs, VidRead(p)
  PROVE  IInv'
<1>1. run[p].calm \in BOOLEAN
  BY DEF IInv, ProgramOK, Programs
<1>2. PICK how \in {"VID", "error"}, calm \in {FALSE, run[p].calm} :
        ExitWith(p, how, calm)
  BY DEF VidRead, Exit
<1>3. how \in Outcomes /\ calm \in BOOLEAN /\ (calm => run[p].calm)
  BY <1>1, <1>2 DEF Outcomes
<1>4. UNCHANGED <<agids, revoked, osVars, driveVars>>
  BY DEF VidRead
<1>. QED  BY <1>2, <1>3, <1>4, ExitSteps

-----------------------------------------------------------------------------
(* The replay of the table.                                                 *)

(* The other programs, after a command of this one's replay.                *)
LEMMA OthersLast ==
  ASSUME IInv, SharedOK', Lasting, NEW q \in Procs,
         NEW r, r = Mixed(q)
  PROVE  ProgramOK(r)'
<1>1. ProgramOK(run[q]) /\ run[q] \in Programs
  BY DEF IInv, ProgramOK
<1>2. CASE At(q, "replay") /\ run[q].command = "unlock" /\ run[q].cmd > 0 /\ ~raw
  <2>1. r = [run[q] EXCEPT !.mixed = TRUE]
    BY <1>2 DEF Mixed
  <2>2. /\ r \in Programs
        /\ r.mixed
        /\ r.pc = run[q].pc
        /\ r.command = run[q].command
        /\ r.cmd = run[q].cmd
        /\ r.libredrive = run[q].libredrive
        /\ r.agid = run[q].agid
        /\ r.file = run[q].file
        /\ r.exit = run[q].exit
        /\ r.calm = run[q].calm
    BY <1>1, <2>1 DEF Programs
  <2>3. ReplayOK(r) /\ UnlockOK(r) /\ DecryptOK(r) /\ ProbeOK(r)
    BY <1>1, <2>2 DEF ProgramOK, ReplayOK, UnlockOK, DecryptOK, ProbeOK
  <2>4. ProgramOK(r)
    BY <1>1, <2>2, <2>3 DEF ProgramOK
  <2>. QED  BY <2>2, <2>4, ProgramLasts DEF IInv, Undisturbed
<1>3. CASE ~(At(q, "replay") /\ run[q].command = "unlock" /\ run[q].cmd > 0 /\ ~raw)
  <2>1. r = run[q]
    BY <1>3 DEF Mixed
  <2>2. Undisturbed(r)
    BY <1>1, <1>3, <2>1 DEF At, Undisturbed, Programs
  <2>. QED  BY <1>1, <2>1, <2>2, ProgramLasts DEF IInv
<1>. QED  BY <1>2, <1>3

LEMMA AnsweredIInv ==
  ASSUME IInv, NEW p \in Procs, Answered(p)
  PROVE  IInv'
<1>1. PICK signed \in BOOLEAN :
        /\ signed => kind = "libre" \/ run[p].libredrive
        /\ run' = [q \in Procs |->
                     IF q # p THEN Mixed(q)
                     ELSE [run[p] EXCEPT !.cmd = @ + 1, !.libredrive = signed]]
  BY DEF Answered
<1>2. PICK r : r = [run[p] EXCEPT !.cmd = run[p].cmd + 1, !.libredrive = signed]
  OBVIOUS
<1>3. run'[p] = r /\ \A q \in Procs \ {p} : run'[q] = Mixed(q)
  BY <1>1, <1>2
<1>4. ProgramOK(run[p]) /\ run[p] \in Programs
  BY DEF IInv, ProgramOK
<1>5. /\ run[p].pc = "replay"
      /\ run[p].cmd \in 0..(UnlockTable - 1)
      /\ Scrape(run[p].cmd)
      /\ UNCHANGED <<agids, revoked, osVars>>
  BY <1>4, OpticalDriveAssumption DEF Answered, At, Programs
<1>6. SharedOK' /\ Lasting
  BY <1>5, DriveSteps
<1>7. /\ r \in Programs
      /\ r.cmd = run[p].cmd + 1
      /\ r.libredrive = signed
      /\ r.command = run[p].command
      /\ r.pc = "replay"
      /\ r.file = run[p].file
      /\ r.exit = run[p].exit
      /\ r.calm = run[p].calm
      /\ r.mixed = run[p].mixed
  <2>1. run[p].cmd + 1 \in 0..UnlockTable
    BY <1>5, OpticalDriveAssumption
  <2>. QED  BY <1>2, <1>4, <1>5, <2>1 DEF Programs
<1>8. raw => raw'
  BY <1>6 DEF Lasting
<1>9. ASSUME r.command = "unlock", r.calm, ~r.mixed PROVE raw' \/ scraped' = r.cmd
  <2>1. CASE raw
    BY <1>8, <2>1
  <2>2. CASE ~raw /\ run[p].cmd = 0
    BY <1>5, <1>7, <2>2 DEF Scrape
  <2>3. CASE ~raw /\ run[p].cmd > 0
    <3>1. scraped = run[p].cmd
      BY <1>4, <1>5, <1>7, <1>9, <2>3 DEF ProgramOK, ReplayOK
    <3>. QED  BY <1>5, <1>7, <2>3, <3>1 DEF Scrape
  <2>. QED  BY <1>5, <2>1, <2>2, <2>3
<1>10. ReplayOK(r)'
  <2>1. r.command \in {"unlock", "vid", "ake"} /\ kind' = kind
    BY <1>4, <1>5, <1>6, <1>7 DEF ProgramOK, ReplayOK, Lasting
  <2>2. r.libredrive => kind = "libre"
    BY <1>1, <1>4, <1>5, <1>7 DEF ProgramOK, ReplayOK
  <2>. QED  BY <1>9, <2>1, <2>2 DEF ReplayOK
<1>11. ProgramOK(r)'
  BY <1>4, <1>5, <1>7, <1>10
  DEF ProgramOK, ReplayOK, UnlockOK, DecryptOK, ProbeOK
<1>12. ASSUME NEW q \in Procs PROVE ProgramOK(run[q])'
  <2>1. CASE q = p
    BY <1>3, <1>11, <2>1
  <2>2. CASE q # p
    <3>1. PICK s : s = Mixed(q)
      OBVIOUS
    <3>2. ProgramOK(s)'
      BY <1>6, <3>1, OthersLast
    <3>. QED  BY <1>3, <2>2, <3>1, <3>2
  <2>. QED  BY <2>1, <2>2
<1>13. run' \in [Procs -> Programs]
  <2>1. \A q \in Procs : run'[q] \in Programs
    BY <1>12, Zenon DEF ProgramOK, Programs, Outcomes
  <2>. QED  BY <1>1, <2>1
<1>. QED  BY <1>6, <1>12, <1>13 DEF IInv

LEMMA ReplayedIInv ==
  ASSUME IInv, NEW p \in Procs, Replayed(p)
  PROVE  IInv'
<1>1. PICK r :
        r = [run[p] EXCEPT !.pc = AfterReplay[run[p].command], !.cmd = 0,
                           !.libredrive = FALSE]
  OBVIOUS
<1>2. run' = [run EXCEPT ![p] = r]
  BY <1>1 DEF Replayed, IInv
<1>3. ProgramOK(run[p]) /\ run[p] \in Programs
  BY DEF IInv, ProgramOK
<1>4. run[p].pc = "replay" /\ run[p].command \in {"vid", "ake"}
  BY <1>3 DEF Replayed, At, ProgramOK, ReplayOK
<1>5. AfterReplay[run[p].command] \in {"vid", "agid"}
  BY <1>4 DEF AfterReplay
<1>6. r \in Programs
  <2>1. PICK pc : pc = AfterReplay[run[p].command]
    OBVIOUS
  <2>2. r = [run[p] EXCEPT !.pc = pc, !.cmd = 0, !.libredrive = FALSE]
    BY <1>1, <2>1
  <2>3. 0 \in 0..UnlockTable /\ pc \in {"vid", "agid"}
    BY <1>5, <2>1, OpticalDriveAssumption
  <2>. QED  BY <1>3, <2>2, <2>3 DEF Programs
<1>7. /\ r.command = run[p].command
      /\ r.pc \in {"vid", "agid"}
      /\ r.file = run[p].file
      /\ r.exit = run[p].exit
      /\ r.calm = run[p].calm
  BY <1>1, <1>3, <1>5 DEF Programs
<1>8. ProgramOK(r)
  BY <1>3, <1>4, <1>6, <1>7
  DEF ProgramOK, ReplayOK, UnlockOK, DecryptOK, ProbeOK
<1>. QED  BY <1>2, <1>8, ProgramSteps DEF Replayed

(* The whole table answered, to a LibreDrive, with no reset and no other    *)
(* replay on the way: the drive is raw when the unlock says so.             *)
LEMMA UnlockedIInv ==
  ASSUME IInv, NEW p \in Procs, Unlocked(p)
  PROVE  IInv'
<1>. DEFINE how == IF run[p].libredrive THEN "ok" ELSE "not LibreDrive"
            calm == run[p].calm /\ ~run[p].mixed
<1>1. ProgramOK(run[p]) /\ run[p].calm \in BOOLEAN
  BY DEF IInv, ProgramOK, Programs
<1>2. /\ run[p].pc = "replay"
      /\ run[p].cmd = UnlockTable
      /\ run[p].command = "unlock"
      /\ ExitWith(p, how, calm)
      /\ UNCHANGED <<agids, revoked, mounted, cached, kept, driveVars>>
  BY DEF Unlocked, At, Exit
<1>3. run[p].libredrive /\ calm => raw
  BY <1>1, <1>2, OpticalDriveAssumption
  DEF ProgramOK, ReplayOK, IInv, SharedOK, DriveTypeOK
<1>4. /\ promised' \in BOOLEAN
      /\ promised' => raw
      /\ promised => promised'
  <2>1. promised' = (promised \/ (run[p].libredrive /\ calm))
    BY DEF Unlocked
  <2>2. promised => raw
    BY DEF IInv, SharedOK
  <2>. QED  BY <1>3, <2>1, <2>2, Zenon
<1>5. DriveTypeOK' /\ raw' = raw /\ scraped' = scraped /\ kind' = kind
  BY <1>2 DEF driveVars, IInv, SharedOK, DriveTypeOK
<1>6. SharedOK'
  <2>1. UNCHANGED <<agids, revoked, mounted, cached, kept>>
    BY <1>2
  <2>2. (promised' => raw') /\ (kept' => promised')
    BY <1>4, <1>5, <2>1 DEF IInv, SharedOK
  <2>. QED  BY <1>4, <1>5, <2>1, <2>2 DEF IInv, SharedOK
<1>7. Lasting
  <2>1. UNCHANGED <<agids, revoked, mounted, kept, kind, raw>>
    BY <1>2, <1>5
  <2>. QED  BY <1>4, <2>1, Zenon DEF Lasting
<1>8. PICK s : s = run[p]
  OBVIOUS
<1>c. calm \in BOOLEAN /\ (calm => s.calm)
  BY <1>1, <1>8
<1>9. how \in Outcomes /\ (how = "ok" => s.libredrive)
  BY <1>8 DEF Outcomes
<1>10. PICK r : r = Ended(s, how, calm)
  OBVIOUS
<1>11. run' = [run EXCEPT ![p] = r]
  BY <1>2, <1>8, <1>10, Zenon DEF ExitWith, Ended
<1>12. s.command = "unlock"
  BY <1>2, <1>8
<1>. HIDE DEF how, calm
<1>13. ProgramOK(r)
  BY <1>1, <1>3, <1>8, <1>9, <1>10, <1>12, <1>c, EndedOK
<1>14. ProgramOK(r)'
  BY <1>5, <1>6, <1>7, <1>13, ProgramLasts DEF IInv, Undisturbed
<1>. QED  BY <1>5, <1>6, <1>7, <1>11, <1>14, OneProgram

-----------------------------------------------------------------------------
(* The probe, and the AGIDs of the drive.                                   *)

LEMMA AgidGivenIInv ==
  ASSUME IInv, NEW p \in Procs, AgidGiven(p)
  PROVE  IInv'
<1>1. PICK a \in Agids :
        /\ agids[a] = "free"
        /\ agids' = [agids EXCEPT ![a] = "allocated"]
        /\ run' = [run EXCEPT ![p].agid = a, ![p].pc = "send"]
  BY DEF AgidGiven
<1>2. PICK r : r = [run[p] EXCEPT !.agid = a, !.pc = "send"]
  OBVIOUS
<1>3. run' = [run EXCEPT ![p] = r]
  BY <1>1, <1>2 DEF IInv
<1>4. ProgramOK(run[p]) /\ run[p] \in Programs /\ run[p].pc = "agid"
  BY DEF IInv, ProgramOK, AgidGiven, At
<1>5. agids' \in [Agids -> {"free", "allocated", "certified"}] /\ agids'[a] # "free"
  BY <1>1 DEF IInv, SharedOK
<1>6. UNCHANGED <<revoked, mounted, cached, promised, kept, raw, scraped, kind>>
      /\ DriveTypeOK'
  BY DriveStays DEF AgidGiven, osVars, IInv, SharedOK
<1>7. SharedOK'
  BY <1>5, <1>6 DEF IInv, SharedOK
<1>8. Lasting /\ scraped' = scraped
  BY <1>1, <1>6 DEF IInv, SharedOK, Lasting
<1>9. /\ r \in Programs
      /\ r.agid = a
      /\ r.pc = "send"
      /\ r.command = run[p].command
      /\ r.file = run[p].file
      /\ r.exit = run[p].exit
      /\ r.calm = run[p].calm
  BY <1>2, <1>4 DEF Programs
<1>10. r.exit = "running"
  BY <1>4, <1>9 DEF ProgramOK
<1>11. ProbeOK(r)'
  BY <1>5, <1>9, <1>10 DEF ProbeOK
<1>12. ProgramOK(r)'
  BY <1>4, <1>9, <1>10, <1>11
  DEF ProgramOK, ReplayOK, UnlockOK, DecryptOK
<1>. QED  BY <1>3, <1>7, <1>8, <1>12, OneProgram

(* An AGID nobody has is one less to give out, and nothing else.            *)
LEMMA AgidCutShortIInv ==
  ASSUME IInv, NEW p \in Procs, AgidCutShort(p)
  PROVE  IInv'
<1>1. PICK a \in Agids :
        agids[a] = "free" /\ agids' = [agids EXCEPT ![a] = "allocated"]
  BY DEF AgidCutShort
<1>2. ExitWith(p, "no AGID", FALSE)
  BY DEF AgidCutShort
<1>3. PICK s : s = run[p]
  OBVIOUS
<1>4. PICK r : r = Ended(s, "no AGID", FALSE)
  OBVIOUS
<1>5. run' = [run EXCEPT ![p] = r]
  BY <1>2, <1>3, <1>4, Zenon DEF ExitWith, Ended
<1>6. ProgramOK(s) /\ "no AGID" \in Outcomes
  BY <1>3 DEF IInv, Outcomes
<1>7. ProgramOK(r)
  BY <1>4, <1>6, EndedOK
<1>8. agids' \in [Agids -> {"free", "allocated", "certified"}]
  BY <1>1 DEF IInv, SharedOK
<1>9. UNCHANGED <<revoked, mounted, cached, promised, kept, raw, scraped, kind>>
      /\ DriveTypeOK'
  BY DriveStays DEF AgidCutShort, osVars, IInv, SharedOK
<1>10. SharedOK'
  BY <1>8, <1>9 DEF IInv, SharedOK
<1>11. Lasting /\ scraped' = scraped
  BY <1>1, <1>9 DEF IInv, SharedOK, Lasting
<1>12. ProgramOK(r)'
  BY <1>7, <1>10, <1>11, ProgramLasts DEF IInv, Undisturbed
<1>. QED  BY <1>5, <1>10, <1>11, <1>12, OneProgram

(* A certificate is taken only under an AGID that was given, and only when  *)
(* it is not revoked.                                                       *)
LEMMA CertSentIInv ==
  ASSUME IInv, NEW p \in Procs, CertSent(p)
  PROVE  IInv'
<1>1. PICK r : r = [run[p] EXCEPT !.pc = "cert"]
  OBVIOUS
<1>2. run' = [run EXCEPT ![p] = r]
  BY <1>1 DEF IInv, CertSent, Go
<1>3. ProgramOK(run[p]) /\ run[p] \in Programs /\ run[p].pc = "send"
  BY DEF IInv, ProgramOK, CertSent, At
<1>4. run[p].agid \in Agids /\ ~revoked
  BY <1>3 DEF ProgramOK, ProbeOK, CertSent, Refuses, At
<1>5. /\ agids' = [agids EXCEPT ![run[p].agid] = "certified"]
      /\ agids' \in [Agids -> {"free", "allocated", "certified"}]
      /\ agids'[run[p].agid] = "certified"
  BY <1>4 DEF CertSent, IInv, SharedOK
<1>6. UNCHANGED <<revoked, mounted, cached, promised, kept, raw, scraped, kind>>
      /\ DriveTypeOK'
  BY DriveStays DEF CertSent, osVars, IInv, SharedOK
<1>7. SharedOK'
  BY <1>5, <1>6 DEF IInv, SharedOK
<1>8. Lasting /\ scraped' = scraped
  BY <1>4, <1>5, <1>6 DEF IInv, SharedOK, Lasting
<1>9. /\ r \in Programs
      /\ r.agid = run[p].agid
      /\ r.pc = "cert"
      /\ r.command = run[p].command
      /\ r.file = run[p].file
      /\ r.exit = run[p].exit
      /\ r.calm = run[p].calm
  BY <1>1, <1>3 DEF Programs
<1>10. ~revoked' /\ r.agid \in Agids /\ agids'[r.agid] = "certified"
  BY <1>4, <1>5, <1>6, <1>9
<1>11. r.exit = "running"
  BY <1>3, <1>9 DEF ProgramOK
<1>12. ProbeOK(r)'
  BY <1>9, <1>10, <1>11 DEF ProbeOK
<1>13. ProgramOK(r)'
  BY <1>3, <1>9, <1>11, <1>12
  DEF ProgramOK, ReplayOK, UnlockOK, DecryptOK
<1>. QED  BY <1>2, <1>7, <1>8, <1>13, OneProgram

-----------------------------------------------------------------------------
(* The clip, and the file system.                                           *)

LEMMA PullIInv ==
  ASSUME IInv, NEW p \in Procs, Pull(p)
  PROVE  IInv'
<1>1. ProgramOK(run[p]) /\ run[p] \in Programs /\ run[p].pc = "pull"
  BY DEF IInv, ProgramOK, Pull, At
<1>2. PICK k : k = Len(run[p].file) + 1
  OBVIOUS
<1>3. k \in 1..NumUnits /\ run[p].file \in Seq({"raw", "bus"})
  BY <1>1, <1>2, DriveSessionAssumption DEF Pull, Programs
<1>4. PICK unit : unit = IF cached[k] = "no" THEN IF SendsBus THEN "bus" ELSE "raw"
                         ELSE cached[k]
  OBVIOUS
<1>5. unit \in {"raw", "bus"} /\ (kept => unit = "raw")
  BY <1>3, <1>4 DEF IInv, SharedOK, SendsBus
<1>6. PICK file : file = Append(run[p].file, unit)
  OBVIOUS
<1>7. PICK r : r = [run[p] EXCEPT !.file = file]
  OBVIOUS
<1>8. /\ mounted
      /\ cached' = [cached EXCEPT ![k] = unit]
      /\ run' = [run EXCEPT ![p] = r]
      /\ Refuse \/ UNCHANGED driveVars
      /\ UNCHANGED <<agids, revoked, mounted, promised, kept>>
  BY <1>2, <1>4, <1>6, <1>7 DEF IInv, Pull
<1>9. DriveTypeOK' /\ UNCHANGED <<raw, scraped, kind>>
  BY <1>8, DriveStays DEF IInv, SharedOK
<1>10. SharedOK'
  BY <1>3, <1>5, <1>8, <1>9 DEF IInv, SharedOK
<1>11. Lasting /\ scraped' = scraped
  BY <1>8, <1>9 DEF Lasting
<1>12. file \in Seq({"raw", "bus"})
  BY <1>3, <1>5, <1>6
<1>13. /\ r \in Programs
       /\ r.file = file
       /\ r.command = run[p].command
       /\ r.pc = "pull"
       /\ r.exit = run[p].exit
       /\ r.calm = run[p].calm
  BY <1>1, <1>7, <1>12 DEF Programs
<1>14. r.command = "decrypt" /\ (r.calm => promised /\ kept)
  BY <1>1, <1>8, <1>13 DEF ProgramOK, DecryptOK
<1>15. r.calm => \A i \in 1..Len(r.file) : r.file[i] = "raw"
  BY <1>1, <1>3, <1>5, <1>6, <1>13, <1>14 DEF ProgramOK, DecryptOK
<1>16. DecryptOK(r)'
  BY <1>8, <1>13, <1>14, <1>15 DEF DecryptOK
<1>17. Len(r.file) <= NumUnits
  BY <1>2, <1>3, <1>6, <1>13
<1>18. ProgramOK(r)'
  BY <1>1, <1>13, <1>14, <1>16, <1>17
  DEF ProgramOK, ReplayOK, UnlockOK, ProbeOK
<1>. QED  BY <1>8, <1>10, <1>11, <1>18, OneProgram

LEMMA FileSystemIInv ==
  ASSUME IInv, Mount \/ Unmount \/ Evict
  PROVE  IInv'
<1>1. run' = run /\ UNCHANGED <<agids, revoked, promised>>
  BY DEF Mount, Unmount, Evict
<1>2. DriveTypeOK' /\ UNCHANGED <<raw, scraped, kind>>
  BY DriveStays DEF Mount, Unmount, Evict, IInv, SharedOK
<1>3. SharedOK' /\ Lasting
  <2>1. CASE Mount
    BY <1>1, <1>2, <2>1 DEF Mount, IInv, SharedOK, Lasting
  <2>2. CASE Unmount
    <3>1. mounted' = FALSE /\ kept' = FALSE
          /\ cached' = [i \in 1..NumUnits |-> "no"]
      BY <2>2 DEF Unmount
    <3>2. SharedOK'
      BY <1>1, <1>2, <3>1 DEF IInv, SharedOK
    <3>3. Lasting
      BY <1>1, <1>2, <3>1, Zenon DEF Lasting
    <3>. QED  BY <3>2, <3>3
  <2>3. CASE Evict
    BY <1>1, <1>2, <2>3 DEF Evict, IInv, SharedOK, Lasting
  <2>. QED  BY <2>1, <2>2, <2>3
<1>. QED  BY <1>1, <1>2, <1>3, NoProgram

(* A reset takes from every program that runs what it relied on, and says   *)
(* so in `calm`.                                                            *)
LEMMA ResetIInv == IInv /\ Reset => IInv'
<1>. SUFFICES ASSUME IInv, Reset PROVE IInv'
  OBVIOUS
<1>1. DriveTypeOK'
  <2>1. raw' = FALSE /\ scraped' = 0 /\ attention' = TRUE /\ UNCHANGED <<kind, bee>>
    BY DEF Reset, DriveReset
  <2>2. resets' \in 0..MaxResets
    BY OpticalDriveAssumption DEF Reset, DriveReset, IInv, SharedOK, DriveTypeOK
  <2>3. bee \in BOOLEAN
    BY DEF IInv, SharedOK, DriveTypeOK
  <2>4. {bee', attention'} \subseteq BOOLEAN
    BY <2>1, <2>3
  <2>5. raw' \in (IF kind' = "libre" THEN BOOLEAN ELSE {FALSE})
    BY <2>1, Zenon
  <2>6. kind' \in Kinds
    BY <2>1 DEF IInv, SharedOK, DriveTypeOK
  <2>7. scraped' \in 0..UnlockTable /\ scraped' # UnlockTable
    BY <2>1, OpticalDriveAssumption
  <2>. QED  BY <2>2, <2>4, <2>5, <2>6, <2>7, Zenon DEF DriveTypeOK
<1>2. /\ agids' = [a \in Agids |-> "free"]
      /\ mounted' \in {FALSE, mounted}
      /\ cached' = IF mounted' THEN cached ELSE [k \in 1..NumUnits |-> "no"]
      /\ promised' = FALSE
      /\ kept' = FALSE
      /\ revoked' = revoked
      /\ run' = [p \in Procs |-> [run[p] EXCEPT !.calm = (run[p].pc = "idle")]]
  BY DEF Reset, At
<1>3. mounted' \in BOOLEAN
  BY <1>2 DEF IInv, SharedOK
<1>4. SharedOK'
  BY <1>1, <1>2, <1>3 DEF IInv, SharedOK
<1>5. ASSUME NEW p \in Procs
      PROVE  run'[p] \in Programs /\ ProgramOK(run[p])'
  <2>1. PICK calm : calm = (run[p].pc = "idle")
    OBVIOUS
  <2>2. calm \in BOOLEAN /\ (calm => run[p].pc = "idle")
    BY <2>1
  <2>3. run'[p] = [run[p] EXCEPT !.calm = calm]
    BY <1>2, <2>1
  <2>4. ProgramOK(run[p]) /\ run[p] \in Programs
    BY DEF IInv, ProgramOK
  <2>5. PICK r : r = [run[p] EXCEPT !.calm = calm]
    OBVIOUS
  <2>6. /\ r \in Programs
        /\ r.command = run[p].command
        /\ r.pc = run[p].pc
        /\ r.agid = run[p].agid
        /\ r.libredrive = run[p].libredrive
        /\ r.file = run[p].file
        /\ r.exit = run[p].exit
        /\ r.calm = calm
    BY <2>2, <2>4, <2>5 DEF Programs
  <2>7. r.calm => r.pc = "idle" /\ r.exit = "running" /\ r.file = << >>
    BY <2>2, <2>4, <2>6 DEF ProgramOK
  <2>8. ReplayOK(r)'
    BY <1>1, <2>1, <2>4, <2>6, <2>7
    DEF ProgramOK, ReplayOK, Reset, DriveReset
  <2>9. DecryptOK(r)'
    BY <2>4, <2>6, <2>7 DEF ProgramOK, DecryptOK
  <2>10. UnlockOK(r)' /\ ProbeOK(r)'
    BY <2>4, <2>6, <2>7 DEF ProgramOK, UnlockOK, ProbeOK
  <2>11. ProgramOK(r)'
    BY <2>4, <2>6, <2>8, <2>9, <2>10 DEF ProgramOK
  <2>. QED  BY <2>3, <2>5, <2>6, <2>11
<1>6. run' \in [Procs -> Programs]
  BY <1>2, <1>5
<1>. QED  BY <1>4, <1>5, <1>6 DEF IInv

-----------------------------------------------------------------------------
LEMMA NextIInv == IInv /\ [Next]_vars => IInv'
<1>. SUFFICES ASSUME IInv, [Next]_vars PROVE IInv'
  OBVIOUS
<1>1. ASSUME NEW p \in Procs, StartOnDrive(p) \/ StartDecrypt(p)
      PROVE  IInv'
  BY <1>1, StartIInv
<1>2. ASSUME NEW p \in Procs, Step(p)
      PROVE  IInv'
  <2>1. CASE Answered(p)   BY <2>1, AnsweredIInv
  <2>2. CASE Unlocked(p)   BY <2>2, UnlockedIInv
  <2>3. CASE Replayed(p)   BY <2>3, ReplayedIInv
  <2>4. CASE Failed(p)     BY <2>4, FailedIInv
  <2>5. CASE Refused(p)    BY <2>5, RefusedIInv
  <2>6. CASE AgidGiven(p)  BY <2>6, AgidGivenIInv
  <2>7. CASE CertSent(p)   BY <2>7, CertSentIInv
  <2>8. CASE CertRead(p) \/ PullEnd(p) \/ PullError(p)
    BY <2>8, ReadIInv
  <2>9. CASE Pull(p)       BY <2>9, PullIInv
  <2>10. CASE Leave(p)     BY <2>10, LeaveIInv
  <2>11. CASE VidRead(p)   BY <2>11, VidReadIInv
  <2>12. CASE AgidCutShort(p)
    BY <2>12, AgidCutShortIInv
  <2>. QED
    BY <1>2, <2>1, <2>2, <2>3, <2>4, <2>5, <2>6, <2>7, <2>8, <2>9, <2>10, <2>11,
       <2>12 DEF Step
<1>3. CASE Mount \/ Unmount \/ Evict
  BY <1>3, FileSystemIInv
<1>4. CASE Reset
  BY <1>4, ResetIInv
<1>5. CASE UNCHANGED vars
  <2>1. SharedOK' /\ Lasting
    BY <1>5, DriveSteps DEF vars
  <2>2. scraped' = scraped /\ run' = run
    BY <1>5 DEF vars, driveVars
  <2>. QED  BY <2>1, <2>2, NoProgram
<1>. QED  BY <1>1, <1>2, <1>3, <1>4, <1>5 DEF Next

(* The invariant is inductive.                                              *)
THEOREM Inductive == Spec => []IInv
<1>. QED  BY InitIInv, NextIInv, PTL DEF Spec

(* Every state of the session is well-formed, and no certificate is sent    *)
(* without an AGID (partial_ake_probe, lib.rs:227).                         *)
THEOREM TypeCorrect == Spec => []TypeOK
<1>1. IInv => TypeOK
  <2>. SUFFICES ASSUME IInv PROVE TypeOK
    OBVIOUS
  <2>1. \A p \in Procs :
          /\ run[p].pc \in {"send", "cert"} => run[p].agid \in Agids
          /\ Len(run[p].file) <= NumUnits
    BY DEF IInv, ProgramOK, ProbeOK
  <2>2. {revoked, mounted, promised, kept} \subseteq BOOLEAN
    BY DEF IInv, SharedOK
  <2>. QED  BY <2>1, <2>2, Zenon DEF IInv, SharedOK, TypeOK
<1>. QED  BY <1>1, Inductive, PTL

(* `freeblue unlock` says "drive now returns raw sectors" (main.rs:71) only *)
(* of a drive that does, unless it was reset, or cold and sent another      *)
(* replay's commands, while the unlock ran.                                 *)
THEOREM UnlockSaysRaw == Spec => []UnlockedIsRaw
<1>1. IInv => UnlockedIsRaw
  BY DEF IInv, ProgramOK, UnlockOK, UnlockedIsRaw
<1>. QED  BY <1>1, Inductive, PTL

(* The documented session (main.rs:71 and 72) reads raw units only: unlock, *)
(* then mount, then decrypt, with no reset since the unlock began.          *)
THEOREM SessionReadsRaw == Spec => []RawSession
<1>1. IInv => RawSession
  <2>. SUFFICES ASSUME IInv, NEW p \in Procs,
                       run[p].command = "decrypt", run[p].calm,
                       NEW k \in DOMAIN run[p].file
                PROVE  run[p].file[k] = "raw"
    BY DEF RawSession
  <2>1. ProgramOK(run[p]) /\ run[p].file \in Seq({"raw", "bus"})
    BY DEF IInv, ProgramOK, Programs
  <2>2. k \in 1..Len(run[p].file)
    BY <2>1
  <2>. QED  BY <2>1, <2>2 DEF ProgramOK, DecryptOK
<1>. QED  BY <1>1, Inductive, PTL

(* A probe's verdict on the host certificate (lib.rs:195) is the drive's,   *)
(* however many probes share its AGIDs.                                     *)
THEOREM VerdictIsTheDrives == Spec => []ProbeVerdict
<1>1. IInv => ProbeVerdict
  BY DEF IInv, ProgramOK, ProbeOK, ProbeVerdict
<1>. QED  BY <1>1, Inductive, PTL
=============================================================================
