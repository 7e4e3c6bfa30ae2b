# TLA+ models and proofs of freeblue

freeblue turns the AACS-encrypted clips of a Blu-ray disc into plaintext M2TS.
This directory holds TLA+ models of its read, decrypt and write path, the TLC
configurations that check them on small instances, and TLAPS proofs of the
results that hold for every instance. Line numbers are those of
`crates/<crate>/src/...` in this repository.

Run, in this directory:

    tlc -config MCRawUnitIter.cfg MCRawUnitIter
    tlapm RawUnitIterProofs.tla

## 1. The system

Data flows one way. A *reader* produces Aligned Units (6144 bytes, 3 sectors)
that still carry the content encryption; `decrypt_clip` maps the content cipher
over them; `write_clip` writes them to a file. The program is one thread. The
parties that act on their own are the optical drive, whoever resets it or ejects
its disc, other programs that talk to it, and the operating system that decides
how much a `read()` or an SG_IO transfer returns.

| component | source | state | operations |
|---|---|---|---|
| drive-side reader | `freeblue-read/libredrive.rs` `RawUnitIter` | `next_lba`, `units_left`, `batch`, `batch_pos` | `new`, `next` (which calls `refill`) |
| LibreDrive unlock | `libredrive.rs` `unlock`, `libredrive_unlock.rs` | place in the table, signature seen; the drive's mode | replay of 521 READ BUFFER commands |
| SG_IO transport | `freeblue-read/scsi.rs` `ScsiDev` | the device handle | `open`, `read_buffer`, `read10`, READ DISC STRUCTURE, REPORT KEY, SEND KEY |
| file-side reader | `freeblue-read/lib.rs` `PlainUdfReader`, `FileUnitIter` | file offset, bytes of the unit gathered | `read_units`, `next` |
| commands | `freeblue-cli/main.rs`, `freeblue-core` `decrypt_clip` | output file, count, reader | `unlock`, `decrypt`, `decrypt-disc`, `write_clip` |
| content and bus cipher | `freeblue-content`, `freeblue-crypto` | loop position, CBC chain, output buffer | `decrypt_aligned_unit`, `bus_decrypt_unit` |
| media key block | `freeblue-mkb` | record list | `parse`, `verify_media_key`, `derive_media_key` |
| key database | `freeblue-keys` | keys by disc id, global keys | `KeyDb::parse`, `disc` |
| external Volume IDs | `freeblue-keys/external_vid.rs` | none | `disc_id`, `parse_discatt`, `read_vid_cache` |
| disc folder, key resolution | `freeblue-disc`, `freeblue-core` | none | `Disc::open`, `encrypted_unit_key`, `resolve_unit_key` |
| drive authentication probe | `freeblue-read/lib.rs` `partial_ake_probe`, `read_volume_id` | AGIDs in the drive | allocate, send certificate, read |

What is hard here, and where a unit test hardly reaches:

* *Partial results.* SG_IO reports a residual (`scsi.rs:105`); `read()` returns
  any part of what it was asked for; a write may fail in the middle of a unit.
* *Retries.* Rust iterators may be called again after an error or a `None`, and
  both readers keep state across such calls.
* *Stale state.* The drive's raw mode is established by one replay and trusted
  for the whole clip. A reset in between makes the drive cold, so that it
  encrypts what it sends. The only sign is a UNIT ATTENTION, delivered once, to
  whoever sends the next command.
* *Shared state outside the program.* The raw mode, the AGIDs and the page cache
  outlive the command that made them, and other commands meet them. The folder of
  a disc and the cache of libaacs may change between two reads, or while one is
  under way.
* *Order.* The output file is created before the input is opened or the drive
  unlocked. The bus layer is stripped in place while its chain needs the
  ciphertext that is being overwritten.
* *Numbers.* u64 values from the command line become u32; batches are cut at the
  end of the extent; lengths in an MKB come from the disc.

What makes each component correct:

* a reader hands out the units of its clip in order, each once, errors lose
  nothing, and the end is reported only after the last unit (`UnitStream`);
* a command's output is a beginning of its clip, and success means all of it
  (`ClipOutput`); it ends; nothing bus-encrypted gets into the file;
* unlocking ends with a raw drive or an error, never with a drive that is read
  without being raw;
* decryption inverts the two encryption layers, and no loop leaves its buffer;
* a parser never reads outside its input, whatever lengths the input claims; a
  media key that is found verifies, and a look-up gives what the last entry of
  the disc says, if that is well-formed;
* the unit key resolved is the key of the CPS unit asked for, unless something
  outside the code is wrong;
* what `unlock` and the probe report of the drive is so, and a clip read after an
  unlock is never bus-encrypted.

## 2. The modules

| module | models | reads |
|---|---|---|
| `UnitStream` | abstract: what a `UnitReader` promises | |
| `ClipOutput` | abstract: what a command promises | |
| `RawUnitIter` | the drive-side reader | |
| `FileUnitIter` | the file-side reader | |
| `WriteClip` | `write_clip` with `decrypt_clip`, over any reader | |
| `OpticalDrive` | external: the drive's raw mode, resets and UNIT ATTENTION | |
| `DecryptDisc` | `decrypt-disc`: unlock, reader, drive, `write_clip` | `OpticalDrive`, `RawUnitIter`, `WriteClip`, `ClipOutput` |
| `DecryptFile` | `decrypt`: reader, input and output file, `write_clip` | `FileUnitIter`, `WriteClip`, `UnitStream`, `ClipOutput` |
| `DriveSession` | `unlock`, `decrypt` from a mounted disc, `read_volume_id` and `partial_ake_probe` on one drive | `OpticalDrive` |
| `AlignedUnit` | the two decryption loops over an abstract block cipher | |
| `Mkb` | the media key block: `parse` and `derive_media_key` | |
| `KeyDb` | the load of a `KEYDB.cfg` | |
| `UnitKeys` | from a loaded key database and a disc to the key of a CPS unit | `KeyDb` |
| `MC...` | small instances for TLC | |
| `RawUnitIterProofs`, `FileUnitIterProofs`, `AlignedUnitProofs`, `MkbProofs`, `DriveSessionProofs`, `DecryptFileProofs` | theorems | the module of the name |
| `DecryptDiscProofs` | theorems about the command | `DecryptDisc`, `RawUnitIterProofs` |
| `UnitKeysProofs` | theorems about the load and the resolution | `UnitKeys` |

A definition named as the mutated form of another (`NextErrorRewinds`,
`WriteFailsIgnored`, ...) is not part of the model: it is a plausible bug,
against which the properties are tried.

### RawUnitIter

One action is one call of `next()`, because at most one READ(10) happens in it
and nothing else can see the iterator in between. The five actions are the five
ways through the code: exhausted, served from the batch, refilled, refilled
with less than a unit (`Ok(false)`, hence `None`), failed. Lengths are in
sectors: the code uses the length of a batch only to see how many whole units
it holds. Contents are named by their LBA, so `out`, the history of the units
handed out, is a sequence of LBAs. `as u32` is `% U32`, and `Transfers` is what
`from_dev` may return: the request less a residual, within the medium. What a
drive may leave untransferred (`residuals`) is a property of the drive and chosen
at the start. `FullTransfers` says that it is nothing and that the extent fits a
u32. The promise of `UnitStream` is kept under it only, so the refinement shows
`UnitStream` the reader of such a drive, and of any other a reader that was never
asked.

The assumption `MediumEnd + 3 * BatchUnits <= U32` says that the medium ends
well before sector 2^32. With it `next_lba += ...` (`libredrive.rs:79`) cannot
overflow, which the code relies on: it would panic in a debug build and wrap in
a release build.

### FileUnitIter

One action is one `read()`. `read()` is sequential, so the bytes in the buffer
are the `filled` ones before `pos`, and a unit is named by its first offset.
`EINTR` is an action of its own. The consumer may call again after anything.

### WriteClip, DecryptDisc, DecryptFile

`WriteClip` is the consumer, with a phase for each point where it can stop:
create, read_units, pull, write, exit. It is a component: its actions are
conjoined with those of a reader, so that a step of `for unit in units` is the
reader's `next()` and the consumer's reaction in one action (`DecryptDisc`), or
several `read()`s and then the reaction (`DecryptFile`).

`DecryptDisc` adds the device and the replay of the unlock table one command at a
time, on an `OpticalDrive`. The drive is external, and modelled from what the
code and `specs/11` rely on:

* a LibreDrive drive answers the first command with the signature; a cold one is
  raw once it has answered the whole sequence in order, and stays so whatever it
  is sent, until it is reset;
* of a sequence that another replay's commands were mixed into, on a cold drive,
  nothing is known (spec 11 section 11.4.7 describes one replay at a time): a
  command out of its turn is no progress, and may or may not undo what there was;
* a drive that is not raw encrypts the content of a BEE disc over the bus;
* a reset makes it cold, and the next command from anyone fails with UNIT
  ATTENTION;
* a drive without the firmware either rejects READ BUFFER or answers it without
  the signature.

(The last one is in `DecryptDisc`, since it is about the answers a program gets.
So is that an answer to the first command may be cut short, by a residual, before
the signature.)

`batch_bus` records whether the batch was bus-encrypted when it was read. No
code sees it; it is there for the property.

`DecryptFile` adds what the two files have to do with each other: `-o` may name
the input, which `File::create` then empties. The promise checked is that of the
units that are there to read after that.

### DriveSession

Programs run one after another and at the same time, each by one record: its
command, where it is, what it has in its locals. An action is one SCSI command,
or one unit read through the file system. `Start` opens the device, `Leave`
closes it (`Drop`), and nothing is told to the drive then, so that what a
program leaves behind is in `raw`, `scraped` and `agids`. All programs share
`Failed` (a UNIT ATTENTION, a timeout, a transport error: one kind of error to
this code), `Refused` (what the drive says no to) and the table `Failure`, which
says what each makes of it: unlock and `read_volume_id` return the error, the
probe writes a line into its log. READ DISC STRUCTURE 0x80 is refused by a cold
drive. Whether a raw one answers it is open (`freeblue-read/lib.rs:179-181`), so
it may (`VidRead`), with the whole of a Volume ID or with too few bytes. Where the
code looks at the length of an answer, the answer may be short: the handshake
(`Answered`) and REPORT KEY, after which the drive has given out an AGID that
nobody knows (`AgidCutShort`).

Mount, unmount, the page cache and resets are external. A mounted file system
keeps any of the sectors it has read, also over an unlock, and may take the UNIT
ATTENTION. Some state is history, which no code sees. `mixed`: a cold drive got
commands of another replay between those of this unlock. `calm`: no reset while
the program ran, no failure but a refusal of the drive's, no mixing. `promised`
and `kept`: a calm `unlock` said the drive is raw, and the disc was mounted after
that, with no reset since the unlock began.

### UnitKeys

`UnitKeys` extends `KeyDb`: the file is loaded first, then a caller looks for a
key. The repository has the functions and not yet the caller, so the caller is
external and follows the pipeline of `freeblue-core/lib.rs`: the unit key file,
its disc id, the entry of the disc, then what the entry lacks, from the disc's MKB
and from a Volume ID of the cache or of a `discatt.dat`, and `resolve_unit_key`.

A read of the disc or of the cache chooses what it finds: any disc, any part of
a file. That stands for a disc that was changed, a dump or a cache file that is
still being written. Ciphers are symbolic: `Junk` is what comes out of AES with
the wrong key, SHA-1 of a part of a unit key file is nobody's id. A unit key has
two halves, so that a file can end inside one.

### AlignedUnit

The unit of measure is the AES block. AES and the exclusive or are constants of
which only invertibility is assumed. `Cases` are units with their history: the
plaintext, what is on the disc (`ContentLayer`) and what a drive sends
(`BusLayer`, translated from the tests' `bus_encrypt_unit`). One action is one
turn of a loop. A unit starts as sent (both layers) or as on disc (one), or it
is not a whole unit.

### Mkb

A file is its record heads at their offsets, each with what its body holds when
it is taken for a subset list, for key data or for verification data; the rest
is zeros. `off` moves by the length a head claims, and the model keeps every
test of the code on it: room for a head, the end mark or length 0, past the end,
shorter than a head. The records are kept as the slices they are, `from..to`, and
the searches test the lengths of the slices as the code does. The assumption
relates a head's contents to its length: a list has an entry for every whole
entry that fits. AES and the exclusive or into the last four bytes are constants
of which nothing is assumed.

### KeyDb

A line is a record with what the loader tells apart, a word is known by the bytes
it decodes to, if any (`hex_vec`) and if they are 16 (`hex_block`). An entry is
gone through pair by pair, as the code does, since what it ends up with depends
on order: a valid value replaces an earlier one, a bad one does not, unit keys
accumulate and a bad one is left out. The words of a `U` pair are taken one by
one, with `uk` for the word at hand, as the inner loop does. PK, DK and HC lines
are one action each.
`DiscsLoaded` tells what an entry says in another way, as a definition over all
its segments. It speaks of entries that are well-formed. What the documentation
says of the others, that their unit keys keep their places and that bad hex is an
error, are properties of their own, which the code does not have (section 4).
`HostPairIsOneRecords` likewise is about HC lines of the documented form, in
whatever order their two fields stand and however many lines there are.

## 3. The runs

| run | configuration | shows |
|---|---|---|
| `reader` | `MCRawUnitIter` | on any drive, with retries and numbers a u32 does not hold: in bounds, aligned to the clip, in disc order, nothing twice; on a drive that transfers in full or fails, it implements `UnitStream` and reads nothing outside the extent |
| `reader_extent` | `MCRawUnitIter_extent` | finding 1 |
| `file_reader` | `MCFileUnitIter` | no byte twice or out of order, the buffer not overfilled, every call returns |
| `disc` | `MCDecryptDisc` | on any drive, reset at any moment, its own or shared: file and reader agree, a drive without the signature is never read, alone nothing bus-encrypted is written, with full transfers `ClipOutput` is implemented, only a transfer of less than a unit makes a success of less than the clip, and the run ends |
| `disc_shared` | `MCDecryptDisc_shared` | finding 2 |
| `decrypt_copy` | `MCDecryptFile` | between two files or onto the input: the reader implements `UnitStream`, the command `ClipOutput`, and it ends |
| `drive_session` | `MCDriveSession` | two programs at a time: an unlock that says so leaves a raw drive, a clip mounted after it is raw, the probe's verdict is the drive's |
| `session_cold` | `MCDriveSession_cold` | finding 3 |
| `aligned_unit` | `MCAlignedUnit` | both loops stay in the unit, the in-place pass is right at every block, and the plaintext comes back |
| `mkb` | `MCMkb` | records stay inside the file and tile it, the key derived is the first that verifies, both functions return |
| `unit_keys` | `MCUnitKeys` | what is looked up is what the last entry says, if it is well-formed, only whole keys are kept, host key and certificate are of one line, the load returns; a wrong unit key has one of four causes, and half a cache entry is never one |
| `keydb_hex` | `MCUnitKeys_hex` | finding 4 |

Bounds, and why they suffice:

* *U32 = 64, BatchUnits = 2, medium of 20 or 40 sectors.* The code compares
  `units_left` with the batch and cuts both to 32 bits. 64 values hold the
  medium with room for a batch, as 2^32 do. Extents start at 0, at an odd place,
  near the end and past it; counts run over no unit, less than a batch, whole
  batches and whole batches plus one, and `U32` plus a few.
* *Residuals* 0 to 6 sectors of a request of 6: no transfer, part of a unit, a
  unit, a unit and a part, and everything.
* *Units of 4 (or 3) bytes* take one to four reads; files of every length up to
  three units and a part.
* *Unlock table of 3*: the handshake, a command in the middle, the last one.
  The code treats the first specially and no other.
* *MaxResets = 2*: a reset before and one after, or during, the unlock. More
  resets repeat the same cold state.
* *Sectors of 3 blocks* have a head, a first chained block and one after it.
  Blocks of 2 bits, 16 plaintexts under 2 unit keys and 2 bus keys.
* *Media key blocks of two to four records*: the three that the derivation needs
  in two orders, and a further one before, which may hide one of them, or after.
  Subset lists with and without an end mark and with a cut-off entry, key data
  longer and shorter than the list, empty, cut off; verification records of both
  versions, one too short; each file a byte short, whole, and followed by zeros;
  0 to 3 processing keys.
* *Key databases of up to two lines* from 20, and of three for one disc or of
  three HC records: an entry and two that come after it is what "last wins" can
  tell apart. The lines hold true, false and incomplete entries of two discs.
* *Two discs*, of two CPS units and of one, indices up to one past the last, unit
  key files cut at every half key; a Volume ID of 4 digits, so that a cache file
  has an odd, an even but short, and the whole number of them; a `discatt.dat` of
  4 parts, of which the trailer is 2.
* *Two programs at a time*, each starting again and again, two AGIDs (a drive has
  four: enough is that they run out), a table of 2 commands, a clip of 2 units,
  one reset. Programs are symmetric. No property of `DriveSession` relates three
  programs; those that come later see the state the earlier ones left.
  `session_cold` needs one program and a clip of one unit.

Deadlock is checked for the two readers, which can always be called again, and
for `drive_session`, where a program can always be started. The
commands, the decryption of one unit and the parsers end, and their runs say so.

Fairness. `file_reader`: a `read()` that could return something is not
interrupted for ever, which the kernel gives (`EINTR` needs a signal each time).
`disc` and `decrypt_copy`: the one thread of the program goes on; a SCSI
command is answered or fails within the 30 s of `scsi.rs:81`. `mkb` and `unit_keys`:
a function that can take a step takes it. Nothing is assumed of resets or of
other programs, and no command is assumed to succeed.

## 4. Where the code and its documentation disagree

1. `libredrive.rs:79`. After a short transfer `next_lba` moves by what was asked
   for. The sectors between are skipped, and the count is made up with units
   beyond the extent.
2. `libredrive.rs:74`. The drive's mode is not looked at after the unlock. If
   another program (a desktop's media poll, a mounted file system) takes the
   UNIT ATTENTION of a reset, bus-encrypted sectors are decrypted into noise and
   the run succeeds. `disc` shows that this is the only way: without another
   program the attention reaches freeblue and the run fails.
3. `freeblue-read/lib.rs:94`. `PlainUdfReader` opens any file and never returns
   `BusEncrypted`. `decrypt` of a clip on a BEE disc in a cold drive takes
   bus-encrypted units for content and succeeds, where spec 11 section 11.2 wants
   an error. `drive_session` shows that the documented order, unlock and then
   mount, does not get there.
4. `freeblue-keys/lib.rs:183`, and 152-164, 197-200, 219-220. Bad hex in a
   recognized field is passed over, and in an HC line erases what an earlier line
   gave, although line 113 says it is an error. A unit key with bad hex is left out
   of its entry (line 159), and those after it move up to the indices of other
   units, although line 34 says "in unit order": the number before the dash is not
   looked at. Such a gap is one of the causes that `WrongKeyHasACause` names.

Seen while modelling, without a run of their own: a transfer of less than a unit is
taken for the end of the medium, wherever it happens, so that `decrypt-disc`
succeeds with fewer than the M units that `README.md:144` says it reads
(`libredrive.rs:76`; `SuccessUnlessCutShort` says that nothing else does that);
the probe logs REJECTED for whatever makes SEND KEY fail, a reset or a timeout
too, with the error after it (`freeblue-read/lib.rs:243`), so that its verdict holds
of probes in which nothing else failed, which is what `ProbeVerdict` says;
`decrypt x -o x` empties `x` and
reports success (`main.rs:126`); the log of the probe says "ACCEPTED post-unlock"
on a drive that did not unlock (`lib.rs:234`); AGIDs are never given back
(`lib.rs:208`); a `discatt.dat` that lost its end gives 16 other bytes
(`external_vid.rs:77`); a CPS index past the last unit gives a key made of what
stands there (`freeblue-disc/lib.rs:124`); a verification record of version 1 that
is too short hides one of version 2 (`freeblue-mkb/lib.rs:79`); a start LBA beyond
2^32 is cut by `as u32` (`libredrive.rs:61`); a drive that rejects READ BUFFER is
reported as an I/O error and not as `NotLibreDrive` (`libredrive.rs:34`), and a
LibreDrive one whose handshake was cut short as `NotLibreDrive`
(`libredrive.rs:38`); after an error inside a unit `FileUnitIter` goes on out of
phase (`lib.rs:113`): `write_clip` stops at the error, and one that went on would
break `StreamSpec`.

## 5. The proofs

`RawUnitIterProofs`, for every `U32`, batch size, medium, set of extents and of
drives that satisfies `RawUnitIterAssumption`:

* `TypeCorrect`: `Spec => []TypeOK`. `batch_pos <= batch.len` is inductive with
  the other conjuncts, since a unit is taken only from a position that leaves
  room for it.
* `UnitsAligned`: `Spec => []ClipAligned`, and `UnitsInDiscOrder`:
  `Spec => []InDiscOrder`. Neither is inductive. The invariant adds where the
  batch and `next_lba` stand: the batch starts, and `next_lba` is, a whole
  number of units after the start; `batch_pos` is a whole number of units; the
  batch ends at or before `next_lba` once it holds a unit; and the last unit
  handed out ends at or before the batch position. Since a transfer may be
  short, the batch may end well before `next_lba`, and the order still holds.
* `FullTransfersStream`: `Spec => StreamSpec`. Under `FullTransfers` (a READ(10)
  transfers all or fails, and a u32 holds the start and the count of the extent)
  the invariant says that `units_left` and `Len(out)` add
  up to the count, and that the position in the batch, or `next_lba` when the
  batch is used up, is the address of the next unit.
* `ReadsStayInExtent`: `Spec => []ReadsWithinExtent`, and `OnlyUnitsOfTheExtent`:
  `Spec => [](FullTransfers => OnlyUnitsOfExtent)`. Run `reader_extent` shows that
  without `FullTransfers` the units may lie outside.

`FileUnitIterProofs`, for every unit length and set of file sizes that satisfies
`FileUnitIterAssumption`:

* `TypeCorrect`: `Spec => []TypeOK`, and `UnitsInFileOrder`:
  `Spec => []InFileOrder`. The order needs to know where the last unit ends: at
  or before the unit that is being gathered, or, between two calls, at or before
  the file's offset. An error in the middle of a unit drops what was gathered,
  and the next unit then starts further on, never further back.

`DecryptFileProofs`, for every unit length and set of file lengths that satisfies
`DecryptFileAssumption`, two files or one:

* `TypeCorrect`: `Spec => []TypeOK`.
* `ReaderKeepsPromise`: `Spec => StreamSpec`, and `CommandKeepsPromise`:
  `Spec => OutputSpec`. The invariant has four parts: the offset stands after the
  units handed out and what was gathered of the next (`Gathered`); nothing is read
  before the output is created, and the input keeps its length after that
  (`InputStays`); every unit is the next of the file (`OutIsPrefix`); what was
  handed out is in the file or about to be written (`WriterHolds`). The lemmas
  before them are about division: that a unit fits where the next one starts, and
  that none does when less than a unit is left.

`DecryptDiscProofs`, for every table, drive, extent and number of resets that
satisfies `DecryptDiscAssumption`:

* `RunOfReader`: the reader inside the command takes steps of `RawUnitIter` only,
  so `RawUnitIterProofs` is instantiated and its theorems are used, not repeated.
* `TypeCorrect`: `Spec => []TypeOK`, `FileIsWhatWasRead`:
  `Spec => []FileMatchesReader`, and `PlainDriveStaysUnread`:
  `Spec => []PlainDriveIsNotRead`.
* `NeverBusWhenAlone`: `Spec => []AloneNeverBusEncrypted`. The invariant relates
  the replay to the drive (`DriveFollows`): as long as no reset is to be reported,
  the drive is raw or has counted the commands it was sent; a reset is reported as
  UNIT ATTENTION, which fails the next command before it reads.
* `OnlyCutShort`: `Spec => []SuccessUnlessCutShort`. The units handed out and those
  still owed add up to the request, on every drive (`Counted`), and a run that has
  succeeded either owes none or has less than a unit in its last batch
  (`EndedRight`).
* `CommandKeepsPromise`: `Spec => OutputSpec`, whatever resets and other programs
  do. It uses what the reader has proved of itself under `FullTransfers`; of other
  drives `ClipOutput` is shown nothing, as in `RawUnitIter`.

`AlignedUnitProofs`, for every block set, cipher, exclusive or and sector size
that satisfies `CipherAssumption`:

* `TypeCorrect`, `StrippedInPlace` and `RoundTrip`: `[]TypeOK`,
  `[]StrippedUpToHere` and `[]Recovered`. The invariant says, for each loop,
  which blocks are done and that `prev` is the ciphertext block before the one
  at hand, or the IV at the head of a chain; one lemma per layer undoes one
  block.

`MkbProofs`, for every file, cipher and list of keys that satisfies
`MkbAssumption`:

* `TypeCorrect`: `Spec => []TypeOK`. The invariant adds that each record kept is
  a head of the file with what follows it, or empty, which is what makes a body's
  length bound the entries in it; and that nothing is searched before the three
  records are known to be there.
* `RecordsCover`: `Spec => []RecordsTile`.
* `FirstMatch`: `Spec => []DerivesFirst`. The invariant says that no subset
  counted has an end mark, that after the count the next one has one or does not
  fit, and that no pair before the one at hand works. `NoneFromHere` shows that
  where the inner loop ends, for any of its three reasons, no later subset is
  usable, so that going on to the next key loses nothing.

`DriveSessionProofs`, for any number of programs, AGIDs, units, commands of the
table and resets that satisfies `OpticalDriveAssumption` and
`DriveSessionAssumption`:

* `TypeCorrect`: `Spec => []TypeOK`.
* `UnlockSaysRaw`: `Spec => []UnlockedIsRaw`. While an unlock runs that met no
  reset and into which no other replay was mixed, the drive is raw or has counted
  just the commands this unlock has answers to (`ReplayOK`), so that after the last
  one it has counted them all. A replay on a raw drive changes nothing, and what an
  earlier one left in a cold drive is forgotten with the first command of the next.
* `SessionReadsRaw`: `Spec => []RawSession`. The invariant says that a promise
  still standing means a raw drive, and that the file system of a disc mounted
  under it holds no bus-encrypted sector (`SharedOK`).
* `VerdictIsTheDrives`: `Spec => []ProbeVerdict`. An AGID stays its probe's until
  a reset (`ProbeOK`).

  `Lasting` is what every step but a reset leaves to the other programs, and
  `Undisturbed` what a command of a replay leaves to another replay, unless that
  is marked as mixed. A step of one program is proved for that program alone, and
  `ProgramLasts` carries the invariant of the others over it; a reset, which breaks
  `Lasting`, ends `calm` for every program that runs.

`UnitKeysProofs`, for every file, set of discs and lengths that satisfies
`KeyDbAssumption` and `UnitKeysAssumption`:

* `KeysAreBlocks`, `DiscsAreTheirLastLines` and `HostPairTogether`: `Spec =>
  []TypeOK`, `[]DiscsLoaded` and `[]HostPairIsOneRecords`, where `Spec` is `KeyDb`'s.
  `DiscsLoaded` says nothing of an entry that is half read. The invariant adds
  `Walk`: each of the three keys is the last value before the pair at hand, and
  the unit keys are the words of the places before the word at hand, in order.
  `Ranked` ties a place to its number, `UpTo`, both ways: each place has a key and
  each key a place. No induction over the entry is needed, since the places
  before a word grow by one place, or none, as the word is passed
  (`PlacesNextWord`), and that they are finitely many is part of the invariant.
* `ResolveLoads`: `ResolveSpec => Spec`, so that these hold in `UnitKeys` too.
* `OkHasAKey` and `CacheGivesWholeVid`: `ResolveSpec => []ResolveTypeOK` and
  `[]CachedVidIsWhole`. `Known` says what is not known yet at a step of the
  caller: in particular no Volume ID before the unit key file was read, so that
  one from the cache belongs to that file's disc.
* `WrongKeysHaveCauses`: `ResolveSpec => []WrongKeyHasACause`. If no cause is
  there, then a key that is listed comes from a place of the last entry, by
  `Ranked`, and stands at its own number (`KeydbKeyHasACause`); and a volume
  unique key is the disc's own, whichever of four ways it came (`KvuHasACause`),
  because a Volume ID belongs to one disc. The theorem assumes of discs that their
  ids, Volume IDs and volume unique keys differ, and nothing of their media keys.

Only model-checked: termination of the parsers, of the decryption and of the
commands, and that calls return (`Terminates` and the like). Liveness under
fairness is not provable with these tools. Every other property of a passing
run is stated by a theorem.

## 6. Not modelled

* CDB layout, `SgIoHdr`, the ioctl: pure I/O. What `from_dev` returns is.
* Argument parsing, messages, the TS-sync score: no state depends on them.
* `AacsAuthReader`, `Disc::volume_id`, `Disc::read_clip_units`: stubs.
* AES-G, AES-G3, SHA-1, `Mkb::version`: single expressions.
* Zeroizing of keys on drop: it has no effect that the program sees.
* The examples, which print what the functions return.

Six hazards in `PROJECT.json` have no property. The TS-sync score (`main.rs:133`)
is printed and decides nothing, and so is REJECTED (`freeblue-read/lib.rs:243`),
which the error follows. A start LBA that a u32 does not hold
(`libredrive.rs:61`) is read at another place; the check of `OutputSpec` is for the
others. Which of several records of one type in a media key block counts
(`freeblue-mkb/lib.rs:61`) no document says. That the disc was changed between two
reads (`freeblue-disc/lib.rs:83`) and that a `discatt.dat` lost its end
(`external_vid.rs:77`) nothing in the code could notice; `WrongKeyHasACause` names
both among the causes of a wrong key, and excludes others. A program that replays
the unlock while another one does (`libredrive.rs:33`) may leave the drive cold
behind an unlock that reported success: the model allows it, and no property says
anything of it, since the drive's behaviour is not known.

## 7. Plan

Every safety property of a passing run, and every refinement, is proved. What
is left is to say more:

1. `DecryptDisc` on a shared drive: what another program must do for a
   bus-encrypted unit to get into the output, as a property like
   `WrongKeyHasACause`, with its theorem. Finding 2 is one such run.
2. `RawUnitIter` with short transfers: that the units handed out before the first
   short transfer are a prefix of the extent's, without an assumption on the drive.
