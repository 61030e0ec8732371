--------------------------------- MODULE Nvm ---------------------------------
(***************************************************************************)
(* Saving the configuration to flash: MotorControl/nvm.c, and the order in *)
(* which nvm_config.hpp and ODrive::save_configuration call it.            *)
(*                                                                         *)
(* Two flash sectors are written in turn.  A sector is an array of fields  *)
(* with a state each, which programming can only lower (ERASED to INVALID  *)
(* to VALID) and only an erase of the sector raises.  Every field that is  *)
(* programmed is a step: the board may reset (or lose power) between any   *)
(* two, and a program or erase operation may fail.  Erasing a sector is    *)
(* one step.  One thread saves at a time.                                  *)
(*                                                                         *)
(* The content of a saved configuration is the number of its save; the     *)
(* data fields of a sector are counted from its n_reserved.                *)
(***************************************************************************)
EXTENDS Integers, FiniteSetsExt

CONSTANTS
    NData,          \* fields of a sector behind its allocation table
    Length,         \* fields of a configuration, with its CRC
    MaxSaves,       \* bound: save_configuration and erase_configuration calls
    MaxResets,      \* bound: resets
    MaxFailures     \* bound: flash operations that fail

ASSUME SizeAssumption == NData \in Nat /\ Length \in 1 .. NData
ASSUME BoundAssumption == MaxSaves \in Nat /\ MaxResets \in Nat /\ MaxFailures \in Nat

Sector == {0, 1}
Field == 0 .. NData - 1

\* field_state_t: the values of the two bits
VALID == 0
INVALID == 1
ERASED == 3

Blank == 0          \* a data field nothing was programmed to
Mixed == -1         \* a data field programmed with two different contents
Content == Mixed .. MaxSaves

VARIABLES
    alloc, data,            \* the flash: allocation table and data, per sector
    index, read_sector_, n_staging_area_, n_valid_,
    pc,                     \* where the thread that saves or erases is
    tag,                    \* the configuration it saves
    pos,                    \* the fields it has done
    saves, resets, failures,
    latest, previous,       \* history: what was committed last, and before
                            \* that (0: nothing)
    interrupted,            \* history: a commit did not retire the old block
    given_up                \* history: a save failed after its first write

flash == <<alloc, data>>
ram == <<index, read_sector_, n_staging_area_, n_valid_>>
bounds == <<saves, resets, failures>>
history == <<latest, previous, interrupted, given_up>>
vars == <<alloc, data, index, read_sector_, n_staging_area_, n_valid_, pc, tag, pos,
          saves, resets, failures, latest, previous, interrupted, given_up>>

PC == {"idle", "erase", "allocate", "write", "mark", "retire", "erase0", "erase1"}

Init ==
    /\ alloc = [s \in Sector |-> [i \in Field |-> ERASED]]
    /\ data = [s \in Sector |-> [i \in Field |-> Blank]]
    /\ index = [s \in Sector |-> 0]
    /\ read_sector_ = 0 /\ n_staging_area_ = 0 /\ n_valid_ = 0
    /\ pc = "idle" /\ tag = 0 /\ pos = 0
    /\ saves = 0 /\ resets = 0 /\ failures = 0
    /\ latest = 0 /\ previous = 0
    /\ interrupted = FALSE /\ given_up = FALSE

write_sector == 1 - read_sector_

-----------------------------------------------------------------------------
(* Reading.                                                                *)

\* scan_allocation_table from max down: the first index that is followed by
\* nothing but fields in state ref
Scan(states, max, ref) ==
    Min({i \in 0 .. max : \A j \in i .. max - 1 : states[j] = ref})

\* the state of the field below that
StateBelow(states, i, ref) == IF i = 0 THEN ref ELSE states[i - 1]

\* the fields NVM_read returns to safe_load_config
Block(d, ix, rs, nv) == [i \in 0 .. Length - 1 |-> d[rs][ix[rs] - nv + i]]

Whole(block, v) == \A i \in 0 .. Length - 1 : block[i] = v

\* What load_configuration gets: the CRC accepts the fields of one save, and
\* nothing else.
Loaded(d, ix, rs, nv) ==
    IF Length <= nv /\ \E v \in 1 .. MaxSaves : Whole(Block(d, ix, rs, nv), v)
    THEN Block(d, ix, rs, nv)[0]
    ELSE 0

Readable == Loaded(data, index, read_sector_, n_valid_)

NVM_init ==
    /\ index' = [s \in Sector |-> Scan(alloc'[s], NData, ERASED)]
    /\ read_sector_' = IF StateBelow(alloc'[1], index'[1], ERASED) = VALID THEN 1 ELSE 0
    /\ n_valid_' = LET end == index'[read_sector_']
                   IN  end - Scan(alloc'[read_sector_'], end, VALID)
    /\ n_staging_area_' = 0

-----------------------------------------------------------------------------
(* Programming.                                                            *)

\* bits only go from 1 to 0
Lower(state, to) == IF to < state THEN to ELSE state
Overwrite(content, by) == IF content \in {Blank, by} THEN by ELSE Mixed

\* the flash operation, and the index that erase sets when it succeeds
EraseFlash(s) ==
    /\ alloc' = [alloc EXCEPT ![s] = [i \in Field |-> ERASED]]
    /\ data' = [data EXCEPT ![s] = [i \in Field |-> Blank]]

Erase(s) == EraseFlash(s) /\ index' = [index EXCEPT ![s] = 0]

\* the range check at the head of set_allocation_state
InRange(i, count) == i + count < NData

\* one field of its loop over the block at the write sector's index
SetState(count, to) ==
    /\ pos < count
    /\ alloc' = [alloc EXCEPT ![write_sector][index[write_sector] + pos] = Lower(@, to)]
    /\ pos' = pos + 1

\* an operation that has returned to save_configuration
Done == pc' = "idle" /\ pos' = 0 /\ tag' = 0

FlashFails == failures < MaxFailures /\ failures' = failures + 1

-----------------------------------------------------------------------------
(* save_configuration: safe_store_config.                                  *)

\* the call of set_allocation_state in NVM_start_write
Allocate(i, save) ==
    IF InRange(i, Length)
    THEN pc' = "allocate" /\ tag' = save /\ pos' = 0
    ELSE Done

NVM_start_write ==
    /\ pc = "idle" /\ saves < MaxSaves
    /\ saves' = saves + 1
    /\ IF Length > NData - index[write_sector]
       THEN pc' = "erase" /\ tag' = saves' /\ UNCHANGED pos
       ELSE Allocate(index[write_sector], saves')
    /\ UNCHANGED <<flash, ram, resets, failures, history>>

EraseForRoom ==
    /\ pc = "erase"
    /\ Erase(write_sector)
    /\ Allocate(0, tag)
    /\ UNCHANGED <<read_sector_, n_staging_area_, n_valid_, bounds, history>>

Invalidate ==
    /\ pc = "allocate"
    /\ SetState(Length, INVALID)
    /\ UNCHANGED <<data, ram, pc, tag, bounds, history>>

Allocated ==
    /\ pc = "allocate" /\ pos = Length
    /\ n_staging_area_' = Length
    /\ pc' = "write" /\ pos' = 0
    /\ UNCHANGED <<flash, index, read_sector_, n_valid_, tag, bounds, history>>

\* mutant: the sectors are swapped
WriteReadSector ==
    /\ pc = "write" /\ pos < n_staging_area_
    /\ data' = [data EXCEPT ![read_sector_][index[write_sector] + pos] = Overwrite(@, tag)]
    /\ pos' = pos + 1
    /\ UNCHANGED <<alloc, ram, pc, tag, bounds, history>>

\* store_config, field by field, and the CRC that is the last one
NVM_write ==
    /\ pc = "write" /\ pos < n_staging_area_
    /\ data' = [data EXCEPT ![write_sector][index[write_sector] + pos] = Overwrite(@, tag)]
    /\ pos' = pos + 1
    /\ UNCHANGED <<alloc, ram, pc, tag, bounds, history>>

\* mutant: the commit does not wait for the last write
CommitEarly ==
    /\ pc = "write" /\ pos + 1 = Length
    /\ pc' = "mark" /\ pos' = 0
    /\ UNCHANGED <<flash, ram, tag, bounds, history>>

\* NVM_commit; the range was checked by NVM_start_write
NVM_commit ==
    /\ pc = "write" /\ pos = Length
    /\ pc' = "mark" /\ pos' = 0
    /\ UNCHANGED <<flash, ram, tag, bounds, history>>

MarkValid ==
    /\ pc = "mark"
    /\ SetState(n_staging_area_, VALID)
    /\ UNCHANGED <<data, ram, pc, tag, bounds, history>>

Flip ==
    /\ pc = "mark" /\ pos = n_staging_area_
    /\ index' = [index EXCEPT ![write_sector] = @ + n_staging_area_]
    /\ n_valid_' = n_staging_area_
    /\ n_staging_area_' = 0
    /\ read_sector_' = write_sector
    /\ latest' = tag /\ previous' = latest
    /\ pc' = "retire" /\ pos' = 0
    /\ UNCHANGED <<flash, tag, bounds, interrupted, given_up>>

\* mutant: a whole block is skipped, with no check for the end of the sector
RetireTooFar ==
    /\ pc = "retire"
    /\ index' = [index EXCEPT ![write_sector] = @ + Length]
    /\ Done
    /\ UNCHANGED <<flash, read_sector_, n_staging_area_, n_valid_, bounds, history>>

\* mutant: the block that was read so far stays valid
RetireNothing ==
    /\ pc = "retire"
    /\ Done
    /\ UNCHANGED <<flash, ram, bounds, history>>

\* invalidate the other sector: its next field, unless that is its last one,
\* which set_allocation_state refuses
Retire ==
    LET i == index[write_sector] IN
    /\ pc = "retire"
    /\ IF i < NData
       THEN /\ index' = [index EXCEPT ![write_sector] = @ + 1]
            /\ alloc' = IF InRange(i, 1)
                        THEN [alloc EXCEPT ![write_sector][i] = Lower(@, INVALID)]
                        ELSE alloc
            /\ interrupted' = (interrupted \/ ~InRange(i, 1))
            /\ UNCHANGED data
       ELSE Erase(write_sector) /\ UNCHANGED interrupted
    /\ Done
    /\ UNCHANGED <<read_sector_, n_staging_area_, n_valid_, bounds, latest, previous, given_up>>

\* the program or erase operation of that fails
RetireFails ==
    /\ pc = "retire"
    /\ FlashFails
    /\ index' = [index EXCEPT ![write_sector] = IF @ < NData THEN @ + 1 ELSE @]
    /\ interrupted' = TRUE
    /\ Done
    /\ UNCHANGED <<flash, read_sector_, n_staging_area_, n_valid_, saves, resets,
                   latest, previous, given_up>>

\* another flash operation of a save fails: save_configuration gives up
HalError ==
    /\ \/ pc = "erase"
       \/ pc = "allocate" /\ pos < Length
       \/ pc \in {"write", "mark"} /\ pos < n_staging_area_
    /\ FlashFails
    /\ given_up' = (given_up \/ pc \in {"write", "mark"})
    /\ Done
    /\ UNCHANGED <<flash, ram, saves, resets, latest, previous, interrupted>>

-----------------------------------------------------------------------------
(* Resets.                                                                 *)

\* what a reset may make of the operation it interrupts: all or nothing
Outcomes ==
    {latest} \cup CASE pc = "mark" -> {tag}
                    [] pc = "retire" -> {previous}
                    [] pc \in {"erase0", "erase1"} -> {0}
                    [] OTHER -> {}

Boot ==
    /\ NVM_init
    /\ pc' = "idle" /\ tag' = 0 /\ pos' = 0
    /\ latest' = LET found == Loaded(data', index', read_sector_', n_valid_')
                 IN  IF found \in Outcomes THEN found ELSE latest

\* power loss, a watchdog or a reboot command: the next boot loads what it finds
Reset ==
    /\ resets < MaxResets
    /\ resets' = resets + 1
    /\ interrupted' = (interrupted \/ pc = "retire"
                                   \/ (pc = "mark" /\ pos = n_staging_area_))
    /\ UNCHANGED <<flash, saves, failures, previous, given_up>>
    /\ Boot

\* erase_configuration: NVM_erase, then a reset
NVM_erase ==
    /\ pc = "idle" /\ saves < MaxSaves
    /\ saves' = saves + 1
    /\ read_sector_' = 0
    /\ index' = [s \in Sector |-> 0]
    /\ pc' = "erase0"
    /\ UNCHANGED <<flash, n_staging_area_, n_valid_, tag, pos, resets, failures, history>>

\* a failure does not stop it
EraseFirst ==
    /\ pc = "erase0"
    /\ \/ EraseFlash(0) /\ UNCHANGED failures
       \/ FlashFails /\ UNCHANGED flash
    /\ pc' = "erase1"
    /\ UNCHANGED <<ram, tag, pos, saves, resets, history>>

EraseSecond ==
    /\ pc = "erase1"
    /\ \/ EraseFlash(1) /\ UNCHANGED failures
       \/ FlashFails /\ UNCHANGED flash
    /\ Boot
    /\ UNCHANGED <<saves, resets, previous, interrupted, given_up>>

Save == \/ NVM_start_write \/ EraseForRoom \/ Invalidate \/ Allocated \/ NVM_write
        \/ NVM_commit \/ MarkValid \/ Flip \/ Retire \/ RetireFails \/ HalError

EraseConfiguration == NVM_erase \/ EraseFirst \/ EraseSecond

Next == Save \/ EraseConfiguration \/ Reset

Spec == Init /\ [][Next]_vars

-----------------------------------------------------------------------------
(* Properties.                                                             *)

\* The indices that nvm.c keeps stay within a sector, whatever interrupts it.
TypeOK ==
    /\ alloc \in [Sector -> [Field -> {VALID, INVALID, ERASED}]]
    /\ data \in [Sector -> [Field -> Content]]
    /\ index \in [Sector -> 0 .. NData]
    /\ read_sector_ \in Sector
    /\ n_staging_area_ \in {0, Length}
    /\ n_valid_ \in 0 .. NData
    /\ pc \in PC /\ tag \in 0 .. MaxSaves /\ pos \in 0 .. Length
    /\ saves \in 0 .. MaxSaves /\ resets \in 0 .. MaxResets /\ failures \in 0 .. MaxFailures
    /\ latest \in 0 .. MaxSaves /\ previous \in 0 .. MaxSaves
    /\ interrupted \in BOOLEAN /\ given_up \in BOOLEAN

\* NVM_erase has dropped the index that n_valid_ goes with, until its reset
Erasing == pc \in {"erase0", "erase1"}

\* The allocation table alone, without the CRC, keeps half written blocks from
\* being read, wherever a reset interrupts a save: fields are only valid once
\* all of them are written, and a block that was being marked ends invalid.
WholeBlocks ==
    ~Erasing /\ ~given_up /\ n_valid_ >= Length =>
        \E v \in 1 .. MaxSaves : Whole(Block(data, index, read_sector_, n_valid_), v)

\* "Reads from the latest committed block" (nvm.c:264), before and after any
\* reset; a save that a reset interrupts has happened or has not.
ReadsLatestBlock == ~Erasing => Readable = latest

\* It does, as long as every commit has retired the old block (no reset, no
\* failure and not the end of the sector came before that) and no save failed
\* after it had begun to write.
SettledReadsLatest == ~interrupted /\ ~given_up => ReadsLatestBlock

\* "The most recent valid NVM data is not modified or invalidated until
\* NVM_commit is called" (nvm.c:280): only a commit, a reset or an erase of
\* everything changes what would be read.
ReadSideUntouched ==
    [][~Erasing /\ ~Erasing' /\ read_sector_' = read_sector_ /\ resets' = resets
           => Readable' = Readable]_vars
==============================================================================
