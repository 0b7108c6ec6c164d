---------------------------- MODULE ItsMetaBlocks ----------------------------
(***************************************************************************)
(* The power-failure-safe block update of the ITS flash file system        *)
(* (flash_fs/its_flash_fs_mblock.c and the update sequences of             *)
(* its_flash_fs.c and its_flash_fs_dblock.c).                              *)
(*                                                                         *)
(* Two metadata blocks, 0 and 1, take turns.  An update builds the new     *)
(* file table (and the data of logical block 0) in the scratch metadata    *)
(* block and new file data in the scratch data block, then writes the      *)
(* header of the scratch metadata block with its swap count last, swaps    *)
(* the roles of the two blocks in RAM and erases the block that became     *)
(* scratch, and after it the data block that became scratch.  At boot the  *)
(* headers decide which block is active.                                   *)
(*                                                                         *)
(* Every flash operation is started and completed in separate steps, so    *)
(* that Crash can strike in the middle of it.  The NOR and RAM back ends   *)
(* program the bytes of one request in order (the reason the swap count    *)
(* is the last member of the header) and erase a block sector by sector    *)
(* from offset 0, so an interrupted erase has erased the header first.     *)
(* File contents are opaque values; their layout is ItsFlashFs's subject.  *)
(* A replacement that is refused for lack of room has already programmed   *)
(* an entry into the scratch metadata block: RefuseReplacement.            *)
(***************************************************************************)
EXTENDS Naturals

CONSTANTS
  NumBlocks,  \* cfg->num_blocks
  SwapMod,    \* the swap count is a uint8_t: 256 values in the code
  EraseVal,   \* cfg->erase_val
  Values,     \* contents an update may write
  Refusals,   \* TRUE if the store may run out of room for a replacement
  Reprogram,  \* what the flash part may do when programmed bytes are programmed
  EmptyFs, Erased, Marked, Damaged, Torn

\* its_flash_fs_validate_config() rejects three blocks; the erased byte of the
\* supported flash parts is all ones or all zeros.
ASSUME ConfigAssumption ==
  /\ NumBlocks \in Nat /\ NumBlocks >= 2 /\ NumBlocks # 3
  /\ SwapMod \in Nat /\ SwapMod >= 4
  /\ EraseVal \in {0, SwapMod - 1}

ASSUME ValuesAssumption ==
  /\ EmptyFs \notin Values /\ Erased \notin Values /\ Torn \notin Values
  /\ EmptyFs # Erased /\ EmptyFs # Torn /\ Erased # Torn
  /\ Marked \notin Values \cup {EmptyFs, Erased, Torn}
  /\ Damaged \notin Values \cup {EmptyFs, Erased, Torn, Marked}

\* its_flash_ram_write() copies over what is there; a NOR part can only clear
\* bits, so that what it holds afterwards is neither the old nor the new.
ASSUME ReprogramAssumption ==
  /\ Refusals \in BOOLEAN
  /\ Reprogram \in {{"overwrite"}, {"merge"}, {"overwrite", "merge"}}

MetaBlocks == {0, 1}

\* Dedicated logical data blocks, and the physical blocks that hold them or
\* serve as the scratch data block.
LBlocks == IF NumBlocks = 2 THEN {} ELSE 1 .. NumBlocks - 3
DBlocks == IF NumBlocks = 2 THEN {} ELSE 2 .. NumBlocks - 1

its_init_scratch_dblock == IF NumBlocks = 2 THEN 1 ELSE 2

NoBlock == 0                 \* no data block has this physical ID
BlockIds == DBlocks \cup {NoBlock, 1}

SwapCounts == 0 .. SwapMod - 1
Contents == Values \cup {EmptyFs, Erased, Marked, Damaged, Torn}

ITS_SUPPORTED_VERSION == 1

Headers == [scratch_dblock : BlockIds, fs_version : {EraseVal, ITS_SUPPORTED_VERSION},
            active_swap_count : SwapCounts]
Bodies  == [phy_id : [LBlocks -> BlockIds], lb0 : Contents]

\* Version and swap count are bytes, which read as EraseVal when erased.
ErasedHeader == [scratch_dblock |-> NoBlock, fs_version |-> EraseVal,
                 active_swap_count |-> EraseVal]
PartialBody(c) == [phy_id |-> [l \in LBlocks |-> NoBlock], lb0 |-> c]

VARIABLES
  header,      \* flash: header of each metadata block
  body,        \* flash: block table and logical block 0 of each metadata block
  dblock,      \* flash: contents of the data blocks
  pc,          \* which flash operation comes next
  formatting,  \* its_flash_fs_wipe_all() is running, not a file update
  active_metablock, scratch_metablock, meta_block_header,   \* RAM context
  upd          \* RAM: the update being made

vars == <<header, body, dblock, pc, formatting, active_metablock,
          scratch_metablock, meta_block_header, upd>>
flash == <<header, body, dblock>>
ram   == <<active_metablock, scratch_metablock, meta_block_header>>

Updates == [lblock : LBlocks \cup {0}, val : Contents, phy_id : BlockIds]
NoUpdate == [lblock |-> 0, val |-> Torn, phy_id |-> NoBlock]

ITS_OTHER_META_BLOCK(b) == 1 - b

-----------------------------------------------------------------------------
(* Which block is active.                                                  *)

its_mblock_validate_swap_count(c) == c # EraseVal

its_mblock_validate_header_meta(h) ==
  /\ h.fs_version = ITS_SUPPORTED_VERSION
  /\ its_mblock_validate_swap_count(h.active_swap_count)

\* Mutant: the count is wider than a byte.
MutNextSwapCountWide(c) == IF its_mblock_validate_swap_count(c + 1) THEN c + 1 ELSE c + 2

\* Mutant: the value of an erased byte is not skipped.
MutNextSwapCountErased(c) == (c + 1) % SwapMod

\* its_mblock_write_scratch_meta_header() increments the uint8_t swap count,
\* and once more when that gives the value of an erased byte.
NextSwapCount(c) ==
  LET n == (c + 1) % SwapMod
  IN  IF its_mblock_validate_swap_count(n) THEN n ELSE (n + 1) % SwapMod

\* Mutant: no roll-over.
MutLatestGreater(c0, c1) == IF c1 > c0 THEN 1 ELSE 0

its_mblock_latest_meta_block(c0, c1) ==
  LET rollover_val == IF EraseVal = 0 THEN 1 ELSE 0
  IN  IF c1 = rollover_val /\ c0 # rollover_val + 1 THEN 1
      ELSE IF c0 = rollover_val /\ c1 # rollover_val + 1 THEN 0
      ELSE IF c1 > c0 THEN 1 ELSE 0

IsValid(b) == its_mblock_validate_header_meta(header[b])

SomeValid == \E b \in MetaBlocks : IsValid(b)

\* The block its_init_get_active_metablock() chooses when there is one.
its_init_get_active_metablock ==
  IF IsValid(0) /\ IsValid(1)
    THEN its_mblock_latest_meta_block(header[0].active_swap_count,
                                      header[1].active_swap_count)
    ELSE IF IsValid(0) THEN 0 ELSE 1

-----------------------------------------------------------------------------
(* Boot: tfm_its_init(), its_flash_fs_mblock_init().                       *)

Init ==
  /\ header = [b \in MetaBlocks |-> ErasedHeader]
  /\ body = [b \in MetaBlocks |-> PartialBody(Erased)]
  /\ dblock = [d \in DBlocks |-> Erased]
  /\ pc = "off"
  /\ formatting = FALSE
  /\ active_metablock = 0
  /\ scratch_metablock = 0
  /\ meta_block_header = ErasedHeader
  /\ upd = NoUpdate

\* Mutant: boot does not erase the scratch blocks.
MutInitWithoutErase ==
  /\ pc = "off"
  /\ SomeValid
  /\ active_metablock' = its_init_get_active_metablock
  /\ scratch_metablock' = ITS_OTHER_META_BLOCK(its_init_get_active_metablock)
  /\ meta_block_header' = header[its_init_get_active_metablock]
  /\ pc' = "ready"
  /\ UNCHANGED <<flash, formatting, upd>>

\* A valid metadata block is found and its header is read.
its_flash_fs_mblock_init ==
  /\ pc = "off"
  /\ SomeValid
  /\ active_metablock' = its_init_get_active_metablock
  /\ scratch_metablock' = ITS_OTHER_META_BLOCK(its_init_get_active_metablock)
  /\ meta_block_header' = header[its_init_get_active_metablock]
  /\ pc' = "erase_meta"
  /\ UNCHANGED <<flash, formatting, upd>>

\* Mutant: block 0 is erased first, even when it is the active one.
MutWipeBlock0First ==
  /\ pc = "off"
  /\ scratch_metablock' = 0
  /\ active_metablock' = 1
  /\ formatting' = TRUE
  /\ pc' = "wipe_first"
  /\ UNCHANGED <<flash, meta_block_header, upd>>

\* its_flash_fs_wipe_all() erases the scratch metadata block, if the two can be
\* told apart, before the active one.
its_flash_fs_wipe_all ==
  /\ pc = "off"
  /\ scratch_metablock' = IF SomeValid
       THEN ITS_OTHER_META_BLOCK(its_init_get_active_metablock) ELSE 0
  /\ active_metablock' = ITS_OTHER_META_BLOCK(scratch_metablock')
  /\ formatting' = TRUE
  /\ pc' = "wipe_first"
  /\ UNCHANGED <<flash, meta_block_header, upd>>

\* tfm_its_init() wipes when there is no valid metadata block, and when a flash
\* error makes preparing the file system fail.
CreateLayout == ~SomeValid /\ its_flash_fs_wipe_all
PrepareFails == SomeValid /\ its_flash_fs_wipe_all

-----------------------------------------------------------------------------
(* Erasing.  The first sector holds the header; the block stays torn until *)
(* its last sector is erased.                                              *)

StartErase(b) ==
  /\ header' = [header EXCEPT ![b] = ErasedHeader]
  /\ body' = [body EXCEPT ![b] = PartialBody(Torn)]
  /\ UNCHANGED dblock

FinishErase(b) ==
  /\ body' = [body EXCEPT ![b] = PartialBody(Erased)]
  /\ UNCHANGED <<header, dblock>>

\* its_mblock_erase_scratch_blocks(): the scratch metadata block first.
EraseScratchMeta ==
  \/ /\ pc = "erase_meta"
     /\ StartErase(scratch_metablock)
     /\ pc' = "erasing_meta"
     /\ UNCHANGED <<formatting, ram, upd>>
  \/ /\ pc = "erasing_meta"
     /\ FinishErase(scratch_metablock)
     /\ pc' = IF NumBlocks > 2 THEN "erase_data" ELSE "ready"
     /\ UNCHANGED <<formatting, ram, upd>>

\* ... then the scratch data block named by the header in RAM.
EraseScratchData ==
  LET d == meta_block_header.scratch_dblock IN
  \/ /\ pc = "erase_data"
     /\ dblock' = [dblock EXCEPT ![d] = Torn]
     /\ pc' = "erasing_data"
     /\ UNCHANGED <<header, body, formatting, ram, upd>>
  \/ /\ pc = "erasing_data"
     /\ dblock' = [dblock EXCEPT ![d] = Erased]
     /\ pc' = "ready"
     /\ UNCHANGED <<header, body, formatting, ram, upd>>

-----------------------------------------------------------------------------
(* The format: its_flash_fs_mblock_reset_metablock().                      *)

WipeMetaBlocks ==
  \/ /\ pc = "wipe_first"
     /\ StartErase(scratch_metablock)
     /\ pc' = "wiping_first"
     /\ UNCHANGED <<formatting, ram, upd>>
  \/ /\ pc = "wiping_first"
     /\ FinishErase(scratch_metablock)
     /\ pc' = "wipe_second"
     /\ UNCHANGED <<formatting, ram, upd>>
  \/ /\ pc = "wipe_second"
     /\ StartErase(active_metablock)
     /\ pc' = "wiping_second"
     /\ UNCHANGED <<formatting, ram, upd>>
  \/ /\ pc = "wiping_second"
     /\ FinishErase(active_metablock)
     /\ pc' = "reset"
     /\ UNCHANGED <<formatting, ram, upd>>

\* Mutant: the version in the context is left as it was.
MutResetWithoutVersion ==
  /\ pc = "reset"
  /\ meta_block_header' = [ErasedHeader EXCEPT
       !.scratch_dblock = its_init_scratch_dblock,
       !.active_swap_count = IF EraseVal = 0 THEN 1 ELSE 0]
  /\ scratch_metablock' = 1
  /\ active_metablock' = 0
  /\ body' = [body EXCEPT ![1] = PartialBody(Torn)]
  /\ dblock' = [d \in DBlocks |->
                  IF d = its_init_scratch_dblock THEN dblock[d] ELSE Torn]
  /\ pc' = "wiping_data"
  /\ UNCHANGED <<header, formatting, upd>>

\* The context is reset and the entry of logical block 0 is written; then the
\* dedicated data blocks are erased, the initial scratch data block is not.
ResetContext ==
  /\ pc = "reset"
  /\ meta_block_header' =
       [scratch_dblock |-> its_init_scratch_dblock,
        fs_version |-> ITS_SUPPORTED_VERSION,
        active_swap_count |-> IF EraseVal = 0 THEN 1 ELSE 0]
  /\ scratch_metablock' = 1
  /\ active_metablock' = 0
  /\ body' = [body EXCEPT ![1] = PartialBody(Torn)]
  /\ dblock' = [d \in DBlocks |->
                  IF d = its_init_scratch_dblock THEN dblock[d] ELSE Torn]
  /\ pc' = "wiping_data"
  /\ UNCHANGED <<header, formatting, upd>>

WipeDataBlocks ==
  /\ pc = "wiping_data"
  /\ dblock' = [d \in DBlocks |->
                  IF d = its_init_scratch_dblock THEN dblock[d] ELSE Erased]
  /\ pc' = "writing_body"
  /\ UNCHANGED <<header, body, formatting, ram, upd>>

FormattedBody == [phy_id |-> [l \in LBlocks |-> l + 2], lb0 |-> EmptyFs]

-----------------------------------------------------------------------------
(* One block update: its_flash_fs_file_write(), its_flash_fs_delete_idx(). *)

\* An update of a dedicated logical block programs its new contents into the
\* scratch data block; one that only concerns logical block 0 starts with the
\* scratch metadata block.
StartUpdate(l, v) ==
  /\ pc = "ready"
  /\ upd' = [lblock |-> l, val |-> v,
             phy_id |-> IF l = 0 THEN NoBlock ELSE meta_block_header.scratch_dblock]
  /\ pc' = IF l = 0 THEN "write_body" ELSE "writing_data"
  /\ dblock' = IF l = 0 THEN dblock
                        ELSE [dblock EXCEPT ![meta_block_header.scratch_dblock] = Torn]
  /\ UNCHANGED <<header, body, formatting, ram>>

\* Mutant: the scratch data block is not exchanged.
MutFinishDataSameScratch ==
  /\ pc = "writing_data"
  /\ dblock' = [dblock EXCEPT ![upd.phy_id] = upd.val]
  /\ pc' = "write_body"
  /\ UNCHANGED <<header, body, formatting, ram, upd>>

\* its_flash_fs_mblock_set_data_scratch(): once the data is written, the data
\* block in use becomes the scratch data block, in RAM.
FinishData ==
  /\ pc = "writing_data"
  /\ dblock' = [dblock EXCEPT ![upd.phy_id] = upd.val]
  /\ meta_block_header' = [meta_block_header EXCEPT
       !.scratch_dblock = body[active_metablock].phy_id[upd.lblock]]
  /\ pc' = "write_body"
  /\ UNCHANGED <<header, body, formatting, active_metablock, scratch_metablock, upd>>

\* its_flash_fs_file_write() of a file whose size changes programs the entry of
\* the old file, marked for deletion, into the scratch metadata block before it
\* looks for room.  When there is none, or the new size is too large, it returns
\* without erasing the block.
RefuseReplacement ==
  /\ Refusals
  /\ pc = "ready"
  /\ body' = [body EXCEPT ![scratch_metablock] = PartialBody(Marked)]
  /\ UNCHANGED <<header, dblock, pc, formatting, ram, upd>>

StartBody ==
  /\ pc = "write_body"
  /\ body' = [body EXCEPT ![scratch_metablock] =
                IF @.lb0 = Marked THEN @ ELSE PartialBody(Torn)]
  /\ pc' = "writing_body"
  /\ UNCHANGED <<header, dblock, formatting, ram, upd>>

\* Mutant: the block table keeps the old physical block.
MutUpdatedBodyOldBlock == [body[active_metablock] EXCEPT !.lb0 = upd.val]

\* The block table with the new physical block, the file table, and the data of
\* logical block 0, copied from the active metadata block or rewritten.
UpdatedBody ==
  [phy_id |-> [l \in LBlocks |-> IF l = upd.lblock THEN upd.phy_id
                                 ELSE body[active_metablock].phy_id[l]],
   lb0 |-> upd.val]

DamagedBody == [phy_id |-> UpdatedBody.phy_id, lb0 |-> Damaged]

\* What is in the block when it was programmed: over the entry that a refused
\* replacement left, it depends on the flash part.  The copy of a damaged file
\* table is damaged.
ProgrammedBodies ==
  IF body[active_metablock].lb0 = Damaged THEN {DamagedBody}
  ELSE IF body[scratch_metablock].lb0 # Marked THEN {UpdatedBody}
  ELSE {IF how = "merge" THEN DamagedBody ELSE UpdatedBody : how \in Reprogram}

FinishBody ==
  /\ pc = "writing_body"
  /\ \E b \in IF formatting THEN {FormattedBody} ELSE ProgrammedBodies :
       body' = [body EXCEPT ![scratch_metablock] = b]
  /\ pc' = "write_header"
  /\ UNCHANGED <<header, dblock, formatting, ram, upd>>

\* The members of the header reach the flash in order.
its_mblock_write_scratch_meta_header ==
  \/ /\ pc = "write_header"
     /\ header' = [header EXCEPT
          ![scratch_metablock].scratch_dblock = meta_block_header.scratch_dblock]
     /\ meta_block_header' = [meta_block_header EXCEPT
          !.active_swap_count = NextSwapCount(@)]
     /\ pc' = "write_version"
     /\ UNCHANGED <<body, dblock, formatting, active_metablock, scratch_metablock, upd>>
  \/ /\ pc = "write_version"
     /\ header' = [header EXCEPT
          ![scratch_metablock].fs_version = meta_block_header.fs_version]
     /\ pc' = "write_swap_count"
     /\ UNCHANGED <<body, dblock, formatting, ram, upd>>
  \/ /\ pc = "write_swap_count"
     /\ header' = [header EXCEPT ![scratch_metablock].active_swap_count =
                     meta_block_header.active_swap_count]
     /\ pc' = "swap"
     /\ UNCHANGED <<body, dblock, formatting, ram, upd>>

\* its_mblock_swap_metablocks().  After an update the block that became scratch
\* is erased; after a format the file system is prepared again.
SwapMetablocks ==
  /\ pc = "swap"
  /\ active_metablock' = scratch_metablock
  /\ scratch_metablock' = active_metablock
  /\ pc' = IF formatting THEN "off" ELSE "erase_meta"
  /\ formatting' = FALSE
  /\ upd' = NoUpdate
  /\ UNCHANGED <<flash, meta_block_header>>

-----------------------------------------------------------------------------
\* Power is lost: RAM is gone, flash is what it is.
Crash ==
  /\ pc # "off"
  /\ pc' = "off"
  /\ formatting' = FALSE
  /\ active_metablock' = 0
  /\ scratch_metablock' = 0
  /\ meta_block_header' = ErasedHeader
  /\ upd' = NoUpdate
  /\ UNCHANGED flash

Step ==
  \/ its_flash_fs_mblock_init \/ CreateLayout
  \/ EraseScratchMeta \/ EraseScratchData
  \/ WipeMetaBlocks \/ ResetContext \/ WipeDataBlocks
  \/ FinishData \/ StartBody \/ FinishBody
  \/ its_mblock_write_scratch_meta_header \/ SwapMetablocks

Next ==
  \/ Step
  \/ PrepareFails
  \/ \E l \in LBlocks \cup {0}, v \in Values : StartUpdate(l, v)
  \/ RefuseReplacement
  \/ Crash

Spec == Init /\ [][Next]_vars

FairSpec == Spec /\ WF_vars(Step)

-----------------------------------------------------------------------------
(* Flash errors in the middle of an update and at boot.  The error of an   *)
(* update is returned to the caller and the context in RAM is left as it   *)
(* is, except that its_flash_fs_dblock_compact_block(), used by deletions, *)
(* puts the scratch data block back when writing the block table fails.    *)

UpdatePcs == {"writing_data", "write_body", "writing_body", "write_header",
              "write_version", "write_swap_count"}

UpdateFails ==
  /\ pc \in UpdatePcs
  /\ ~formatting
  /\ pc' = "ready"
  /\ upd' = NoUpdate
  /\ \/ UNCHANGED meta_block_header
     \/ /\ pc \in {"write_body", "writing_body"}
        /\ upd.lblock # 0
        /\ meta_block_header' =
             [meta_block_header EXCEPT !.scratch_dblock = upd.phy_id]
  /\ UNCHANGED <<flash, formatting, active_metablock, scratch_metablock>>

\* The header of block b cannot be read at boot: the block is taken for one whose
\* update was not completed.  Without another valid block the flash is wiped,
\* from block 0 when the second attempt to read the headers fails as well.
HeaderUnreadable(b) ==
  LET other == ITS_OTHER_META_BLOCK(b) IN
  /\ pc = "off"
  /\ \/ /\ IsValid(other)
        /\ active_metablock' = other
        /\ scratch_metablock' = b
        /\ meta_block_header' = header[other]
        /\ pc' = "erase_meta"
        /\ UNCHANGED <<flash, formatting, upd>>
     \/ ~IsValid(other) /\ its_flash_fs_wipe_all
     \/ /\ ~IsValid(other)
        /\ scratch_metablock' = 0
        /\ active_metablock' = 1
        /\ formatting' = TRUE
        /\ pc' = "wipe_first"
        /\ UNCHANGED <<flash, meta_block_header, upd>>

SpecWithErrors ==
  Init /\ [][Next \/ UpdateFails \/ \E b \in MetaBlocks : HeaderUnreadable(b)]_vars

-----------------------------------------------------------------------------
(* Properties.                                                             *)

\* A flash part that merges what is programmed twice is safe only while no
\* replacement is refused.
Merging == Refusals /\ "merge" \in Reprogram

Pcs == UpdatePcs \cup
  {"off", "erase_meta", "erasing_meta", "erase_data", "erasing_data", "ready",
   "wipe_first", "wiping_first", "wipe_second", "wiping_second", "reset",
   "wiping_data", "swap"}

TypeOK ==
  /\ header \in [MetaBlocks -> Headers]
  /\ body \in [MetaBlocks -> Bodies]
  /\ dblock \in [DBlocks -> Contents]
  /\ pc \in Pcs
  /\ formatting \in BOOLEAN
  /\ active_metablock \in MetaBlocks
  /\ scratch_metablock \in MetaBlocks
  /\ meta_block_header \in Headers
  /\ upd \in Updates

\* The image the next boot would find in flash.
RecoveredImage ==
  IF SomeValid
    THEN LET b == body[its_init_get_active_metablock]
         IN  [lb0 |-> b.lb0, data |-> [l \in LBlocks |-> dblock[b.phy_id[l]]]]
    ELSE [lb0 |-> Torn, data |-> [l \in LBlocks |-> Torn]]

Store == INSTANCE ItsAtomicStore WITH image <- RecoveredImage

\* Whenever power is lost, the next boot finds the image of before or of after
\* the update, never a mixture, never an older image and never a torn block
\* (its_flash_fs_mblock_meta_update_finalize(), its_init_get_active_metablock()).
\* A flash part that merges what is programmed twice may damage the file table
\* once a replacement was refused.  This needs headers that can be read at boot.
AtomicUpdates == Store!Spec

\* The file system only disappears when tfm_its_init() wipes it: no power failure
\* during an update, an erase or a boot leaves two invalid metadata blocks.
OnlyFormatLoses == [][SomeValid /\ ~formatting => SomeValid']_vars

\* When the update functions return success, the new contents is what a boot
\* would find, with a damaged file table at worst: the swap of the metadata blocks
\* in RAM follows the commit.
SwappedIsCommitted ==
  pc = "swap" /\ ~formatting =>
    /\ RecoveredImage.lb0 \in {upd.val} \cup (IF Merging THEN {Damaged} ELSE {})
    /\ upd.lblock # 0 => RecoveredImage.data[upd.lblock] = upd.val

\* Before an update starts, its destination blocks are erased, also when the
\* previous update or the previous boot was cut short
\* (its_flash_fs_block_to_block_move() relies on it).  The one thing that can be
\* in them is the entry that a refused replacement left in the metadata block.
ScratchErased ==
  pc = "ready" =>
    /\ header[scratch_metablock] = ErasedHeader
    /\ body[scratch_metablock] \in
         {PartialBody(c) : c \in IF Refusals THEN {Erased, Marked} ELSE {Erased}}
    /\ NumBlocks > 2 => dblock[meta_block_header.scratch_dblock] = Erased

\* The scratch data block, which the next update programs and every update
\* erases, holds no logical block of the file system.
ScratchUnmapped ==
  pc = "ready" =>
    \A l \in LBlocks :
      meta_block_header.scratch_dblock # body[active_metablock].phy_id[l]

\* If power stays on and the flash answers at boot, the file system becomes
\* ready: boot, format and update end, whatever state of the flash the crashes
\* before left behind.
BootCompletes ==
  <>[][~Crash /\ ~PrepareFails]_vars => [](pc = "off" => <>(pc = "ready"))

-----------------------------------------------------------------------------
(* The inductive invariant behind AtomicUpdates and the invariants above.  *)

\* Metadata block b describes a complete file system: every logical block has a
\* physical block of its own, and none of them is the scratch data block.
GoodBlock(b) ==
  /\ IsValid(b)
  /\ body[b].lb0 # Torn
  /\ \A l \in LBlocks : body[b].phy_id[l] \in DBlocks
  /\ \A l, m \in LBlocks : l # m => body[b].phy_id[l] # body[b].phy_id[m]
  /\ NumBlocks > 2 => header[b].scratch_dblock \in DBlocks
  /\ \A l \in LBlocks : body[b].phy_id[l] # header[b].scratch_dblock

\* What a boot would choose is always complete.
BootInv == SomeValid => GoodBlock(its_init_get_active_metablock)

IdlePcs == {"erase_meta", "erasing_meta", "erase_data", "erasing_data", "ready"}
WipePcs == {"wipe_first", "wiping_first", "wipe_second", "wiping_second",
            "reset", "wiping_data"}

\* Which operations belong to a format, and which only exist with data blocks.
ControlInv ==
  /\ formatting => pc \in WipePcs \cup (UpdatePcs \ {"writing_data", "write_body"})
                          \cup {"swap"}
  /\ pc \in WipePcs => formatting
  /\ pc \in {"erase_data", "erasing_data", "writing_data"} => NumBlocks > 2

\* The context in RAM agrees with the flash: the active block is the one a boot
\* would choose, and the header in RAM is its header until an update changes it.
ContextInv ==
  /\ pc # "off" => scratch_metablock = ITS_OTHER_META_BLOCK(active_metablock)
  /\ ~formatting /\ pc \in IdlePcs \cup UpdatePcs =>
       SomeValid /\ its_init_get_active_metablock = active_metablock
  /\ pc \in IdlePcs \cup {"writing_data"} =>
       meta_block_header = header[active_metablock]

\* What an update has put into RAM and flash before it commits.
UpdateInv ==
  ~formatting /\ pc \in UpdatePcs \cup {"swap"} =>
    /\ upd.val \in Values
    /\ pc = "writing_data" => upd.lblock # 0
    /\ GoodBlock(active_metablock)
    /\ upd.lblock # 0 => /\ NumBlocks > 2
                         /\ upd.phy_id = header[active_metablock].scratch_dblock
    /\ upd.lblock # 0 /\ pc # "writing_data" => dblock[upd.phy_id] = upd.val
    /\ pc # "writing_data" =>
         /\ meta_block_header.fs_version = ITS_SUPPORTED_VERSION
         /\ meta_block_header.scratch_dblock =
              IF upd.lblock = 0 THEN header[active_metablock].scratch_dblock
              ELSE body[active_metablock].phy_id[upd.lblock]
    /\ pc \in {"write_body", "writing_body", "write_header"} =>
         meta_block_header.active_swap_count =
           header[active_metablock].active_swap_count
    /\ pc \in {"write_version", "write_swap_count", "swap"} =>
         meta_block_header.active_swap_count =
           NextSwapCount(header[active_metablock].active_swap_count)
    /\ pc \in {"write_header", "write_version", "write_swap_count", "swap"} =>
         /\ body[scratch_metablock] \in {UpdatedBody, DamagedBody}

\* The header of the scratch metadata block is invalid until its last member
\* is written.
ScratchHeaderInv ==
  /\ pc \in (IdlePcs \ {"erase_meta"}) \cup
            {"writing_data", "write_body", "writing_body", "write_header",
             "wiping_first", "wipe_second", "wiping_second", "reset", "wiping_data"} =>
       header[scratch_metablock] = ErasedHeader
  /\ pc = "write_version" =>
       header[scratch_metablock] =
         [ErasedHeader EXCEPT !.scratch_dblock = meta_block_header.scratch_dblock]
  /\ pc = "write_swap_count" =>
       header[scratch_metablock] =
         [meta_block_header EXCEPT !.active_swap_count = EraseVal]
  /\ pc = "swap" => header[scratch_metablock] = meta_block_header

\* A format ends with both headers erased before it writes the new one.
FormatInv ==
  /\ pc \in {"wipe_first", "wiping_first", "wipe_second"} =>
       (SomeValid => its_init_get_active_metablock = active_metablock)
  /\ formatting /\ pc \in {"wiping_second", "reset", "wiping_data", "swap"} \cup UpdatePcs =>
       header[active_metablock] = ErasedHeader
  /\ formatting /\ pc \in {"wiping_data", "swap"} \cup UpdatePcs =>
       /\ meta_block_header.scratch_dblock = its_init_scratch_dblock
       /\ meta_block_header.fs_version = ITS_SUPPORTED_VERSION
       /\ its_mblock_validate_swap_count(meta_block_header.active_swap_count)
  /\ formatting /\ pc \in {"swap"} \cup UpdatePcs =>
       \A d \in DBlocks : d # its_init_scratch_dblock => dblock[d] = Erased
  /\ formatting /\ pc \in {"write_header", "write_version", "write_swap_count", "swap"} =>
       body[scratch_metablock] = FormattedBody

\* The scratch blocks are erased in the order that keeps ScratchErased, and only
\* refused replacements leave a marked entry.
ErasedInv ==
  /\ pc \in {"erase_data", "erasing_data"} =>
       body[scratch_metablock] = PartialBody(Erased)
  /\ pc = "ready" =>
       body[scratch_metablock] \in {PartialBody(Erased), PartialBody(Marked)}
  /\ \A b \in MetaBlocks : /\ body[b].lb0 = Marked => Refusals
                           /\ body[b].lb0 = Damaged => Merging
  /\ pc = "ready" /\ NumBlocks > 2 =>
       dblock[meta_block_header.scratch_dblock] = Erased

IInv == /\ TypeOK /\ BootInv /\ ControlInv /\ ContextInv /\ UpdateInv
        /\ ScratchHeaderInv /\ FormatInv /\ ErasedInv

=============================================================================
