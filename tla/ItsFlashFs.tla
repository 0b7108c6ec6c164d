------------------------------ MODULE ItsFlashFs ------------------------------
(***************************************************************************)
(* The ITS flash file system above the block update (its_flash_fs.c,       *)
(* its_flash_fs_dblock.c, the allocation in its_flash_fs_mblock.c) and the *)
(* service that drives it (tfm_internal_trusted_storage.c).                *)
(*                                                                         *)
(* The state is what the active metadata block describes: the file table,  *)
(* the free space of each logical block and the bytes of each logical      *)
(* block.  One block update is one step: ItsMetaBlocks shows that it is    *)
(* atomic over power failures.  An operation may need several updates (a   *)
(* set writes one chunk per update; a set that changes the size of a file  *)
(* deletes the old file in an update of its own), and Crash may come       *)
(* between any two of them.                                                *)
(***************************************************************************)
EXTENDS Naturals, Sequences, FiniteSetsExt

CONSTANTS
  Fids, NoFid,      \* file identifiers; the all-zero one marks a free entry
  Values,           \* what the client sends; byte i of a request is <<v, i>>
  Sizes,            \* sizes a client may ask for
  MaxNumFiles,      \* cfg->max_num_files, one more than the assets
  NumLBlocks,       \* its_num_active_dblocks()
  BlockSize,        \* cfg->block_size
  MetadataSize,     \* start of the data in logical block 0
  MaxFileSize,      \* cfg->max_file_size
  BufSize,          \* ITS_BUF_SIZE, the size of asset_data
  Erased            \* an erased byte

\* its_flash_fs_validate_config()
ASSUME ConfigAssumption ==
  /\ NoFid \notin Fids /\ Sizes \subseteq Nat
  /\ MaxNumFiles \in Nat \ {0} /\ NumLBlocks \in Nat \ {0} /\ BufSize \in Nat \ {0}
  /\ BlockSize \in Nat /\ MetadataSize \in 0 .. BlockSize
  /\ MaxFileSize \in 0 .. BlockSize
  /\ NumLBlocks = 1 => MaxFileSize <= BlockSize - MetadataSize

LBlocks == 0 .. NumLBlocks - 1
Indexes == 0 .. MaxNumFiles - 1
InvalidIndex == MaxNumFiles      \* ITS_METADATA_INVALID_INDEX: above every index
Offsets == 0 .. BlockSize - 1

\* its_flash_fs_mblock_reset_metablock(): logical block 0 shares its physical
\* block with the metadata.
data_start(l) == IF l = 0 THEN MetadataSize ELSE 0

FreeEntry == [id |-> NoFid, lblock |-> 0, data_idx |-> 0, cur_size |-> 0,
              max_size |-> 0, once |-> FALSE, delete |-> FALSE]

Idle == [kind |-> "idle"]
Boot == [kind |-> "boot"]

VARIABLES
  file_meta,   \* file table of the active metadata block
  free_size,   \* free bytes at the end of each logical block
  data,        \* the bytes of each logical block
  dirty,       \* the scratch metadata block holds entries of an abandoned update
  op           \* what the service is doing

vars == <<file_meta, free_size, data, dirty, op>>
disk == <<file_meta, free_size, data>>

Init ==
  /\ file_meta = [i \in Indexes |-> FreeEntry]
  /\ free_size = [l \in LBlocks |-> BlockSize - data_start(l)]
  /\ data = [l \in LBlocks |-> [p \in Offsets |-> Erased]]
  /\ dirty = FALSE
  /\ op = Boot

-----------------------------------------------------------------------------
(* Searching and allocating.                                               *)

FirstIndex(S) == IF S = {} THEN InvalidIndex ELSE Min(S)

its_flash_fs_mblock_get_file_idx(fid) ==
  FirstIndex({i \in Indexes : file_meta[i].id = fid})

\* Unless the spare entry may be used, the first free entry is left free.
its_get_free_file_index(use_spare) ==
  LET free == {i \in Indexes : file_meta[i].id = NoFid}
  IN  FirstIndex(IF use_spare THEN free ELSE free \ {FirstIndex(free)})

\* The first logical block with enough space at its end.
RoomyBlocks(size) == {l \in LBlocks : free_size[l] >= size}

\* Mutant: the metadata at the start of logical block 0 is not accounted for.
MutReserveAtUsedBytes(fid, size, once) ==
  LET l == Min(RoomyBlocks(size))
  IN  [id |-> fid, lblock |-> l, data_idx |-> BlockSize - data_start(l) - free_size[l],
       cur_size |-> 0, max_size |-> size, once |-> once, delete |-> FALSE]

its_mblock_reserve_file(fid, size, once) ==
  LET l == Min(RoomyBlocks(size))
  IN  [id |-> fid, lblock |-> l, data_idx |-> BlockSize - free_size[l],
       cur_size |-> 0, max_size |-> size, once |-> once, delete |-> FALSE]

\* its_flash_fs_mblock_reserve_file() succeeds.
CanReserve(size, use_spare) ==
  /\ size <= MaxFileSize
  /\ RoomyBlocks(size) # {}
  /\ its_get_free_file_index(use_spare) # InvalidIndex

-----------------------------------------------------------------------------
(* Data block updates.                                                     *)

\* Mutant: the bytes behind the file are not copied.
MutWriteFileNoTail(l, free, fm, offset, chunk) ==
  LET pos == fm.data_idx + offset
  IN  [p \in Offsets |->
         IF p >= pos /\ p < pos + Len(chunk) THEN chunk[p - pos + 1]
         ELSE IF p >= data_start(l) /\ p < pos THEN data[l][p] ELSE Erased]

\* its_flash_fs_dblock_write_file(): everything is copied to the scratch block
\* except the bytes between the new data and the end of the file.
its_flash_fs_dblock_write_file(l, free, fm, offset, chunk) ==
  LET pos == fm.data_idx + offset
      end == fm.data_idx + fm.max_size
  IN  [p \in Offsets |->
         IF p >= pos /\ p < pos + Len(chunk) THEN chunk[p - pos + 1]
         ELSE IF \/ p >= data_start(l) /\ p < pos
                 \/ p >= end /\ p < BlockSize - free
              THEN data[l][p]
              ELSE Erased]

\* its_flash_fs_dblock_compact_block(): size bytes move from src to dst, the
\* bytes before dst are copied.
its_flash_fs_dblock_compact_block(l, src, dst, size) ==
  [p \in Offsets |->
     IF p >= dst /\ p < dst + size THEN data[l][p - dst + src]
     ELSE IF p >= data_start(l) /\ p < dst THEN data[l][p]
     ELSE Erased]

\* its_flash_fs_mblock_migrate_lb0_data_to_scratch(): the used part of logical
\* block 0, as the active metadata block describes it.
MigratedLb0 ==
  [p \in Offsets |-> IF p >= MetadataSize /\ p < BlockSize - free_size[0]
                     THEN data[0][p] ELSE Erased]

\* Contents of the logical blocks when block l becomes d and block 0 follows
\* the metadata into the other physical block.
WithBlock(l, d) ==
  [m \in LBlocks |-> IF m = l THEN d ELSE IF m = 0 THEN MigratedLb0 ELSE data[m]]

-----------------------------------------------------------------------------
(* its_flash_fs_file_write(), one block update.                            *)

\* Mutant: the current size grows by every chunk's end.
MutWriteUpdateSum(idx, fm, free, offset, chunk, old) ==
  /\ file_meta' = [i \in Indexes |->
       IF i = idx THEN [fm EXCEPT !.cur_size = @ + offset + Len(chunk)]
       ELSE IF i = old THEN [file_meta[i] EXCEPT !.delete = TRUE]
       ELSE file_meta[i]]
  /\ free_size' = [free_size EXCEPT ![fm.lblock] = free]
  /\ data' = WithBlock(fm.lblock,
              its_flash_fs_dblock_write_file(fm.lblock, free, fm, offset, chunk))
  /\ dirty' = FALSE

\* Entry idx becomes fm, with the chunk written at offset; the entry old, if it
\* is another one, is marked for deletion in the same update.
WriteUpdate(idx, fm, free, offset, chunk, old) ==
  /\ file_meta' = [i \in Indexes |->
       IF i = idx THEN [fm EXCEPT !.cur_size = Max({@, offset + Len(chunk)})]
       ELSE IF i = old THEN [file_meta[i] EXCEPT !.delete = TRUE]
       ELSE file_meta[i]]
  /\ free_size' = [free_size EXCEPT ![fm.lblock] = free]
  /\ data' = IF chunk = <<>>
       THEN [data EXCEPT ![0] = MigratedLb0]
       ELSE WithBlock(fm.lblock,
              its_flash_fs_dblock_write_file(fm.lblock, free, fm, offset, chunk))
  /\ dirty' = FALSE

Chunk(v, from, n) == [i \in 1 .. n |-> <<v, from + i>>]

\* Mutant: a set goes on until more bytes than requested are written.
MutSetContinuesTooLong(fid, v, size, done) ==
  IF done <= size THEN [kind |-> "set", fid |-> fid, val |-> v, size |-> size, done |-> done]
                  ELSE Idle

\* What remains of a set after chunk bytes up to `done`.
SetContinues(fid, v, size, done) ==
  IF done < size THEN [kind |-> "set", fid |-> fid, val |-> v, size |-> size, done |-> done]
                 ELSE Idle

\* its_flash_fs_delete_idx(), one block update: the files behind the deleted one
\* in its block move down by its size.
DeleteUpdate(del) ==
  LET d == file_meta[del]
      later == {i \in Indexes \ {del} : /\ file_meta[i].id # NoFid
                                        /\ file_meta[i].lblock = d.lblock
                                        /\ file_meta[i].data_idx > d.data_idx}
      src  == Min({BlockSize} \cup {file_meta[i].data_idx : i \in later})
      size == MapThenSumSet(LAMBDA i : file_meta[i].max_size, later)
  IN  /\ file_meta' = [i \in Indexes |->
           IF i = del THEN FreeEntry
           ELSE IF i \in later THEN [file_meta[i] EXCEPT !.data_idx = @ - d.max_size]
           ELSE file_meta[i]]
      /\ free_size' = [free_size EXCEPT ![d.lblock] = @ + d.max_size]
      /\ data' = WithBlock(d.lblock,
                   its_flash_fs_dblock_compact_block(d.lblock, src, d.data_idx, size))
      /\ dirty' = FALSE

-----------------------------------------------------------------------------
(* The service.                                                            *)

\* The existing file has the right size and is reused.
SetReuse(fid, v, size, once) ==
  LET e == its_flash_fs_mblock_get_file_idx(fid)
      n == Min({size, BufSize})
  IN  /\ op = Idle
      /\ e # InvalidIndex
      /\ ~file_meta[e].once
      /\ file_meta[e].max_size = size
      /\ WriteUpdate(e, [file_meta[e] EXCEPT !.cur_size = 0, !.once = once],
                     free_size[file_meta[e].lblock], 0, Chunk(v, 0, n), e)
      /\ op' = SetContinues(fid, v, size, n)

\* Mutant: the old file is not deleted before the next chunk.
MutSetCreateKeepsOld(fid, v, size, once) ==
  LET e == its_flash_fs_mblock_get_file_idx(fid)
      n == Min({size, BufSize})
      fm == its_mblock_reserve_file(fid, size, once)
  IN  /\ op = Idle
      /\ e # InvalidIndex => ~file_meta[e].once /\ file_meta[e].max_size # size
      /\ CanReserve(size, e # InvalidIndex)
      /\ WriteUpdate(its_get_free_file_index(e # InvalidIndex), fm,
                     free_size[fm.lblock] - size, 0, Chunk(v, 0, n), e)
      /\ op' = SetContinues(fid, v, size, n)

\* There is no such file, or one of another size: a new entry is reserved, the
\* spare one if need be, and the old file is deleted by a second update.
SetCreate(fid, v, size, once) ==
  LET e == its_flash_fs_mblock_get_file_idx(fid)
      n == Min({size, BufSize})
      fm == its_mblock_reserve_file(fid, size, once)
      rest == SetContinues(fid, v, size, n)
  IN  /\ op = Idle
      /\ e # InvalidIndex => ~file_meta[e].once /\ file_meta[e].max_size # size
      /\ CanReserve(size, e # InvalidIndex)
      /\ WriteUpdate(its_get_free_file_index(e # InvalidIndex), fm,
                     free_size[fm.lblock] - size, 0, Chunk(v, 0, n), e)
      /\ op' = IF e = InvalidIndex THEN rest
               ELSE [kind |-> "delete", idx |-> e, next |-> rest]

\* No room, or too large.  When a file was to be replaced, its entry has already
\* been written to the scratch metadata block, which is left like that.
SetFails(fid, size) ==
  LET e == its_flash_fs_mblock_get_file_idx(fid)
  IN  /\ op = Idle
      /\ e # InvalidIndex => ~file_meta[e].once /\ file_meta[e].max_size # size
      /\ ~CanReserve(size, e # InvalidIndex)
      /\ dirty' = (dirty \/ e # InvalidIndex)
      /\ UNCHANGED <<disk, op>>

\* The next chunk of a set, written to the existing file.
SetChunk ==
  /\ op.kind = "set"
  /\ LET e == its_flash_fs_mblock_get_file_idx(op.fid)
         n == Min({op.size - op.done, BufSize})
     IN  /\ WriteUpdate(e, file_meta[e], free_size[file_meta[e].lblock], op.done,
                        Chunk(op.val, op.done, n), e)
         /\ op' = SetContinues(op.fid, op.val, op.size, op.done + n)

\* The second update of a set that replaces a file, also after a reboot.
DeleteOld ==
  /\ op.kind = "delete"
  /\ DeleteUpdate(op.idx)
  /\ op' = op.next

tfm_its_remove(fid) ==
  LET e == its_flash_fs_mblock_get_file_idx(fid)
  IN  /\ op = Idle
      /\ e # InvalidIndex
      /\ ~file_meta[e].once
      /\ DeleteUpdate(e)
      /\ UNCHANGED op

-----------------------------------------------------------------------------
(* Power failure and boot.                                                 *)

Crash ==
  /\ op # Boot
  /\ op' = Boot
  /\ UNCHANGED <<disk, dirty>>

\* Mutant: files marked for deletion are ignored at boot.
MutPrepareNoRecovery ==
  /\ op = Boot
  /\ dirty' = FALSE
  /\ op' = Idle
  /\ UNCHANGED disk

\* its_flash_fs_prepare(): the scratch blocks are erased; a file marked for
\* deletion is deleted before the service starts.
its_flash_fs_prepare ==
  LET marked == {i \in Indexes : file_meta[i].delete}
  IN  /\ op = Boot
      /\ dirty' = FALSE
      /\ op' = IF marked = {} THEN Idle
               ELSE [kind |-> "delete", idx |-> Min(marked), next |-> Idle]
      /\ UNCHANGED disk

Step == SetChunk \/ DeleteOld \/ its_flash_fs_prepare

Next ==
  \/ Step
  \/ \E fid \in Fids :
       \/ tfm_its_remove(fid)
       \/ \E size \in Sizes :
            \/ SetFails(fid, size)
            \/ \E v \in Values, once \in BOOLEAN :
                 SetReuse(fid, v, size, once) \/ SetCreate(fid, v, size, once)
  \/ Crash

Spec == Init /\ [][Next]_vars

FairSpec == Spec /\ WF_vars(Step)

-----------------------------------------------------------------------------
(* Properties.                                                             *)

FileMetas == [id : Fids \cup {NoFid}, lblock : LBlocks, data_idx : 0 .. BlockSize,
              cur_size : 0 .. BlockSize, max_size : 0 .. BlockSize,
              once : BOOLEAN, delete : BOOLEAN]

\* What remains of a set, and what the service may be doing.
SetOps == [kind : {"set"}, fid : Fids, val : Values, size : 0 .. BlockSize,
           done : 0 .. BlockSize]

Ops == {Idle, Boot} \cup SetOps
       \cup [kind : {"delete"}, idx : Indexes, next : {Idle} \cup SetOps]

TypeOK ==
  /\ file_meta \in [Indexes -> FileMetas]
  /\ free_size \in [LBlocks -> 0 .. BlockSize]
  /\ data \in [LBlocks -> [Offsets -> {Erased} \cup (Values \X (1 .. BlockSize))]]
  /\ dirty \in BOOLEAN
  /\ op \in Ops

InUse == {i \in Indexes : file_meta[i].id # NoFid}

InBlock(l) == {i \in InUse : file_meta[i].lblock = l}

\* Allocation and compaction keep the files of a block apart, within the block
\* and without gaps: what is not used by a file is exactly the free space.
LayoutSound ==
  /\ \A i, j \in InUse : i # j /\ file_meta[i].lblock = file_meta[j].lblock =>
       \/ file_meta[i].data_idx + file_meta[i].max_size <= file_meta[j].data_idx
       \/ file_meta[j].data_idx + file_meta[j].max_size <= file_meta[i].data_idx
  /\ \A i \in InUse : LET f == file_meta[i] IN
       /\ f.cur_size <= f.max_size
       /\ f.data_idx >= data_start(f.lblock)
       /\ f.data_idx + f.max_size <= BlockSize - free_size[f.lblock]
  /\ \A l \in LBlocks :
       MapThenSumSet(LAMBDA i : file_meta[i].max_size, InBlock(l))
         = BlockSize - data_start(l) - free_size[l]

\* Between requests no file marked for deletion is left, even after power
\* failures, no identifier occurs twice, and the spare entry is free, so that a
\* file can be replaced in a full table (its_get_free_file_index()).
RestState ==
  op = Idle =>
    /\ \A i \in Indexes : ~file_meta[i].delete
    /\ \A i, j \in InUse : i # j => file_meta[i].id # file_meta[j].id
    /\ InUse # Indexes

\* A chunk that continues a set finds the file that the first chunk reserved,
\* filled as far as the chunks before went.
ChunkContinues ==
  op.kind = "set" =>
    LET e == its_flash_fs_mblock_get_file_idx(op.fid) IN
      /\ e # InvalidIndex
      /\ file_meta[e].cur_size = op.done /\ file_meta[e].max_size = op.size
      /\ ~file_meta[e].delete

\* The file a client sees under an identifier: the entry not marked for deletion.
VisibleFile(fid) ==
  LET S == {i \in Indexes : file_meta[i].id = fid /\ ~file_meta[i].delete} IN
  IF S = {} THEN [data |-> <<>>, once |-> FALSE, present |-> FALSE]
  ELSE LET f == file_meta[Min(S)] IN
       [data |-> [i \in 1 .. f.cur_size |-> data[f.lblock][f.data_idx + i - 1]],
        once |-> f.once, present |-> TRUE]

\* The file being written by the current request.
Writer == IF op.kind = "set" THEN op.fid
          ELSE IF op.kind = "delete" /\ op.next # Idle THEN op.next.fid
          ELSE NoFid

Store == INSTANCE ItsFileStore
           WITH files <- [f \in Fids |-> VisibleFile(f)], writer <- Writer

\* Every file keeps exactly the bytes its own requests wrote: allocating,
\* replacing, compacting and recovering never disturb another file, and each
\* chunk appears as a whole (its_flash_fs_file_write(), its_flash_fs_delete_idx()).
StoreImplemented == Store!Spec

\* A request or a recovery that is not cut short by power failures ends.
RequestEnds == <>[][~Crash]_vars => [](op # Idle => <>(op = Idle))

=============================================================================
