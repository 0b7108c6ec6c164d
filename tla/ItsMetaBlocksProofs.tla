------------------------- MODULE ItsMetaBlocksProofs -------------------------
(***************************************************************************)
(* Proofs about the block update protocol of ItsMetaBlocks, for every      *)
(* number of blocks, every width of the swap count and both erase values.  *)
(***************************************************************************)
EXTENDS ItsMetaBlocks, TLAPS

\* The uint8_t increment stays in range and wraps to 0.
LEMMA IncrementWraps ==
  ASSUME NEW c \in SwapCounts
  PROVE  /\ (c + 1) % SwapMod \in SwapCounts
         /\ c = SwapMod - 1 => (c + 1) % SwapMod = 0
         /\ c # SwapMod - 1 => (c + 1) % SwapMod = c + 1
  BY ConfigAssumption DEF SwapCounts

\* its_mblock_latest_meta_block() recognises the successor of a swap count,
\* across the roll-over and across the skipped erase value.
LEMMA LatestIsNext ==
  ASSUME NEW c \in SwapCounts, c # EraseVal
  PROVE  /\ NextSwapCount(c) \in SwapCounts
         /\ its_mblock_validate_swap_count(NextSwapCount(c))
         /\ its_mblock_latest_meta_block(c, NextSwapCount(c)) = 1
         /\ its_mblock_latest_meta_block(NextSwapCount(c), c) = 0
<1> DEFINE n == (c + 1) % SwapMod
<1>1. /\ n \in SwapCounts
      /\ c = SwapMod - 1 => n = 0
      /\ c # SwapMod - 1 => n = c + 1
  BY IncrementWraps
<1>2. /\ (n + 1) % SwapMod \in SwapCounts
      /\ n = SwapMod - 1 => (n + 1) % SwapMod = 0
      /\ n # SwapMod - 1 => (n + 1) % SwapMod = n + 1
  BY <1>1, IncrementWraps
<1> HIDE DEF n
<1>3. NextSwapCount(c) = IF n # EraseVal THEN n ELSE (n + 1) % SwapMod
  BY DEF NextSwapCount, its_mblock_validate_swap_count, n
<1> DEFINE k == (n + 1) % SwapMod
<1>4. /\ k \in SwapCounts
      /\ n = SwapMod - 1 => k = 0
      /\ n # SwapMod - 1 => k = n + 1
      /\ NextSwapCount(c) = IF n # EraseVal THEN n ELSE k
  BY <1>2, <1>3
<1> HIDE DEF k
<1> QED
  BY <1>1, <1>4, ConfigAssumption
  DEF SwapCounts, its_mblock_validate_swap_count, its_mblock_latest_meta_block


\* Facts about the block identifiers of a configuration.
LEMMA BlockFacts ==
  /\ LBlocks \subseteq Nat \ {0} /\ DBlocks \subseteq Nat \ {0, 1}
  /\ NumBlocks > 2 => its_init_scratch_dblock \in DBlocks
  /\ \A l \in LBlocks : l + 2 \in DBlocks \ {its_init_scratch_dblock}
  /\ LBlocks # {} => NumBlocks > 2
  /\ NoBlock \in BlockIds /\ its_init_scratch_dblock \in BlockIds
  /\ DBlocks \subseteq BlockIds
  BY ConfigAssumption DEF LBlocks, DBlocks, its_init_scratch_dblock, BlockIds, NoBlock

\* The constant values have their types.
LEMMA ValueTypes ==
  /\ ErasedHeader \in Headers
  /\ \A c \in Contents : PartialBody(c) \in Bodies
  /\ FormattedBody \in Bodies
  /\ NoUpdate \in Updates
  /\ Values \subseteq Contents /\ {EmptyFs, Erased, Marked, Damaged, Torn} \subseteq Contents
  BY BlockFacts, ConfigAssumption
  DEF Headers, Bodies, Updates, ErasedHeader, PartialBody, FormattedBody, NoUpdate,
      Contents, SwapCounts

\* Erased, torn and formatted blocks hold no marked entry and no damaged table.
LEMMA MarkedFacts ==
  /\ \A c : PartialBody(c).lb0 = c
  /\ FormattedBody.lb0 # Marked /\ FormattedBody.lb0 # Damaged
  /\ Erased # Marked /\ Torn # Marked /\ Marked \notin Values
  /\ Erased # Damaged /\ Torn # Damaged /\ Marked # Damaged /\ Damaged \notin Values
  BY ValuesAssumption DEF PartialBody, FormattedBody

\* The contents an update programs, and the contents of a damaged one.
LEMMA BodyForms ==
  /\ UpdatedBody.lb0 = upd.val
  /\ DamagedBody.phy_id = UpdatedBody.phy_id /\ DamagedBody.lb0 = Damaged
  BY DEF UpdatedBody, DamagedBody

\* What an update may leave in the scratch metadata block.
LEMMA ProgrammedFacts ==
  ASSUME IInv, pc = "writing_body", ~formatting, NEW b \in ProgrammedBodies
  PROVE  /\ b \in Bodies /\ b.lb0 # Marked
         /\ b \in {UpdatedBody, DamagedBody}
         /\ b.lb0 = Damaged => Merging
<1>1. UpdatedBody \in Bodies /\ UpdatedBody.lb0 \in Values
  BY DEF IInv, TypeOK, UpdateInv, UpdatePcs, UpdatedBody, Bodies, Updates
<1>2. /\ scratch_metablock \in MetaBlocks /\ active_metablock \in MetaBlocks
      /\ body[scratch_metablock].lb0 = Marked => Refusals
      /\ body[active_metablock].lb0 = Damaged => Merging
  BY DEF IInv, TypeOK, ErasedInv
<1>3. b \in {UpdatedBody, DamagedBody}
  BY DEF ProgrammedBodies
<1>4. b = DamagedBody => b = UpdatedBody \/ Merging
  BY <1>2 DEF ProgrammedBodies, Merging
<1>5. DamagedBody \in Bodies /\ DamagedBody.lb0 = Damaged
  BY <1>1, ValueTypes DEF DamagedBody, Bodies
<1> QED
  BY <1>1, <1>3, <1>4, <1>5, MarkedFacts

\* The initial state satisfies the inductive invariant.
LEMMA InvInit == Init => IInv
<1> SUFFICES ASSUME Init PROVE IInv
  OBVIOUS
<1>1. TypeOK
  BY ValueTypes, BlockFacts DEF Init, TypeOK, MetaBlocks, Pcs
<1>2. ~SomeValid
  BY DEF Init, SomeValid, IsValid, its_mblock_validate_header_meta,
     its_mblock_validate_swap_count, ErasedHeader, MetaBlocks
<1> QED
  BY <1>1, <1>2, MarkedFacts
  DEF Init, IInv, BootInv, ControlInv, ContextInv, UpdateInv, ScratchHeaderInv, FormatInv, ErasedInv, IdlePcs, UpdatePcs, WipePcs

\* its_init_get_active_metablock() returns one of the two metadata blocks.
LEMMA ActiveIsMeta == its_init_get_active_metablock \in MetaBlocks
  BY DEF its_init_get_active_metablock, its_mblock_latest_meta_block, MetaBlocks

\* A step that changes no header keeps the choice of the next boot.
LEMMA SameChoice ==
  ASSUME UNCHANGED header
  PROVE  /\ SomeValid' = SomeValid
         /\ its_init_get_active_metablock' = its_init_get_active_metablock
  BY DEF SomeValid, IsValid, its_init_get_active_metablock

\* A step that changes no header and no block table keeps what a boot would
\* choose complete.
LEMMA BootKeptWhenQuiet ==
  ASSUME IInv,
         \/ its_flash_fs_mblock_init \/ CreateLayout \/ PrepareFails
         \/ EraseScratchData \/ WipeDataBlocks \/ FinishData
         \/ SwapMetablocks \/ Crash
  PROVE  BootInv'
<1>1. UNCHANGED <<header, body>>
  BY DEF its_flash_fs_mblock_init, CreateLayout, PrepareFails, its_flash_fs_wipe_all,
     EraseScratchData, WipeDataBlocks, FinishData, SwapMetablocks, Crash, flash
<1>2. ASSUME NEW b PROVE GoodBlock(b)' = GoodBlock(b)
  BY <1>1 DEF GoodBlock, IsValid
<1> QED
  BY <1>1, <1>2, SameChoice DEF IInv, BootInv

\* A metadata block whose header is erased is not valid.
LEMMA ErasedIsInvalid ==
  ErasedHeader.fs_version = EraseVal /\ ErasedHeader.active_swap_count = EraseVal
  BY DEF ErasedHeader

\* Erasing or writing one metadata block while its header is erased keeps the
\* other one the choice of the next boot, and complete.
LEMMA OtherBlockKept ==
  ASSUME BootInv,
         NEW a \in MetaBlocks,
         SomeValid => its_init_get_active_metablock = a,
         header'[a] = header[a], body'[a] = body[a],
         header'[ITS_OTHER_META_BLOCK(a)] = ErasedHeader
  PROVE  /\ SomeValid' => SomeValid /\ its_init_get_active_metablock' = a
         /\ BootInv'
<1>1. ~IsValid(ITS_OTHER_META_BLOCK(a))'
  BY ErasedIsInvalid DEF IsValid, its_mblock_validate_header_meta,
     its_mblock_validate_swap_count
<1>2. SomeValid' => IsValid(a)' /\ its_init_get_active_metablock' = a
  BY <1>1 DEF SomeValid, its_init_get_active_metablock, MetaBlocks, ITS_OTHER_META_BLOCK
<1>3. IsValid(a)' = IsValid(a)
  BY DEF IsValid
<1>4. IsValid(a) => SomeValid
  BY DEF SomeValid
<1>5. GoodBlock(a) => GoodBlock(a)'
  BY <1>3 DEF GoodBlock
<1>6. SomeValid' => GoodBlock(a)'
  BY <1>2, <1>3, <1>4, <1>5 DEF BootInv
<1> QED
  BY <1>2, <1>3, <1>4, <1>6 DEF BootInv, GoodBlock, IsValid

\* An erased header is not the choice of a boot.
LEMMA ErasedNotChosen ==
  ASSUME NEW a \in MetaBlocks, header[ITS_OTHER_META_BLOCK(a)] = ErasedHeader
  PROVE  SomeValid => its_init_get_active_metablock = a
<1>1. ~IsValid(ITS_OTHER_META_BLOCK(a))
  BY ErasedIsInvalid DEF IsValid, its_mblock_validate_header_meta,
     its_mblock_validate_swap_count
<1> QED
  BY <1>1 DEF SomeValid, its_init_get_active_metablock, MetaBlocks, ITS_OTHER_META_BLOCK

\* The steps that erase or fill the scratch metadata block keep what a boot would
\* choose complete.
LEMMA BootKeptByScratch ==
  ASSUME IInv,
         \/ EraseScratchMeta \/ StartBody \/ FinishBody
         \/ pc \in {"wipe_first", "wiping_first"} /\ WipeMetaBlocks
  PROVE  BootInv'
<1> DEFINE a == active_metablock
           s == scratch_metablock
<1>1. /\ a \in MetaBlocks /\ s = ITS_OTHER_META_BLOCK(a) /\ s # a /\ s \in MetaBlocks
      /\ ITS_OTHER_META_BLOCK(s) = a
  BY DEF EraseScratchMeta, StartBody, FinishBody, WipeMetaBlocks, IInv, TypeOK, ContextInv,
     MetaBlocks, ITS_OTHER_META_BLOCK
<1>2. /\ header'[a] = header[a] /\ body'[a] = body[a]
  BY <1>1 DEF EraseScratchMeta, StartBody, FinishBody, WipeMetaBlocks, StartErase,
     FinishErase, IInv, TypeOK
<1>3. header'[s] = ErasedHeader
  BY <1>1 DEF EraseScratchMeta, StartBody, FinishBody, WipeMetaBlocks, StartErase,
     FinishErase, IInv, TypeOK, ScratchHeaderInv, IdlePcs
<1>4. SomeValid => its_init_get_active_metablock = a
  <2>1. CASE pc \in {"wipe_first", "wiping_first"}
    BY <2>1 DEF IInv, FormatInv
  <2>2. CASE pc = "erase_meta"
    BY <2>2 DEF IInv, ContextInv, ControlInv, IdlePcs, WipePcs, UpdatePcs
  <2>3. CASE pc \in {"erasing_meta", "write_body", "writing_body"}
    <3>1. header[s] = ErasedHeader
      BY <2>3 DEF IInv, ScratchHeaderInv, IdlePcs
    <3> QED
      BY <1>1, <3>1, ErasedNotChosen
  <2> QED
    BY <2>1, <2>2, <2>3 DEF EraseScratchMeta, StartBody, FinishBody
<1>5. BootInv
  BY DEF IInv
<1> QED
  BY <1>1, <1>2, <1>3, <1>4, <1>5, OtherBlockKept

\* Once a format has erased both headers, a boot finds no file system.
LEMMA BootKeptByFormat ==
  ASSUME IInv,
         \/ ResetContext
         \/ pc \in {"wipe_second", "wiping_second"} /\ WipeMetaBlocks
  PROVE  BootInv'
<1> DEFINE a == active_metablock
           s == scratch_metablock
<1>1. a \in MetaBlocks /\ s = ITS_OTHER_META_BLOCK(a) /\ s # a /\ MetaBlocks = {a, s}
  BY DEF ResetContext, WipeMetaBlocks, IInv, TypeOK, ContextInv, MetaBlocks,
     ITS_OTHER_META_BLOCK
<1>2. header[s] = ErasedHeader
  BY DEF ResetContext, WipeMetaBlocks, IInv, ScratchHeaderInv
<1>3. pc # "wipe_second" => header[a] = ErasedHeader
  BY DEF ResetContext, WipeMetaBlocks, IInv, FormatInv, ControlInv, WipePcs
<1>4. header'[a] = ErasedHeader /\ header'[s] = ErasedHeader
  BY <1>1, <1>2, <1>3 DEF ResetContext, WipeMetaBlocks, StartErase, FinishErase, IInv, TypeOK
<1>5. ~SomeValid'
  BY <1>1, <1>4, ErasedIsInvalid DEF SomeValid, IsValid, its_mblock_validate_header_meta,
     its_mblock_validate_swap_count
<1> QED
  BY <1>5 DEF BootInv

\* its_flash_fs_mblock_init keeps the inductive invariant.
LEMMA InvBoot == IInv /\ its_flash_fs_mblock_init => IInv'
<1> SUFFICES ASSUME IInv, its_flash_fs_mblock_init PROVE IInv'
  OBVIOUS
<1>1. BootInv'
  BY BootKeptWhenQuiet
<1> USE BlockFacts, ValueTypes, ConfigAssumption
    DEF its_flash_fs_mblock_init, IInv, TypeOK, flash, ram, MetaBlocks, ITS_OTHER_META_BLOCK
<1>2. TypeOK'
  BY ActiveIsMeta DEF Pcs
<1>3. ControlInv'
  BY DEF ControlInv, IdlePcs, UpdatePcs, WipePcs
<1>4. ContextInv'
  BY DEF ContextInv, ControlInv, IdlePcs, UpdatePcs, WipePcs, SomeValid, IsValid,
     its_init_get_active_metablock, its_mblock_validate_header_meta,
     its_mblock_validate_swap_count, ErasedHeader, ScratchHeaderInv
<1>5. UpdateInv'
  BY DEF UpdateInv, ControlInv, UpdatePcs, WipePcs, GoodBlock, IsValid, UpdatedBody
<1>6. ScratchHeaderInv'
  BY DEF ScratchHeaderInv, IdlePcs, UpdatePcs, WipePcs, ErasedHeader, Headers,
     ControlInv, ContextInv
<1>7. FormatInv'
  BY DEF FormatInv, ScratchHeaderInv, ContextInv, ControlInv, IdlePcs, UpdatePcs,
     WipePcs, SomeValid, IsValid, its_init_get_active_metablock,
     its_mblock_validate_header_meta, ErasedHeader, its_mblock_validate_swap_count
<1>8. ErasedInv'
  BY DEF ErasedInv, ContextInv, IdlePcs, UpdatePcs
<1> QED
  BY <1>1, <1>2, <1>3, <1>4, <1>5, <1>6, <1>7, <1>8

\* CreateLayout keeps the inductive invariant.
LEMMA InvCreateLayout == IInv /\ CreateLayout => IInv'
<1> SUFFICES ASSUME IInv, CreateLayout PROVE IInv'
  OBVIOUS
<1>1. BootInv'
  BY BootKeptWhenQuiet
<1> USE BlockFacts, ValueTypes, ConfigAssumption
    DEF CreateLayout, IInv, TypeOK, flash, ram, MetaBlocks, ITS_OTHER_META_BLOCK,
        its_flash_fs_wipe_all
<1>2. TypeOK'
  BY DEF Pcs
<1>3. ControlInv'
  BY DEF ControlInv, IdlePcs, UpdatePcs, WipePcs
<1>4. ContextInv'
  BY DEF ContextInv, ControlInv, IdlePcs, UpdatePcs, WipePcs, SomeValid, IsValid,
     its_init_get_active_metablock, its_mblock_validate_header_meta,
     its_mblock_validate_swap_count, ErasedHeader, ScratchHeaderInv
<1>5. UpdateInv'
  BY DEF UpdateInv, ControlInv, UpdatePcs, WipePcs, GoodBlock, IsValid, UpdatedBody
<1>6. ScratchHeaderInv'
  BY DEF ScratchHeaderInv, IdlePcs, UpdatePcs, WipePcs, ErasedHeader, Headers,
     ControlInv, ContextInv
<1>7. FormatInv'
  BY DEF FormatInv, ScratchHeaderInv, ContextInv, ControlInv, IdlePcs, UpdatePcs,
     WipePcs, SomeValid, IsValid, its_init_get_active_metablock,
     its_mblock_validate_header_meta, ErasedHeader, its_mblock_validate_swap_count
<1>8. ErasedInv'
  BY DEF ErasedInv, ContextInv, IdlePcs, UpdatePcs
<1> QED
  BY <1>1, <1>2, <1>3, <1>4, <1>5, <1>6, <1>7, <1>8

\* PrepareFails keeps the inductive invariant.
LEMMA InvPrepareFails == IInv /\ PrepareFails => IInv'
<1> SUFFICES ASSUME IInv, PrepareFails PROVE IInv'
  OBVIOUS
<1>1. BootInv'
  BY BootKeptWhenQuiet
<1> USE BlockFacts, ValueTypes, ConfigAssumption
    DEF PrepareFails, IInv, TypeOK, flash, ram, MetaBlocks, ITS_OTHER_META_BLOCK,
        its_flash_fs_wipe_all
<1>a. /\ SomeValid' = SomeValid
      /\ its_init_get_active_metablock' = its_init_get_active_metablock
  BY DEF SomeValid, IsValid, its_init_get_active_metablock
<1>2. TypeOK'
  BY ActiveIsMeta DEF Pcs
<1>3. ControlInv'
  BY DEF ControlInv, IdlePcs, UpdatePcs, WipePcs
<1>4. ContextInv'
  BY <1>a, ActiveIsMeta DEF ContextInv, IdlePcs, UpdatePcs
<1>5. UpdateInv'
  BY DEF UpdateInv, ControlInv, UpdatePcs, WipePcs, GoodBlock, IsValid, UpdatedBody
<1>6. ScratchHeaderInv'
  BY DEF ScratchHeaderInv, IdlePcs, UpdatePcs, WipePcs, ErasedHeader, Headers,
     ControlInv, ContextInv
<1>7. FormatInv'
  BY <1>a, ActiveIsMeta DEF FormatInv, UpdatePcs
<1>8. ErasedInv'
  BY DEF ErasedInv, ContextInv, IdlePcs, UpdatePcs
<1> QED
  BY <1>1, <1>2, <1>3, <1>4, <1>5, <1>6, <1>7, <1>8

\* EraseScratchMeta keeps the inductive invariant.
LEMMA InvEraseScratchMeta == IInv /\ EraseScratchMeta => IInv'
<1> SUFFICES ASSUME IInv, EraseScratchMeta PROVE IInv'
  OBVIOUS
<1>1. BootInv'
  BY BootKeptByScratch
<1> USE BlockFacts, ValueTypes, ConfigAssumption
    DEF EraseScratchMeta, IInv, TypeOK, flash, ram, MetaBlocks, ITS_OTHER_META_BLOCK,
        StartErase, FinishErase
<1>2. TypeOK'
  BY DEF Headers, Bodies, Updates, Pcs, UpdatePcs
<1>3. ControlInv'
  BY DEF ControlInv, IdlePcs, UpdatePcs, WipePcs
<1>4. ContextInv'
  BY DEF ContextInv, ControlInv, IdlePcs, UpdatePcs, WipePcs, SomeValid, IsValid,
     its_init_get_active_metablock, its_mblock_validate_header_meta,
     its_mblock_validate_swap_count, ErasedHeader, ScratchHeaderInv
<1>5. UpdateInv'
  BY DEF UpdateInv, ControlInv, UpdatePcs, WipePcs, GoodBlock, IsValid, UpdatedBody
<1>6. ScratchHeaderInv'
  BY DEF ScratchHeaderInv, IdlePcs, UpdatePcs, WipePcs, ErasedHeader, Headers,
     ControlInv, ContextInv
<1>7. FormatInv'
  BY DEF FormatInv, ScratchHeaderInv, ContextInv, ControlInv, IdlePcs, UpdatePcs,
     WipePcs, SomeValid, IsValid, its_init_get_active_metablock,
     its_mblock_validate_header_meta, ErasedHeader, its_mblock_validate_swap_count
<1>8. ErasedInv'
  BY MarkedFacts DEF ErasedInv, ContextInv, IdlePcs, UpdatePcs
<1> QED
  BY <1>1, <1>2, <1>3, <1>4, <1>5, <1>6, <1>7, <1>8

\* EraseScratchData keeps the inductive invariant.
LEMMA InvEraseScratchData == IInv /\ EraseScratchData => IInv'
<1> SUFFICES ASSUME IInv, EraseScratchData PROVE IInv'
  OBVIOUS
<1>1. BootInv'
  BY BootKeptWhenQuiet
<1> USE BlockFacts, ValueTypes, ConfigAssumption
    DEF EraseScratchData, IInv, TypeOK, flash, ram, MetaBlocks, ITS_OTHER_META_BLOCK
<1>a. meta_block_header.scratch_dblock \in DBlocks
  BY DEF ContextInv, ControlInv, BootInv, GoodBlock, IdlePcs, WipePcs, UpdatePcs
<1>2. TypeOK'
  BY DEF Headers, Bodies, Updates, Pcs, UpdatePcs
<1>3. ControlInv'
  BY DEF ControlInv, IdlePcs, UpdatePcs, WipePcs
<1>4. ContextInv'
  BY DEF ContextInv, ControlInv, IdlePcs, UpdatePcs, WipePcs, SomeValid, IsValid,
     its_init_get_active_metablock, its_mblock_validate_header_meta,
     its_mblock_validate_swap_count, ErasedHeader, ScratchHeaderInv
<1>5. UpdateInv'
  BY DEF UpdateInv, ControlInv, UpdatePcs, WipePcs, GoodBlock, IsValid, UpdatedBody
<1>6. ScratchHeaderInv'
  BY DEF ScratchHeaderInv, IdlePcs, UpdatePcs, WipePcs, ErasedHeader, Headers,
     ControlInv, ContextInv
<1>7. FormatInv'
  BY DEF FormatInv, ScratchHeaderInv, ContextInv, ControlInv, IdlePcs, UpdatePcs,
     WipePcs, SomeValid, IsValid, its_init_get_active_metablock,
     its_mblock_validate_header_meta, ErasedHeader, its_mblock_validate_swap_count
<1>8. ErasedInv'
  BY <1>a DEF ErasedInv
<1> QED
  BY <1>1, <1>2, <1>3, <1>4, <1>5, <1>6, <1>7, <1>8

\* WipeMetaBlocks keeps the inductive invariant.
LEMMA InvWipeMetaBlocks == IInv /\ WipeMetaBlocks => IInv'
<1> SUFFICES ASSUME IInv, WipeMetaBlocks PROVE IInv'
  OBVIOUS
<1>1. BootInv'
  <2>1. pc \in {"wipe_first", "wiping_first"} \/ pc \in {"wipe_second", "wiping_second"}
    BY DEF WipeMetaBlocks
  <2> QED
    BY <2>1, BootKeptByScratch, BootKeptByFormat
<1> USE BlockFacts, ValueTypes, ConfigAssumption
    DEF WipeMetaBlocks, IInv, TypeOK, flash, ram, MetaBlocks, ITS_OTHER_META_BLOCK,
        StartErase, FinishErase
<1>2. TypeOK'
  BY DEF Headers, Bodies, Updates, Pcs, UpdatePcs
<1>3. ControlInv'
  BY DEF ControlInv, IdlePcs, UpdatePcs, WipePcs
<1>4. ContextInv'
  BY DEF ContextInv, ControlInv, IdlePcs, UpdatePcs, WipePcs, SomeValid, IsValid,
     its_init_get_active_metablock, its_mblock_validate_header_meta,
     its_mblock_validate_swap_count, ErasedHeader, ScratchHeaderInv
<1>5. UpdateInv'
  BY DEF UpdateInv, ControlInv, UpdatePcs, WipePcs, GoodBlock, IsValid, UpdatedBody
<1>6. ScratchHeaderInv'
  BY DEF ScratchHeaderInv, IdlePcs, UpdatePcs, WipePcs, ErasedHeader, Headers,
     ControlInv, ContextInv
<1>7. FormatInv'
  <2>1. CASE pc = "wipe_first"
    BY <2>1 DEF SomeValid, IsValid, its_init_get_active_metablock, UpdatePcs,
       its_mblock_validate_header_meta, its_mblock_validate_swap_count,
          ErasedHeader, ContextInv, FormatInv
  <2>2. CASE pc = "wiping_first"
    BY <2>2 DEF SomeValid, IsValid, its_init_get_active_metablock, FormatInv, UpdatePcs
  <2>3. CASE pc \in {"wipe_second", "wiping_second"}
    BY <2>3 DEF FormatInv, ContextInv, ControlInv, WipePcs, UpdatePcs
  <2> QED
    BY <2>1, <2>2, <2>3
<1>8. ErasedInv'
  BY MarkedFacts DEF ErasedInv, ContextInv, IdlePcs, UpdatePcs
<1> QED
  BY <1>1, <1>2, <1>3, <1>4, <1>5, <1>6, <1>7, <1>8

\* ResetContext keeps the inductive invariant.
LEMMA InvResetContext == IInv /\ ResetContext => IInv'
<1> SUFFICES ASSUME IInv, ResetContext PROVE IInv'
  OBVIOUS
<1>1. BootInv'
  BY BootKeptByFormat
<1> USE BlockFacts, ValueTypes, ConfigAssumption
    DEF ResetContext, IInv, TypeOK, flash, ram, MetaBlocks, ITS_OTHER_META_BLOCK
<1>2. TypeOK'
  <2>1. meta_block_header' \in Headers
    BY DEF Headers, SwapCounts, ITS_SUPPORTED_VERSION
  <2> QED
    BY <2>1 DEF Contents, Pcs, UpdatePcs
<1>3. ControlInv'
  BY DEF ControlInv, IdlePcs, UpdatePcs, WipePcs
<1>4. ContextInv'
  BY DEF ContextInv, ControlInv, IdlePcs, UpdatePcs, WipePcs, SomeValid, IsValid,
     its_init_get_active_metablock, its_mblock_validate_header_meta,
     its_mblock_validate_swap_count, ErasedHeader, ScratchHeaderInv
<1>5. UpdateInv'
  BY DEF UpdateInv, ControlInv, UpdatePcs, WipePcs, GoodBlock, IsValid, UpdatedBody
<1>6. ScratchHeaderInv'
  <2>1. header[0] = ErasedHeader /\ header[1] = ErasedHeader
    BY DEF ScratchHeaderInv, FormatInv, ContextInv, ControlInv, WipePcs
  <2> QED
    BY <2>1 DEF ScratchHeaderInv
<1>7. FormatInv'
  BY DEF FormatInv, ScratchHeaderInv, ContextInv, ControlInv, IdlePcs, UpdatePcs,
     WipePcs, SomeValid, IsValid, its_init_get_active_metablock,
     its_mblock_validate_header_meta, ErasedHeader, its_mblock_validate_swap_count
<1>8. ErasedInv'
  BY MarkedFacts DEF ErasedInv, ContextInv, IdlePcs, UpdatePcs
<1> QED
  BY <1>1, <1>2, <1>3, <1>4, <1>5, <1>6, <1>7, <1>8

\* WipeDataBlocks keeps the inductive invariant.
LEMMA InvWipeDataBlocks == IInv /\ WipeDataBlocks => IInv'
<1> SUFFICES ASSUME IInv, WipeDataBlocks PROVE IInv'
  OBVIOUS
<1>1. BootInv'
  BY BootKeptWhenQuiet
<1> USE BlockFacts, ValueTypes, ConfigAssumption
    DEF WipeDataBlocks, IInv, TypeOK, flash, ram, MetaBlocks, ITS_OTHER_META_BLOCK
<1>2. TypeOK'
  BY DEF Headers, Bodies, Updates, Pcs, UpdatePcs
<1>3. ControlInv'
  BY DEF ControlInv, IdlePcs, UpdatePcs, WipePcs
<1>4. ContextInv'
  BY DEF ContextInv, ControlInv, IdlePcs, UpdatePcs, WipePcs, SomeValid, IsValid,
     its_init_get_active_metablock, its_mblock_validate_header_meta,
     its_mblock_validate_swap_count, ErasedHeader, ScratchHeaderInv
<1>5. UpdateInv'
  BY DEF UpdateInv, ControlInv, UpdatePcs, WipePcs, GoodBlock, IsValid, UpdatedBody
<1>6. ScratchHeaderInv'
  BY DEF ScratchHeaderInv, IdlePcs, UpdatePcs, WipePcs, ErasedHeader, Headers,
     ControlInv, ContextInv
<1>7. FormatInv'
  BY DEF FormatInv, ScratchHeaderInv, ContextInv, ControlInv, IdlePcs, UpdatePcs,
     WipePcs, SomeValid, IsValid, its_init_get_active_metablock,
     its_mblock_validate_header_meta, ErasedHeader, its_mblock_validate_swap_count
<1>8. ErasedInv'
  BY DEF ErasedInv, ContextInv, IdlePcs, UpdatePcs
<1> QED
  BY <1>1, <1>2, <1>3, <1>4, <1>5, <1>6, <1>7, <1>8

\* FinishData keeps the inductive invariant.
LEMMA InvFinishData == IInv /\ FinishData => IInv'
<1> SUFFICES ASSUME IInv, FinishData PROVE IInv'
  OBVIOUS
<1>1. BootInv'
  BY BootKeptWhenQuiet
<1> USE BlockFacts, ValueTypes, ConfigAssumption
    DEF FinishData, IInv, TypeOK, flash, ram, MetaBlocks, ITS_OTHER_META_BLOCK
<1>a. /\ ~formatting /\ upd.val \in Values /\ upd.lblock \in LBlocks /\ NumBlocks > 2
      /\ upd.phy_id = header[active_metablock].scratch_dblock
      /\ upd.phy_id \in DBlocks
      /\ body[active_metablock].phy_id[upd.lblock] \in DBlocks
      /\ meta_block_header = header[active_metablock]
      /\ GoodBlock(active_metablock)
  BY DEF ControlInv, UpdateInv, ContextInv, UpdatePcs, WipePcs, GoodBlock, Updates
<1>2. TypeOK'
  <2>1. meta_block_header' \in Headers
    BY <1>a DEF Headers
  <2> QED
    BY <1>a, <2>1 DEF Pcs, UpdatePcs
<1>3. ControlInv'
  BY DEF ControlInv, IdlePcs, UpdatePcs, WipePcs
<1>4. ContextInv'
  BY DEF ContextInv, ControlInv, IdlePcs, UpdatePcs, WipePcs, SomeValid, IsValid,
     its_init_get_active_metablock, its_mblock_validate_header_meta,
     its_mblock_validate_swap_count, ErasedHeader, ScratchHeaderInv
<1>5. UpdateInv'
  <2>1. GoodBlock(active_metablock)'
    BY <1>a DEF GoodBlock, IsValid
  <2> QED
    BY <1>a, <2>1 DEF UpdateInv, GoodBlock, IsValid,
       its_mblock_validate_header_meta, Headers
<1>6. ScratchHeaderInv'
  BY DEF ScratchHeaderInv, IdlePcs, UpdatePcs, WipePcs, ErasedHeader, Headers,
     ControlInv, ContextInv
<1>7. FormatInv'
  BY DEF FormatInv, ScratchHeaderInv, ContextInv, ControlInv, IdlePcs, UpdatePcs,
     WipePcs, SomeValid, IsValid, its_init_get_active_metablock,
     its_mblock_validate_header_meta, ErasedHeader, its_mblock_validate_swap_count
<1>8. ErasedInv'
  BY DEF ErasedInv, ContextInv, IdlePcs, UpdatePcs
<1> QED
  BY <1>1, <1>2, <1>3, <1>4, <1>5, <1>6, <1>7, <1>8

\* StartBody keeps the inductive invariant.
LEMMA InvStartBody == IInv /\ StartBody => IInv'
<1> SUFFICES ASSUME IInv, StartBody PROVE IInv'
  OBVIOUS
<1>1. BootInv'
  BY BootKeptByScratch
<1> USE BlockFacts, ValueTypes, ConfigAssumption
    DEF StartBody, IInv, TypeOK, flash, ram, MetaBlocks, ITS_OTHER_META_BLOCK
<1>a. ~formatting
  BY DEF ControlInv, WipePcs
<1>b. GoodBlock(active_metablock)'
  <2>1. GoodBlock(active_metablock)
    BY <1>a DEF UpdateInv, UpdatePcs
  <2>2. body'[active_metablock] = body[active_metablock]
    BY DEF ContextInv
  <2> QED
    BY <2>1, <2>2 DEF GoodBlock, IsValid
<1>2. TypeOK'
  BY DEF Headers, Bodies, Updates, Pcs, UpdatePcs
<1>3. ControlInv'
  BY DEF ControlInv, IdlePcs, UpdatePcs, WipePcs
<1>4. ContextInv'
  BY DEF ContextInv, ControlInv, IdlePcs, UpdatePcs, WipePcs, SomeValid, IsValid,
     its_init_get_active_metablock, its_mblock_validate_header_meta,
     its_mblock_validate_swap_count, ErasedHeader, ScratchHeaderInv
<1>5. UpdateInv'
  BY <1>a, <1>b DEF UpdateInv, UpdatePcs, ContextInv
<1>6. ScratchHeaderInv'
  BY DEF ScratchHeaderInv, IdlePcs, UpdatePcs, WipePcs, ErasedHeader, Headers,
     ControlInv, ContextInv
<1>7. FormatInv'
  BY DEF FormatInv, ScratchHeaderInv, ContextInv, ControlInv, IdlePcs, UpdatePcs,
     WipePcs, SomeValid, IsValid, its_init_get_active_metablock,
     its_mblock_validate_header_meta, ErasedHeader, its_mblock_validate_swap_count
<1>8. ErasedInv'
  BY MarkedFacts DEF ErasedInv, ContextInv, IdlePcs, UpdatePcs
<1> QED
  BY <1>1, <1>2, <1>3, <1>4, <1>5, <1>6, <1>7, <1>8

\* FinishBody keeps the inductive invariant.
LEMMA InvFinishBody == IInv /\ FinishBody => IInv'
<1> SUFFICES ASSUME IInv, FinishBody PROVE IInv'
  OBVIOUS
<1>1. BootInv'
  BY BootKeptByScratch
<1> USE BlockFacts, ValueTypes, ConfigAssumption
    DEF FinishBody, IInv, TypeOK, flash, ram, MetaBlocks, ITS_OTHER_META_BLOCK
<1>a. PICK new \in IF formatting THEN {FormattedBody} ELSE ProgrammedBodies :
         body' = [body EXCEPT ![scratch_metablock] = new]
  OBVIOUS
<1>d. /\ new \in Bodies /\ new.lb0 # Marked
      /\ new.lb0 = Damaged => Merging
      /\ formatting => new = FormattedBody
      /\ ~formatting => new \in {UpdatedBody, DamagedBody}
  BY <1>a, ProgrammedFacts, MarkedFacts
<1>b. ~formatting => GoodBlock(active_metablock)'
  <2>1. ~formatting => GoodBlock(active_metablock)
    BY DEF UpdateInv, UpdatePcs
  <2>2. body'[active_metablock] = body[active_metablock]
    BY DEF ContextInv
  <2> QED
    BY <2>1, <2>2 DEF GoodBlock, IsValid
<1>c. UpdatedBody' = UpdatedBody /\ DamagedBody' = DamagedBody
  <2>1. body'[active_metablock] = body[active_metablock]
    BY DEF ContextInv
  <2> QED
    BY <2>1 DEF UpdatedBody, DamagedBody
<1>2. TypeOK'
  BY <1>a, <1>d DEF Pcs, UpdatePcs
<1>3. ControlInv'
  BY DEF ControlInv, IdlePcs, UpdatePcs, WipePcs
<1>4. ContextInv'
  BY DEF ContextInv, ControlInv, IdlePcs, UpdatePcs, WipePcs, SomeValid, IsValid,
     its_init_get_active_metablock, its_mblock_validate_header_meta,
     its_mblock_validate_swap_count, ErasedHeader, ScratchHeaderInv
<1>5. UpdateInv'
  BY <1>a, <1>b, <1>c, <1>d DEF UpdateInv, UpdatePcs, ContextInv
<1>6. ScratchHeaderInv'
  BY DEF ScratchHeaderInv, IdlePcs, UpdatePcs, WipePcs, ErasedHeader, Headers,
     ControlInv, ContextInv
<1>7. FormatInv'
  BY <1>a, <1>d DEF FormatInv, ScratchHeaderInv, ContextInv, ControlInv, IdlePcs, UpdatePcs,
     WipePcs, SomeValid, IsValid, its_init_get_active_metablock,
     its_mblock_validate_header_meta, ErasedHeader, its_mblock_validate_swap_count
<1>8. ErasedInv'
  BY <1>a, <1>d DEF ErasedInv, ContextInv, IdlePcs, UpdatePcs
<1> QED
  BY <1>1, <1>2, <1>3, <1>4, <1>5, <1>6, <1>7, <1>8

\* Writing the swap count, the last member of the header, makes the scratch
\* metadata block complete and the one a boot would choose.
LEMMA LastMemberCommits ==
  ASSUME IInv, pc = "write_swap_count", its_mblock_write_scratch_meta_header
  PROVE  /\ SomeValid'
         /\ its_init_get_active_metablock' = scratch_metablock
         /\ GoodBlock(scratch_metablock)'
<1> USE BlockFacts, ConfigAssumption
    DEF its_mblock_write_scratch_meta_header, IInv, TypeOK, ram, MetaBlocks,
        ITS_OTHER_META_BLOCK
<1> DEFINE a == active_metablock
           s == scratch_metablock
           h == meta_block_header
           c == header[a].active_swap_count
<1>1. s = 1 - a /\ s # a /\ header'[a] = header[a]
  BY DEF ContextInv
<1>2. header'[s] = h /\ h.fs_version = ITS_SUPPORTED_VERSION
  <2>1. h.fs_version = ITS_SUPPORTED_VERSION /\ h \in Headers /\ header[s] \in Headers
    BY DEF UpdateInv, FormatInv, Headers, UpdatePcs
  <2>2. header[s].scratch_dblock = h.scratch_dblock /\ header[s].fs_version = ITS_SUPPORTED_VERSION
    BY <2>1 DEF ScratchHeaderInv, Headers
  <2>3. header'[s] = [header[s] EXCEPT !.active_swap_count = h.active_swap_count]
    OBVIOUS
  <2> QED
    BY <2>1, <2>2, <2>3 DEF Headers
<1>3. CASE formatting
  <2>1. /\ header'[a] = ErasedHeader
        /\ h.scratch_dblock = its_init_scratch_dblock
        /\ its_mblock_validate_swap_count(h.active_swap_count)
        /\ body[s] = FormattedBody
    BY <1>1, <1>3 DEF FormatInv, UpdatePcs
  <2>2. IsValid(s)' /\ ~IsValid(a)'
    BY <1>2, <2>1 DEF IsValid, its_mblock_validate_header_meta,
       its_mblock_validate_swap_count, ErasedHeader
  <2>3. GoodBlock(s)'
    BY <1>2, <2>1, <2>2, ValuesAssumption DEF GoodBlock, FormattedBody
  <2> QED
    BY <1>1, <2>2, <2>3 DEF SomeValid, its_init_get_active_metablock
<1>4. CASE ~formatting
  <2>1. /\ GoodBlock(a) /\ c \in SwapCounts /\ c # EraseVal
        /\ h.active_swap_count = NextSwapCount(c)
        /\ body[s] \in {UpdatedBody, DamagedBody}
        /\ upd.val \in Values
    BY <1>4 DEF UpdateInv, UpdatePcs, GoodBlock, IsValid, Headers,
       its_mblock_validate_header_meta, its_mblock_validate_swap_count
  <2>2. /\ its_mblock_latest_meta_block(c, NextSwapCount(c)) = 1
        /\ its_mblock_latest_meta_block(NextSwapCount(c), c) = 0
        /\ its_mblock_validate_swap_count(NextSwapCount(c))
    BY <2>1, LatestIsNext
  <2>3. IsValid(s)' /\ IsValid(a)'
    BY <1>1, <1>2, <2>1, <2>2 DEF IsValid, GoodBlock, its_mblock_validate_header_meta
  <2>4. its_init_get_active_metablock' = s
    BY <1>1, <1>2, <2>1, <2>2, <2>3 DEF its_init_get_active_metablock
  <2>5. GoodBlock(s)'
    <3>1. /\ h.scratch_dblock = IF upd.lblock = 0 THEN header[a].scratch_dblock
                                ELSE body[a].phy_id[upd.lblock]
          /\ upd.lblock # 0 => NumBlocks > 2 /\ upd.phy_id = header[a].scratch_dblock
          /\ upd.lblock \in LBlocks \cup {0}
      BY <1>4 DEF UpdateInv, UpdatePcs, Updates
    <3>2. \A l \in LBlocks : body[s].phy_id[l] =
            IF l = upd.lblock THEN upd.phy_id ELSE body[a].phy_id[l]
      BY <2>1, BodyForms DEF UpdatedBody
    <3>3. body[s].lb0 # Torn
      BY <2>1, BodyForms, ValuesAssumption
    <3> QED
      BY <1>2, <2>1, <2>3, <3>1, <3>2, <3>3 DEF GoodBlock
  <2> QED
    BY <2>3, <2>4, <2>5 DEF SomeValid
<1> QED
  BY <1>3, <1>4

\* Writing the members of the header in order keeps the inductive invariant; the
\* last one makes the scratch metadata block the one a boot would choose.
LEMMA InvWriteHeader == IInv /\ its_mblock_write_scratch_meta_header => IInv'
<1> SUFFICES ASSUME IInv, its_mblock_write_scratch_meta_header PROVE IInv'
  OBVIOUS
<1> USE BlockFacts, ConfigAssumption
    DEF its_mblock_write_scratch_meta_header, IInv, TypeOK, ram, MetaBlocks,
        ITS_OTHER_META_BLOCK
<1> DEFINE a == active_metablock
           s == scratch_metablock
           h == meta_block_header
<1>a. s = 1 - a /\ s # a /\ header'[a] = header[a] /\ pc \in UpdatePcs
  BY DEF ContextInv, UpdatePcs
<1>b. pc = "write_header" =>
        /\ h.active_swap_count \in SwapCounts
        /\ its_mblock_validate_swap_count(h.active_swap_count)
  BY <1>a DEF UpdateInv, FormatInv, GoodBlock, IsValid, Headers,
     its_mblock_validate_header_meta
<1>c. pc = "write_header" =>
        /\ NextSwapCount(h.active_swap_count) \in SwapCounts
        /\ its_mblock_validate_swap_count(NextSwapCount(h.active_swap_count))
  BY <1>b, LatestIsNext DEF its_mblock_validate_swap_count
<1>d. h \in Headers /\ header[s] \in Headers /\ header[a] \in Headers
  OBVIOUS
<1>e. h' \in Headers /\ h'.scratch_dblock = h.scratch_dblock /\ h'.fs_version = h.fs_version
  BY <1>a, <1>c, <1>d DEF Headers
<1>f. /\ pc = "write_header" => header'[s] =
           [scratch_dblock |-> h.scratch_dblock, fs_version |-> EraseVal,
            active_swap_count |-> EraseVal]
      /\ pc = "write_version" => header'[s] =
           [scratch_dblock |-> h.scratch_dblock, fs_version |-> h.fs_version,
            active_swap_count |-> EraseVal]
      /\ pc = "write_swap_count" => header'[s] = h /\ h' = h
  <2>1. CASE pc = "write_header"
    <3>1. header[s] = [scratch_dblock |-> NoBlock, fs_version |-> EraseVal,
                       active_swap_count |-> EraseVal]
      BY <2>1 DEF ScratchHeaderInv, ErasedHeader
    <3> QED
      BY <2>1, <3>1
  <2>2. CASE pc = "write_version"
    <3>1. h.fs_version = ITS_SUPPORTED_VERSION
      BY <1>a, <2>2 DEF UpdateInv, FormatInv, Headers
    <3>2. header[s] = [scratch_dblock |-> h.scratch_dblock, fs_version |-> EraseVal,
                       active_swap_count |-> EraseVal]
      BY <2>2 DEF ScratchHeaderInv, ErasedHeader
    <3> QED
      BY <2>2, <3>2
  <2>3. CASE pc = "write_swap_count"
    <3>1. h.fs_version = ITS_SUPPORTED_VERSION
      BY <1>a, <2>3 DEF UpdateInv, FormatInv, Headers
    <3>2. /\ header[s].scratch_dblock = h.scratch_dblock
          /\ header[s].fs_version = ITS_SUPPORTED_VERSION
      BY <1>d, <2>3, <3>1 DEF ScratchHeaderInv, Headers
    <3>3. header'[s] = [header[s] EXCEPT !.active_swap_count = h.active_swap_count]
      BY <2>3
    <3> QED
      BY <1>d, <2>3, <3>1, <3>2, <3>3 DEF Headers
  <2> QED
    BY <2>1, <2>2, <2>3
<1>1. TypeOK'
  <2>1. header'[s] \in Headers
    BY <1>d, <1>f DEF Headers, SwapCounts, its_mblock_write_scratch_meta_header
  <2>2. header' \in [MetaBlocks -> Headers]
    BY <1>a, <1>d, <2>1
  <2> QED
    BY <1>e, <2>2 DEF Pcs, UpdatePcs
<1>2. ControlInv'
  BY DEF ControlInv, WipePcs, UpdatePcs
<1>3. UpdateInv'
  <2> SUFFICES ASSUME ~formatting PROVE UpdateInv'
    BY DEF UpdateInv
  <2>1. GoodBlock(a)'
    BY <1>a DEF UpdateInv, GoodBlock, IsValid
  <2>2. UpdatedBody' = UpdatedBody /\ DamagedBody' = DamagedBody
    BY DEF UpdatedBody, DamagedBody
  <2>3. CASE pc = "write_header"
    <3>1. h'.active_swap_count = NextSwapCount(header[a].active_swap_count)
      BY <1>d, <2>3 DEF UpdateInv, UpdatePcs, Headers
    <3> QED
      BY <1>a, <1>e, <2>1, <2>2, <2>3, <3>1 DEF UpdateInv, UpdatePcs
  <2>4. CASE pc # "write_header"
    BY <1>a, <1>e, <2>1, <2>2, <2>4 DEF UpdateInv, UpdatePcs
  <2> QED
    BY <2>3, <2>4
<1>4. ScratchHeaderInv'
  <2>1. CASE pc = "write_header"
    BY <1>e, <1>f, <2>1 DEF ScratchHeaderInv, IdlePcs, ErasedHeader
  <2>2. CASE pc = "write_version"
    <3>1. header'[s] = [h EXCEPT !.active_swap_count = EraseVal]
      BY <1>d, <1>f, <2>2 DEF Headers
    <3> QED
      BY <2>2, <3>1 DEF ScratchHeaderInv, IdlePcs
  <2>3. CASE pc = "write_swap_count"
    BY <1>f, <2>3 DEF ScratchHeaderInv, IdlePcs
  <2> QED
    BY <2>1, <2>2, <2>3
<1>5. FormatInv'
  <2>1. pc = "write_header" =>
          its_mblock_validate_swap_count(h'.active_swap_count)
    BY <1>c, <1>d DEF Headers
  <2>2. CASE pc = "write_header"
    BY <1>a, <1>e, <2>1, <2>2 DEF FormatInv, UpdatePcs
  <2>3. CASE pc # "write_header"
    BY <1>a, <2>3 DEF FormatInv, UpdatePcs
  <2> QED
    BY <2>2, <2>3
<1>6. ErasedInv'
  BY DEF ErasedInv
<1>7. CASE pc # "write_swap_count"
  <2>1. ~IsValid(s)' /\ ~IsValid(s) /\ IsValid(a)' = IsValid(a)
    BY <1>a, <1>f, <1>7 DEF IsValid, its_mblock_validate_header_meta, ScratchHeaderInv,
       its_mblock_validate_swap_count, ErasedHeader
  <2>2. /\ SomeValid' = SomeValid
        /\ SomeValid => /\ its_init_get_active_metablock = a
                        /\ its_init_get_active_metablock' = a
    BY <1>a, <2>1 DEF SomeValid, its_init_get_active_metablock
  <2>3. GoodBlock(a) => GoodBlock(a)'
    BY <1>a, <2>1 DEF GoodBlock
  <2>4. BootInv'
    BY <2>2, <2>3 DEF BootInv, GoodBlock, IsValid
  <2>5. ContextInv'
    BY <1>a, <1>7, <2>2 DEF ContextInv, UpdatePcs, IdlePcs
  <2> QED
    BY <1>1, <1>2, <1>3, <1>4, <1>5, <1>6, <2>4, <2>5
<1>8. CASE pc = "write_swap_count"
  <2>1. ContextInv'
    BY <1>a, <1>8 DEF ContextInv, IdlePcs, UpdatePcs
  <2>2. GoodBlock(s)'
    BY <1>8, LastMemberCommits
  <2>3. its_init_get_active_metablock' = s
    BY <1>8, LastMemberCommits
  <2>4. BootInv'
    BY <2>2, <2>3 DEF BootInv, GoodBlock, IsValid
  <2> QED
    BY <1>1, <1>2, <1>3, <1>4, <1>5, <1>6, <2>1, <2>4
<1> QED
  BY <1>7, <1>8

\* SwapMetablocks keeps the inductive invariant.
LEMMA InvSwapMetablocks == IInv /\ SwapMetablocks => IInv'
<1> SUFFICES ASSUME IInv, SwapMetablocks PROVE IInv'
  OBVIOUS
<1>1. BootInv'
  BY BootKeptWhenQuiet
<1> USE BlockFacts, ValueTypes, ConfigAssumption
    DEF SwapMetablocks, IInv, TypeOK, flash, ram, MetaBlocks, ITS_OTHER_META_BLOCK
<1>2. TypeOK'
  BY DEF Headers, Bodies, Updates, Pcs, UpdatePcs
<1>3. ControlInv'
  BY DEF ControlInv, IdlePcs, UpdatePcs, WipePcs
<1>4. ContextInv'
  <2>1. CASE formatting
    BY <2>1 DEF ContextInv, IdlePcs, UpdatePcs
  <2>2. CASE ~formatting
    <3> DEFINE a == active_metablock
               c == header[a].active_swap_count
    <3>1. /\ IsValid(a) /\ c \in SwapCounts /\ c # EraseVal
          /\ header[scratch_metablock] = meta_block_header
          /\ meta_block_header.fs_version = ITS_SUPPORTED_VERSION
          /\ meta_block_header.active_swap_count = NextSwapCount(c)
      BY <2>2 DEF UpdateInv, GoodBlock, IsValid, Headers, ScratchHeaderInv,
         its_mblock_validate_header_meta, its_mblock_validate_swap_count
    <3>2. /\ its_mblock_latest_meta_block(c, NextSwapCount(c)) = 1
          /\ its_mblock_latest_meta_block(NextSwapCount(c), c) = 0
          /\ its_mblock_validate_swap_count(NextSwapCount(c))
      BY <3>1, LatestIsNext
    <3>3. its_init_get_active_metablock = scratch_metablock /\ SomeValid
      BY <3>1, <3>2 DEF its_init_get_active_metablock, SomeValid, IsValid, ContextInv,
         its_mblock_validate_header_meta
    <3>4. (SomeValid /\ its_init_get_active_metablock = active_metablock)'
      BY <3>3 DEF its_init_get_active_metablock, SomeValid, IsValid
    <3> QED
      BY <2>2, <3>1, <3>4 DEF ContextInv, IdlePcs, UpdatePcs
  <2> QED
    BY <2>1, <2>2
<1>5. UpdateInv'
  BY DEF UpdateInv, ControlInv, UpdatePcs, WipePcs, GoodBlock, IsValid, UpdatedBody
<1>6. ScratchHeaderInv'
  BY DEF ScratchHeaderInv, IdlePcs, UpdatePcs, WipePcs, ErasedHeader, Headers,
     ControlInv, ContextInv
<1>7. FormatInv'
  BY DEF FormatInv, ScratchHeaderInv, ContextInv, ControlInv, IdlePcs, UpdatePcs,
     WipePcs, SomeValid, IsValid, its_init_get_active_metablock,
     its_mblock_validate_header_meta, ErasedHeader, its_mblock_validate_swap_count
<1>8. ErasedInv'
  BY DEF ErasedInv, ContextInv, IdlePcs, UpdatePcs
<1> QED
  BY <1>1, <1>2, <1>3, <1>4, <1>5, <1>6, <1>7, <1>8

\* Crash keeps the inductive invariant.
LEMMA InvCrash == IInv /\ Crash => IInv'
<1> SUFFICES ASSUME IInv, Crash PROVE IInv'
  OBVIOUS
<1>1. BootInv'
  BY BootKeptWhenQuiet
<1> USE BlockFacts, ValueTypes, ConfigAssumption
    DEF Crash, IInv, TypeOK, flash, ram, MetaBlocks, ITS_OTHER_META_BLOCK
<1>2. TypeOK'
  BY DEF Headers, Bodies, Updates, Pcs, UpdatePcs
<1>3. ControlInv'
  BY DEF ControlInv, IdlePcs, UpdatePcs, WipePcs
<1>4. ContextInv'
  BY DEF ContextInv, ControlInv, IdlePcs, UpdatePcs, WipePcs, SomeValid, IsValid,
     its_init_get_active_metablock, its_mblock_validate_header_meta,
     its_mblock_validate_swap_count, ErasedHeader, ScratchHeaderInv
<1>5. UpdateInv'
  BY DEF UpdateInv, ControlInv, UpdatePcs, WipePcs, GoodBlock, IsValid, UpdatedBody
<1>6. ScratchHeaderInv'
  BY DEF ScratchHeaderInv, IdlePcs, UpdatePcs, WipePcs, ErasedHeader, Headers,
     ControlInv, ContextInv
<1>7. FormatInv'
  BY DEF FormatInv, ScratchHeaderInv, ContextInv, ControlInv, IdlePcs, UpdatePcs,
     WipePcs, SomeValid, IsValid, its_init_get_active_metablock,
     its_mblock_validate_header_meta, ErasedHeader, its_mblock_validate_swap_count
<1>8. ErasedInv'
  BY DEF ErasedInv, ContextInv, IdlePcs, UpdatePcs
<1> QED
  BY <1>1, <1>2, <1>3, <1>4, <1>5, <1>6, <1>7, <1>8

\* Starting an update keeps the inductive invariant.
LEMMA InvStartUpdate ==
  ASSUME IInv, NEW l \in LBlocks \cup {0}, NEW v \in Values, StartUpdate(l, v)
  PROVE  IInv'
<1> USE BlockFacts, ValueTypes, ConfigAssumption
    DEF StartUpdate, IInv, TypeOK, ram, MetaBlocks, ITS_OTHER_META_BLOCK
<1> DEFINE a == active_metablock
           h == meta_block_header
<1>a. /\ ~formatting /\ SomeValid /\ its_init_get_active_metablock = a
      /\ h = header[a] /\ GoodBlock(a) /\ header[scratch_metablock] = ErasedHeader
      /\ scratch_metablock = 1 - a
  BY DEF ControlInv, ContextInv, BootInv, ScratchHeaderInv, WipePcs, IdlePcs, UpdatePcs
<1>b. l # 0 => NumBlocks > 2 /\ h.scratch_dblock \in DBlocks
  BY <1>a DEF GoodBlock
<1>c. /\ SomeValid' = SomeValid
      /\ its_init_get_active_metablock' = its_init_get_active_metablock
  BY DEF SomeValid, IsValid, its_init_get_active_metablock
<1>d. GoodBlock(a)'
  BY <1>a DEF GoodBlock, IsValid
<1>1. TypeOK'
  BY <1>b DEF Updates, Headers, Pcs, UpdatePcs
<1>2. BootInv'
  BY <1>a, <1>c, <1>d DEF BootInv, GoodBlock, IsValid
<1>3. ControlInv'
  BY <1>a, <1>b DEF ControlInv, WipePcs, UpdatePcs
<1>4. ContextInv'
  BY <1>a, <1>c DEF ContextInv, IdlePcs, UpdatePcs
<1>5. UpdateInv'
  BY <1>a, <1>b, <1>d DEF UpdateInv, GoodBlock, IsValid, its_mblock_validate_header_meta
<1>6. ScratchHeaderInv'
  BY <1>a DEF ScratchHeaderInv
<1>7. FormatInv'
  BY <1>a DEF FormatInv
<1>8. ErasedInv'
  BY DEF ErasedInv
<1> QED
  BY <1>1, <1>2, <1>3, <1>4, <1>5, <1>6, <1>7, <1>8

\* A refused replacement only touches the scratch metadata block.
LEMMA RefusalKeeps ==
  ASSUME IInv, RefuseReplacement
  PROVE  /\ UNCHANGED <<header, dblock, pc, formatting, ram, upd>> /\ pc = "ready"
         /\ scratch_metablock = 1 - active_metablock /\ active_metablock \in {0, 1}
         /\ body'[active_metablock] = body[active_metablock]
         /\ body'[scratch_metablock] = PartialBody(Marked)
         /\ SomeValid /\ its_init_get_active_metablock = active_metablock /\ ~formatting
  BY DEF RefuseReplacement, IInv, TypeOK, ContextInv, ControlInv, MetaBlocks,
     ITS_OTHER_META_BLOCK, IdlePcs, UpdatePcs, WipePcs

\* RefuseReplacement keeps the inductive invariant.
LEMMA InvRefuse == IInv /\ RefuseReplacement => IInv'
<1> SUFFICES ASSUME IInv, RefuseReplacement PROVE IInv'
  OBVIOUS
<1>a. /\ UNCHANGED <<header, dblock, pc, formatting, ram, upd>> /\ pc = "ready"
      /\ scratch_metablock = 1 - active_metablock /\ active_metablock \in {0, 1}
      /\ body'[active_metablock] = body[active_metablock]
      /\ body'[scratch_metablock] = PartialBody(Marked)
      /\ SomeValid /\ its_init_get_active_metablock = active_metablock /\ ~formatting
  BY RefusalKeeps
<1>b. /\ SomeValid' = SomeValid
      /\ its_init_get_active_metablock' = its_init_get_active_metablock
  BY <1>a, SameChoice
<1>c. GoodBlock(active_metablock)'
  BY <1>a DEF IInv, BootInv, GoodBlock, IsValid, ram
<1>1. TypeOK'
  BY <1>a, ValueTypes DEF RefuseReplacement, IInv, TypeOK, ram
<1>2. BootInv'
  BY <1>a, <1>b, <1>c DEF BootInv, GoodBlock, IsValid, ram
<1>3. ControlInv'
  BY <1>a DEF IInv, ControlInv
<1>4. ContextInv'
  BY <1>a, <1>b DEF IInv, ContextInv, ram
<1>5. UpdateInv'
  BY <1>a DEF UpdateInv, UpdatePcs
<1>6. ScratchHeaderInv'
  BY <1>a DEF IInv, ScratchHeaderInv, ram, IdlePcs
<1>7. FormatInv'
  BY <1>a DEF FormatInv
<1>8. ErasedInv'
  <2>1. Refusals /\ body' = [body EXCEPT ![scratch_metablock] = PartialBody(Marked)]
    BY DEF RefuseReplacement
  <2> QED
    BY <1>a, <2>1, MarkedFacts DEF IInv, TypeOK, ErasedInv, ram, MetaBlocks
<1> QED
  BY <1>1, <1>2, <1>3, <1>4, <1>5, <1>6, <1>7, <1>8 DEF IInv

\* A step that changes no variable keeps the inductive invariant.
LEMMA InvStutter == IInv /\ UNCHANGED vars => IInv'
<1> SUFFICES ASSUME IInv, UNCHANGED vars PROVE IInv'
  OBVIOUS
<1>1. /\ SomeValid' = SomeValid
      /\ its_init_get_active_metablock' = its_init_get_active_metablock
  BY SameChoice DEF vars
<1>2. ASSUME NEW b PROVE GoodBlock(b)' = GoodBlock(b)
  BY DEF vars, GoodBlock, IsValid
<1>3. TypeOK' /\ ControlInv' /\ ScratchHeaderInv' /\ ErasedInv'
  BY DEF IInv, vars, TypeOK, ControlInv, ScratchHeaderInv, ErasedInv
<1>4. BootInv' /\ ContextInv' /\ FormatInv'
  BY <1>1, <1>2 DEF IInv, vars, BootInv, ContextInv, FormatInv
<1>5. UpdateInv'
  BY <1>2 DEF IInv, vars, UpdateInv, UpdatedBody, DamagedBody
<1> QED
  BY <1>3, <1>4, <1>5 DEF IInv

\* Every step of the protocol and every crash keeps the inductive invariant.
LEMMA InvNext == IInv /\ [Next]_vars => IInv'
  BY InvBoot, InvCreateLayout, InvPrepareFails, InvEraseScratchMeta, InvEraseScratchData,
     InvWipeMetaBlocks, InvResetContext, InvWipeDataBlocks, InvFinishData, InvStartBody,
     InvFinishBody, InvWriteHeader, InvSwapMetablocks, InvCrash, InvStartUpdate, InvRefuse,
     InvStutter
  DEF Next, Step

\* The inductive invariant holds in every reachable state.
THEOREM InvariantHolds == Spec => []IInv
<1>1. Init => IInv
  BY InvInit
<1>2. IInv /\ [Next]_vars => IInv'
  BY InvNext
<1> QED
  BY <1>1, <1>2, PTL DEF Spec

\* Type correctness of flash, RAM context and control state.
THEOREM TypeCorrect == Spec => []TypeOK
<1>1. IInv => TypeOK
  BY DEF IInv
<1> QED
  BY <1>1, InvariantHolds, PTL

\* Between the commit and the swap in RAM a boot would choose the scratch block.
LEMMA SwapState ==
  ASSUME IInv, pc = "swap"
  PROVE  SomeValid /\ its_init_get_active_metablock = scratch_metablock
<1> USE DEF IInv, TypeOK, MetaBlocks, ITS_OTHER_META_BLOCK
<1> DEFINE a == active_metablock
           s == scratch_metablock
           c == header[a].active_swap_count
<1>1. s = 1 - a /\ header[s] = meta_block_header
  BY DEF ContextInv, ScratchHeaderInv
<1>2. CASE formatting
  <2>1. IsValid(s) /\ ~IsValid(a)
    BY <1>1, <1>2 DEF FormatInv, IsValid, its_mblock_validate_header_meta,
       its_mblock_validate_swap_count, ErasedHeader
  <2> QED
    BY <1>1, <2>1 DEF SomeValid, its_init_get_active_metablock
<1>3. CASE ~formatting
  <2>1. /\ IsValid(a) /\ c \in SwapCounts /\ c # EraseVal
        /\ meta_block_header.fs_version = ITS_SUPPORTED_VERSION
        /\ meta_block_header.active_swap_count = NextSwapCount(c)
    BY <1>3 DEF UpdateInv, GoodBlock, IsValid, Headers,
       its_mblock_validate_header_meta, its_mblock_validate_swap_count
  <2>2. /\ its_mblock_latest_meta_block(c, NextSwapCount(c)) = 1
        /\ its_mblock_latest_meta_block(NextSwapCount(c), c) = 0
        /\ its_mblock_validate_swap_count(NextSwapCount(c))
    BY <2>1, LatestIsNext
  <2>3. IsValid(s)
    BY <1>1, <2>1, <2>2 DEF IsValid, its_mblock_validate_header_meta
  <2> QED
    BY <1>1, <2>1, <2>2, <2>3 DEF SomeValid, its_init_get_active_metablock
<1> QED
  BY <1>2, <1>3

\* Whenever an update may start, its destinations, the scratch metadata block and
\* the scratch data block, are erased (its_flash_fs_mblock_meta_update_finalize()
\* and the boot erase them): the only programmed bytes that programming can meet
\* are those of an entry that a refused replacement left in the metadata block.
THEOREM ScratchErasedHolds == Spec => []ScratchErased
<1>1. IInv => ScratchErased
  BY MarkedFacts DEF IInv, TypeOK, ScratchErased, ErasedInv, ScratchHeaderInv, IdlePcs
<1> QED
  BY <1>1, InvariantHolds, PTL

\* The scratch data block, which an update or a boot erases, is never one that the
\* active metadata block maps.
THEOREM ScratchUnmappedHolds == Spec => []ScratchUnmapped
<1>1. IInv => ScratchUnmapped
  BY DEF IInv, ScratchUnmapped, ControlInv, ContextInv, BootInv, GoodBlock, IdlePcs,
     UpdatePcs, WipePcs
<1> QED
  BY <1>1, InvariantHolds, PTL

\* When the blocks are swapped in RAM, a boot would already find the update, with a
\* damaged file table at worst (its_mblock_swap_metablocks() after the header is
\* written).
THEOREM SwappedCommitted == Spec => []SwappedIsCommitted
<1>1. IInv => SwappedIsCommitted
  <2> SUFFICES ASSUME IInv, pc = "swap", ~formatting
               PROVE  /\ RecoveredImage.lb0 \in {upd.val} \cup (IF Merging THEN {Damaged} ELSE {})
                      /\ upd.lblock # 0 => RecoveredImage.data[upd.lblock] = upd.val
    BY DEF SwappedIsCommitted
  <2>1. SomeValid /\ its_init_get_active_metablock = scratch_metablock
    BY SwapState
  <2>2. /\ body[scratch_metablock] \in {UpdatedBody, DamagedBody}
        /\ body[scratch_metablock].lb0 = Damaged => Merging
        /\ upd.lblock # 0 => dblock[upd.phy_id] = upd.val
        /\ upd.lblock \in LBlocks \cup {0}
    BY DEF IInv, UpdateInv, ErasedInv, TypeOK, Updates
  <2>3. /\ body[scratch_metablock].lb0 \in {upd.val, Damaged}
        /\ upd.lblock # 0 => body[scratch_metablock].phy_id[upd.lblock] = upd.phy_id
    BY <2>2, BodyForms DEF UpdatedBody
  <2> QED
    BY <2>1, <2>2, <2>3 DEF RecoveredImage
<1> QED
  BY <1>1, InvariantHolds, PTL

\* The recovered image only depends on the metadata block a boot would choose
\* and on the data blocks it maps.
LEMMA SameImage ==
  ASSUME SomeValid' = SomeValid,
         SomeValid =>
           /\ its_init_get_active_metablock' = its_init_get_active_metablock
           /\ body'[its_init_get_active_metablock] = body[its_init_get_active_metablock]
           /\ \A l \in LBlocks :
                LET d == body[its_init_get_active_metablock].phy_id[l]
                IN  dblock'[d] = dblock[d]
  PROVE  RecoveredImage' = RecoveredImage
<1>1. CASE SomeValid
  BY <1>1 DEF RecoveredImage
<1>2. CASE ~SomeValid
  BY <1>2 DEF RecoveredImage
<1> QED
  BY <1>1, <1>2

\* Steps that change neither headers nor data blocks, and of the metadata blocks
\* at most one that a boot would not choose, are invisible after a reboot.
LEMMA QuietImage ==
  ASSUME IInv,
         \/ its_flash_fs_mblock_init \/ CreateLayout \/ PrepareFails \/ StartBody
         \/ FinishBody \/ RefuseReplacement \/ SwapMetablocks \/ Crash
         \/ UNCHANGED vars
  PROVE  RecoveredImage' = RecoveredImage
<1>1. UNCHANGED <<header, dblock>>
  BY DEF its_flash_fs_mblock_init, CreateLayout, PrepareFails, StartBody, FinishBody,
     RefuseReplacement, SwapMetablocks, Crash, vars, flash, its_flash_fs_wipe_all
<1>r. CASE RefuseReplacement
  BY <1>r, <1>1, RefusalKeeps, SameImage, SameChoice
<1>2. CASE StartBody \/ FinishBody
  <2>1. scratch_metablock # active_metablock /\ scratch_metablock \in MetaBlocks
    BY <1>2 DEF IInv, TypeOK, ContextInv, MetaBlocks, ITS_OTHER_META_BLOCK, StartBody, FinishBody
  <2>2. \A b \in MetaBlocks : b # scratch_metablock => body'[b] = body[b]
    BY <1>2, <2>1 DEF IInv, TypeOK, StartBody, FinishBody
  <2>3. ~IsValid(scratch_metablock)
    BY <1>2 DEF IInv, ScratchHeaderInv, StartBody, FinishBody, IsValid, ErasedHeader,
       its_mblock_validate_header_meta, its_mblock_validate_swap_count
  <2>4. SomeValid => its_init_get_active_metablock # scratch_metablock
    BY <2>1, <2>3 DEF SomeValid, its_init_get_active_metablock, MetaBlocks
  <2> QED
    BY <1>1, <2>2, <2>4, SameImage, SameChoice, ActiveIsMeta
<1>3. CASE ~(StartBody \/ FinishBody \/ RefuseReplacement)
  <2>1. UNCHANGED body
    BY <1>3 DEF its_flash_fs_mblock_init, CreateLayout, PrepareFails,
       SwapMetablocks, Crash, vars, flash, its_flash_fs_wipe_all
  <2> QED
    BY <1>1, <2>1, SameImage, SameChoice
<1> QED
  BY <1>r, <1>2, <1>3

\* Programming or erasing the scratch data block is invisible after a reboot.
LEMMA ScratchDataImage ==
  ASSUME IInv,
         \/ EraseScratchData
         \/ FinishData
         \/ \E l \in LBlocks \cup {0}, v \in Values : StartUpdate(l, v)
  PROVE  RecoveredImage' = RecoveredImage
<1> DEFINE a == active_metablock
<1>1. UNCHANGED <<header, body>>
  BY DEF EraseScratchData, FinishData, StartUpdate
<1>2. /\ pc \in IdlePcs \cup {"writing_data"} /\ ~formatting
      /\ SomeValid /\ its_init_get_active_metablock = a /\ GoodBlock(a)
      /\ meta_block_header = header[a]
      /\ pc = "writing_data" => upd.phy_id = header[a].scratch_dblock
  BY DEF EraseScratchData, FinishData, StartUpdate, IInv, ControlInv, ContextInv, BootInv,
     UpdateInv, IdlePcs, UpdatePcs, WipePcs
<1>3. \A d \in DBlocks : d # header[a].scratch_dblock => dblock'[d] = dblock[d]
  BY <1>2 DEF EraseScratchData, FinishData, StartUpdate, IInv, TypeOK
<1>4. \A l \in LBlocks : LET d == body[a].phy_id[l] IN dblock'[d] = dblock[d]
  BY <1>2, <1>3 DEF GoodBlock
<1> QED
  BY <1>1, <1>2, <1>4, SameImage, SameChoice

\* Erasing the scratch metadata block is invisible after a reboot.
LEMMA EraseMetaImage ==
  ASSUME IInv,
         EraseScratchMeta \/ (WipeMetaBlocks /\ pc \in {"wipe_first", "wiping_first"})
  PROVE  RecoveredImage' = RecoveredImage
<1> DEFINE a == active_metablock
           s == scratch_metablock
<1>1. /\ s = 1 - a /\ s \in {0, 1} /\ a \in {0, 1}
      /\ header'[a] = header[a] /\ body'[a] = body[a] /\ UNCHANGED dblock
  BY DEF EraseScratchMeta, WipeMetaBlocks, IInv, TypeOK, ContextInv, MetaBlocks,
     ITS_OTHER_META_BLOCK,
        StartErase, FinishErase
<1>2. header'[s] = ErasedHeader
  BY DEF EraseScratchMeta, WipeMetaBlocks, IInv, TypeOK, ScratchHeaderInv, IdlePcs,
     StartErase, FinishErase
<1>3. ~IsValid(s)' /\ IsValid(a)' = IsValid(a)
  <2>1. scratch_metablock' = s /\ active_metablock' = a
    BY DEF EraseScratchMeta, WipeMetaBlocks, ram
  <2> QED
    BY <1>1, <1>2, <2>1 DEF IsValid, its_mblock_validate_header_meta,
       its_mblock_validate_swap_count, ErasedHeader
<1>4. SomeValid => its_init_get_active_metablock = a /\ IsValid(a)
  <2>1. SomeValid => its_init_get_active_metablock = a
    BY DEF EraseScratchMeta, WipeMetaBlocks, IInv, ControlInv, ContextInv, FormatInv,
       IdlePcs, UpdatePcs, WipePcs
  <2> QED
    BY <2>1 DEF IInv, BootInv, GoodBlock
<1>5. /\ SomeValid' = SomeValid
      /\ SomeValid => its_init_get_active_metablock' = a
  <2>1. scratch_metablock' = s /\ active_metablock' = a
    BY DEF EraseScratchMeta, WipeMetaBlocks, ram
  <2> QED
    BY <1>1, <1>3, <1>4, <2>1 DEF SomeValid, its_init_get_active_metablock, MetaBlocks
<1> QED
  BY <1>1, <1>4, <1>5, SameImage

\* Erasing the active metadata block during a format discards the image, and
\* until the format commits there is none.
LEMMA WipeImage ==
  ASSUME IInv,
         \/ WipeMetaBlocks /\ pc \in {"wipe_second", "wiping_second"}
         \/ ResetContext
         \/ WipeDataBlocks
  PROVE  RecoveredImage' = Store!NoImage
<1>1. header'[0] = ErasedHeader /\ header'[1] = ErasedHeader
  BY DEF WipeMetaBlocks, ResetContext, WipeDataBlocks, IInv, TypeOK, ControlInv, ContextInv,
     ScratchHeaderInv, FormatInv, WipePcs, StartErase, FinishErase, MetaBlocks,
     ITS_OTHER_META_BLOCK
<1>2. ~SomeValid'
  BY <1>1 DEF SomeValid, IsValid, its_mblock_validate_header_meta,
     its_mblock_validate_swap_count, ErasedHeader, MetaBlocks
<1> QED
  BY <1>2 DEF RecoveredImage, Store!NoImage

\* With a valid metadata block there is an image.
LEMMA ImageExists ==
  IInv /\ SomeValid => RecoveredImage # Store!NoImage
  BY DEF IInv, BootInv, GoodBlock, RecoveredImage, Store!NoImage

\* Writing a member of the header is invisible, except that the last one formats
\* the store or commits the update.
LEMMA HeaderImage ==
  ASSUME IInv, its_mblock_write_scratch_meta_header
  PROVE  Store!Next \/ RecoveredImage' = RecoveredImage
<1> USE BlockFacts DEF IInv, TypeOK, MetaBlocks, ITS_OTHER_META_BLOCK
<1> DEFINE a == active_metablock
           s == scratch_metablock
<1>a. /\ s = 1 - a /\ header'[a] = header[a] /\ UNCHANGED <<body, dblock>>
      /\ active_metablock' = a /\ scratch_metablock' = s
      /\ pc \in UpdatePcs /\ pc # "writing_data"
  BY DEF its_mblock_write_scratch_meta_header, ram, ContextInv, UpdatePcs
<1>1. CASE pc # "write_swap_count"
  <2>1. ~IsValid(s)' /\ ~IsValid(s) /\ IsValid(a)' = IsValid(a)
    <3>1. header[s].active_swap_count = EraseVal
      BY <1>1 DEF its_mblock_write_scratch_meta_header, ScratchHeaderInv, ErasedHeader
    <3>2. header'[s].active_swap_count = EraseVal
      BY <1>1, <3>1 DEF its_mblock_write_scratch_meta_header, Headers
    <3> QED
      BY <1>a, <3>1, <3>2 DEF IsValid, its_mblock_validate_header_meta,
         its_mblock_validate_swap_count
  <2>2. /\ SomeValid' = SomeValid
        /\ SomeValid => its_init_get_active_metablock' = its_init_get_active_metablock
    BY <1>a, <2>1 DEF SomeValid, its_init_get_active_metablock
  <2> QED
    BY <1>a, <2>2, SameImage
<1>2. CASE pc = "write_swap_count" /\ formatting
  <2>1. ~SomeValid
    BY <1>a, <1>2 DEF FormatInv, ScratchHeaderInv, SomeValid, IsValid, Headers, ErasedHeader,
       its_mblock_validate_header_meta, its_mblock_validate_swap_count
  <2>2. RecoveredImage = Store!NoImage
    BY <2>1 DEF RecoveredImage, Store!NoImage
  <2>3. SomeValid' /\ its_init_get_active_metablock' = s
    BY <1>2, LastMemberCommits
  <2>4. /\ body'[s] = FormattedBody
        /\ \A l \in LBlocks : dblock'[l + 2] = Erased
    BY <1>a, <1>2 DEF FormatInv
  <2>5. RecoveredImage' = Store!FormattedImage
    <3>1. RecoveredImage' =
            [lb0 |-> body'[s].lb0,
             data |-> [l \in LBlocks |-> dblock'[body'[s].phy_id[l]]]]
      BY <2>3 DEF RecoveredImage
    <3>2. body'[s].lb0 = EmptyFs /\ \A l \in LBlocks : body'[s].phy_id[l] = l + 2
      BY <2>4 DEF FormattedBody
    <3>3. [l \in LBlocks |-> dblock'[body'[s].phy_id[l]]] = [l \in LBlocks |-> Erased]
      BY <2>4, <3>2
    <3> QED
      BY <3>1, <3>2, <3>3 DEF Store!FormattedImage
  <2> QED
    BY <2>2, <2>5 DEF Store!Next, Store!Format
<1>3. CASE pc = "write_swap_count" /\ ~formatting
  <2> DEFINE l == upd.lblock
             v == upd.val
  <2>1. SomeValid /\ its_init_get_active_metablock = a
    BY <1>a, <1>3 DEF ContextInv
  <2>2. SomeValid' /\ its_init_get_active_metablock' = s
    BY <1>3, LastMemberCommits
  <2>3. /\ body'[s] \in {UpdatedBody, DamagedBody}
        /\ body'[s].lb0 = Damaged => Merging
        /\ l # 0 => dblock[upd.phy_id] = v
        /\ l \in LBlocks \cup {0} /\ v \in Values
    BY <1>a, <1>3 DEF UpdateInv, ErasedInv, Updates
  <2>a. /\ body'[s].phy_id = UpdatedBody.phy_id
        /\ body'[s].lb0 = v \/ (Merging /\ body'[s].lb0 = Damaged)
    BY <2>3, BodyForms
  <2>4. RecoveredImage' = [lb0 |-> body'[s].lb0,
                           data |-> [m \in LBlocks |-> dblock[UpdatedBody.phy_id[m]]]]
    BY <1>a, <2>2, <2>a DEF RecoveredImage
  <2>5. RecoveredImage = [lb0 |-> body[a].lb0,
                          data |-> [m \in LBlocks |-> dblock[body[a].phy_id[m]]]]
    BY <2>1 DEF RecoveredImage
  <2>6. \A m \in LBlocks : dblock[UpdatedBody.phy_id[m]] =
                             IF m = l THEN v ELSE dblock[body[a].phy_id[m]]
    BY <2>3 DEF UpdatedBody
  <2>7. \/ RecoveredImage' = Store!Updated(RecoveredImage, l, v)
        \/ /\ Merging
           /\ RecoveredImage' = [Store!Updated(RecoveredImage, l, v) EXCEPT !.lb0 = Damaged]
    BY <2>4, <2>5, <2>6, <2>a DEF Store!Updated
  <2>8. RecoveredImage # Store!NoImage
    BY <2>1, ImageExists
  <2> QED
    BY <2>3, <2>7, <2>8 DEF Store!Next, Store!Commit, Store!Damage
<1> QED
  BY <1>1, <1>2, <1>3

\* The protocol implements the atomic store: through crashes at any point, what
\* a boot would find in flash changes only by whole updates and formats.  Only a
\* flash part that merges what is programmed twice, after a refused replacement,
\* may damage the file table of an update.
THEOREM Refinement == Spec => AtomicUpdates
<1>1. Init => Store!Init
  BY InvInit DEF Init, Store!Init, Store!NoImage, RecoveredImage, SomeValid, IsValid,
     its_mblock_validate_header_meta, its_mblock_validate_swap_count, ErasedHeader, MetaBlocks
<1>2. IInv /\ [Next]_vars => [Store!Next]_RecoveredImage
  <2> SUFFICES ASSUME IInv, [Next]_vars
               PROVE  Store!Next \/ RecoveredImage' = RecoveredImage
    OBVIOUS
  <2>1. CASE \/ its_flash_fs_mblock_init \/ CreateLayout \/ PrepareFails \/ StartBody
             \/ FinishBody \/ RefuseReplacement \/ SwapMetablocks \/ Crash
             \/ UNCHANGED vars
    BY <2>1, QuietImage
  <2>2. CASE \/ EraseScratchData \/ FinishData
             \/ \E l \in LBlocks \cup {0}, v \in Values : StartUpdate(l, v)
    BY <2>2, ScratchDataImage
  <2>3. CASE EraseScratchMeta \/ (WipeMetaBlocks /\ pc \in {"wipe_first", "wiping_first"})
    BY <2>3, EraseMetaImage
  <2>4. CASE \/ WipeMetaBlocks /\ pc \in {"wipe_second", "wiping_second"}
             \/ ResetContext \/ WipeDataBlocks
    BY <2>4, WipeImage DEF Store!Next, Store!Discard
  <2>5. CASE its_mblock_write_scratch_meta_header
    BY <2>5, HeaderImage
  <2> QED
    BY <2>1, <2>2, <2>3, <2>4, <2>5 DEF Next, Step, WipeMetaBlocks
<1> QED
  BY <1>1, <1>2, InvariantHolds, PTL DEF Spec, AtomicUpdates, Store!Spec

\* A power failure never costs the file system: outside of a format, a step that
\* starts with a valid metadata block (tfm_its_init() would not create a layout)
\* ends with one, because the active metadata block is left alone until another
\* one is valid.
THEOREM NeverLost == Spec => OnlyFormatLoses
<1>1. ASSUME IInv, Next, SomeValid, ~formatting
      PROVE  SomeValid'
  <2> DEFINE a == active_metablock
             s == scratch_metablock
  <2>1. CASE EraseScratchMeta \/ its_mblock_write_scratch_meta_header
    <3>1. /\ s = ITS_OTHER_META_BLOCK(a) /\ a \in MetaBlocks
          /\ its_init_get_active_metablock = a
      BY <1>1, <2>1 DEF EraseScratchMeta, its_mblock_write_scratch_meta_header, IInv,
         TypeOK, ContextInv, IdlePcs, UpdatePcs
    <3>2. IsValid(a)
      BY <1>1, <3>1 DEF IInv, BootInv, GoodBlock
    <3>3. header'[a] = header[a]
      BY <1>1, <2>1, <3>1 DEF EraseScratchMeta, its_mblock_write_scratch_meta_header,
         StartErase, FinishErase, IInv, TypeOK, MetaBlocks, ITS_OTHER_META_BLOCK
    <3> QED
      BY <3>1, <3>2, <3>3 DEF SomeValid, IsValid
  <2>2. CASE ~(EraseScratchMeta \/ its_mblock_write_scratch_meta_header)
    <3>1. ~WipeMetaBlocks
      BY <1>1 DEF IInv, ControlInv, WipePcs, WipeMetaBlocks
    <3>2. UNCHANGED header
      BY <1>1, <2>2, <3>1 DEF Next, Step, its_flash_fs_mblock_init, CreateLayout,
         PrepareFails, its_flash_fs_wipe_all, EraseScratchData, ResetContext,
         WipeDataBlocks, FinishData, StartBody, FinishBody, SwapMetablocks, StartUpdate,
         RefuseReplacement, Crash, flash
    <3> QED
      BY <1>1, <3>2, SameChoice
  <2> QED
    BY <2>1, <2>2
<1>2. IInv /\ [Next]_vars => [SomeValid /\ ~formatting => SomeValid']_vars
  BY <1>1
<1> QED
  BY <1>2, InvariantHolds, PTL DEF Spec, OnlyFormatLoses

=============================================================================
