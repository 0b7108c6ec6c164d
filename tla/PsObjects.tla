------------------------------ MODULE PsObjects ------------------------------
(***************************************************************************)
(* The protected storage service (secure_fw/partitions/protected_storage): *)
(* the object table with its two copies (ps_object_table.c), the object    *)
(* system above it (ps_object_system.c) and its start-up                   *)
(* (tfm_protected_storage.c), built with PS_ENCRYPTION and                 *)
(* PS_CREATE_FLASH_LAYOUT, with or without PS_ROLLBACK_PROTECTION.         *)
(*                                                                         *)
(* Objects and tables are files of the internal trusted storage.  Writing  *)
(* one takes two steps, because that service writes a file in chunks       *)
(* (ITS_BUF_SIZE): in between the file is torn and authenticates against   *)
(* no tag.  Every non-volatile step is an action of its own and power may  *)
(* fail between any two of them, and any call of another service may fail. *)
(* Two kinds of failures harm the store, and harmed remembers them: those  *)
(* of the alignment of counters 2 and 3 and those of start-up's own calls. *)
(*                                                                         *)
(* An object is abstracted to the number of the request that wrote it and  *)
(* its write-once flag; its tag, which the table keeps, to the object      *)
(* itself.  The tag of a table is abstracted to the counter it is bound to.*)
(***************************************************************************)
EXTENDS Naturals, FiniteSets, FiniteSetsExt

CONSTANTS
  Uids,         \* object identifiers (uid and client)
  NoUid,        \* TFM_PS_INVALID_UID
  NumEntries,   \* PS_OBJ_TABLE_ENTRIES
  FlashDefault, \* PS_FLASH_DEFAULT_VAL, which no swap count may be
  Builds,       \* values of PS_ROLLBACK_PROTECTION to look at
  Faults,       \* calls that may fail: "write", "remove", "incr", "align", "start"
  MaxRequests,  \* number of the last request that changes the store; the first one is in Init
  MaxCrashes,   \* bound on the power failures
  MaxErrors     \* bound on the failing calls

ASSUME PsAssumption ==
  /\ NoUid \notin Uids /\ Uids # {}
  /\ NumEntries \in Nat \ {0, 1}
  /\ FlashDefault \in Nat \ {0, 1, 2}
  /\ Builds \subseteq BOOLEAN
  /\ MaxRequests \in Nat \ {0} /\ MaxCrashes \in Nat /\ MaxErrors \in Nat

VARIABLES
  rollback,  \* PS_ROLLBACK_PROTECTION of this build
  harmed,    \* calls of HarmfulCalls that failed
  objFile,   \* the object file of every table index (PS_OBJECT_FS_ID)
  tabFile,   \* the two table files (PS_TABLE_FS_ID)
  nvc,       \* the three non-volatile counters
  ram,       \* ps_obj_table_ctx
  pc,        \* the non-volatile step the service is about to take
  op,        \* the operation the service works on
  res,       \* what the last request returned
  request,   \* number of the last request
  crashes, errors

vars == <<rollback, harmed, objFile, tabFile, nvc, ram, pc, op, res, request, crashes, errors>>

persistent == <<objFile, tabFile, nvc>>

HarmfulCalls == {"align", "start"}

Idx == 0 .. NumEntries - 1

NoIdx == NumEntries

Objects == [data : 1 .. MaxRequests, once : BOOLEAN]

NoObject == [data |-> 0, once |-> FALSE]

\* The contents of a file whose write was cut short; the tag of no object.
TornObject == [data |-> 0, once |-> TRUE]

FreeEntry == [uid |-> NoUid, tag |-> NoObject]

NoEntries == [i \in Idx |-> FreeEntry]

NoTable == [state |-> "none", db |-> NoEntries, swap |-> 0, nvc |-> 0]

TornTable == [state |-> "torn", db |-> NoEntries, swap |-> 0, nvc |-> 0]

Other(t) == 1 - t

\* The table the next save goes to.
scratch == Other(ram.active)

NoRam == [db |-> NoEntries, swap |-> 0, active |-> 0]

Operation(kind) ==
  [kind |-> kind, uid |-> NoUid, obj |-> NoObject,
   old |-> NoIdx, new |-> NoIdx, backup |-> NoEntries]

-----------------------------------------------------------------------------
(* The object table.                                                       *)

\* Index of uid u in a table, NoIdx if it has none.
ps_get_object_entry_idx(db, u) ==
  LET found == {i \in Idx : db[i].uid = u}
  IN  IF found = {} THEN NoIdx ELSE Min(found)

FreeIdx(db) == {i \in Idx : db[i].uid = NoUid}

\* The num-th free index, NoIdx if there are not so many.
ps_table_free_idx(db, num) ==
  LET enough == {i \in FreeIdx(db) : Cardinality({j \in FreeIdx(db) : j <= i}) = num}
  IN  IF enough = {} THEN NoIdx ELSE Min(enough)

\* The object of index i can be read: its file matches the tag in the table.
ps_encrypted_object_read(db, i) == objFile[i] = db[i].tag

\* The object of uid u according to a table; TornObject if it cannot be read.
ObjectIn(db, u) ==
  LET i == ps_get_object_entry_idx(db, u)
  IN  CASE i = NoIdx                        -> NoObject
        [] i # NoIdx /\ ps_encrypted_object_read(db, i) -> db[i].tag
        [] OTHER                            -> TornObject

\* The counter value with which table t authenticates, if any.  Counter 3 is
\* used only while it equals counter 2 and is not PS_INVALID_NVC_VALUE.
ps_object_table_authenticate(t) ==
  IF tabFile[t].state # "full" THEN "invalid"
  ELSE IF ~rollback THEN "valid"
  ELSE IF tabFile[t].nvc = nvc[1] THEN "nvc_1"
  ELSE IF nvc[3] = nvc[2] /\ nvc[3] # 0 /\ tabFile[t].nvc = nvc[3] THEN "nvc_3"
  ELSE "invalid"

\* Without roll-back protection the swap counts tell which table is later; 0
\* follows the largest count.
Later1(swap0, swap1) ==
  \/ swap1 = 0 /\ swap0 # 1
  \/ ~(swap0 = 0 /\ swap1 # 1) /\ swap1 > swap0

NoActive == 2

ps_set_active_object_table ==
  LET Valid(t) == ps_object_table_authenticate(t) # "invalid"
      one == IF rollback
             THEN ps_object_table_authenticate(1) = "nvc_1"
             ELSE Later1(tabFile[0].swap, tabFile[1].swap)
  IN  CASE ~Valid(0) /\ ~Valid(1) -> NoActive
        [] ~Valid(0) /\ Valid(1)  -> 1
        [] Valid(0) /\ ~Valid(1)  -> 0
        [] Valid(0) /\ Valid(1)   -> IF one THEN 1 ELSE 0

\* Mutant: the count of erased flash is not skipped.
MutNextSwapCountErased(swap) == swap + 1

NextSwapCount(swap) == IF swap + 1 = FlashDefault THEN 0 ELSE swap + 1

-----------------------------------------------------------------------------
(* A device that has never run the service, or one on which it stored one  *)
(* object, request 1, in either table and at any swap count.               *)

FirstObject == [data |-> 1, once |-> FALSE]

FirstEntries ==
  [NoEntries EXCEPT ![ps_table_free_idx(NoEntries, 2)] =
     [uid |-> CHOOSE u \in Uids : TRUE, tag |-> FirstObject]]

Fresh ==
  /\ objFile = [i \in Idx |-> NoObject]
  /\ tabFile = [t \in 0 .. 1 |-> NoTable]
  /\ nvc = <<0, 0, 0>>

Used ==
  \E t \in 0 .. 1, swap \in 0 .. FlashDefault - 1 :
    LET n == IF rollback THEN 2 + (1 - t) ELSE 0
    IN  /\ rollback => swap = 0
        /\ objFile = [i \in Idx |-> FirstEntries[i].tag]
        /\ tabFile = [s \in 0 .. 1 |-> IF s = t
                       THEN [state |-> "full", db |-> FirstEntries, swap |-> swap, nvc |-> n]
                       ELSE NoTable]
        /\ nvc = <<n, n, n>>

Init ==
  /\ rollback \in Builds
  /\ Fresh \/ Used
  /\ ram = NoRam
  /\ pc = "prepare" /\ op = Operation("boot") /\ res = "none"
  /\ request = 1 /\ crashes = 0 /\ errors = 0 /\ harmed = {}

\* A call fails: the service goes on where its error path leads.
Fault(call) ==
  /\ call \in Faults
  /\ errors < MaxErrors
  /\ errors' = errors + 1

\* A failure after which the service gives up something it had.
HarmfulFault(call) ==
  /\ Fault(call)
  /\ harmed' = harmed \cup {call}

Reply(r) ==
  /\ pc' = "idle"
  /\ res' = r

-----------------------------------------------------------------------------
(* Start-up: tfm_ps_init().                                                *)

\* ps_system_prepare() failed: the first time the storage is wiped, the second
\* time the partition panics, which resets the system.
PrepareFails ==
  /\ IF op.kind = "boot"
     THEN op' = Operation("wipe") /\ pc' = "create"
     ELSE op' = op /\ pc' = "panic"
  /\ UNCHANGED res

\* ps_object_table_init(): read and authenticate both tables, load the active one.
Prepare ==
  /\ pc = "prepare"
  /\ LET t == ps_set_active_object_table
     IN  IF t = NoActive
         THEN PrepareFails /\ UNCHANGED ram
         ELSE /\ ram' = [db |-> tabFile[t].db, swap |-> tabFile[t].swap, active |-> t]
              /\ pc' = "drop_scratch"
              /\ UNCHANGED <<op, res>>
  /\ UNCHANGED <<rollback, harmed, persistent, request, crashes, errors>>

\* Mutant: the file of the active table is removed.
MutDropScratchActive ==
  /\ pc = "drop_scratch"
  /\ tabFile' = [tabFile EXCEPT ![ram.active] = NoTable]
  /\ IF rollback THEN pc' = "align" /\ UNCHANGED res ELSE Reply("none")
  /\ UNCHANGED <<rollback, harmed, objFile, nvc, ram, op, request, crashes, errors>>

\* It removes the other table file, then aligns the counters.
DropScratch ==
  /\ pc = "drop_scratch"
  /\ tabFile' = [tabFile EXCEPT ![scratch] = NoTable]
  /\ IF rollback THEN pc' = "align" /\ UNCHANGED res ELSE Reply("none")
  /\ UNCHANGED <<rollback, harmed, objFile, nvc, ram, op, request, crashes, errors>>

\* Mutant: the empty table is not saved.
MutCreateWithoutSave ==
  /\ pc = "create"
  /\ ram' = [db |-> NoEntries, swap |-> 0, active |-> 1]
  /\ pc' = "prepare" /\ op' = Operation("again")
  /\ UNCHANGED <<rollback, harmed, persistent, res, request, crashes, errors>>

\* ps_object_table_create(): an empty table, to be saved as table 0.
ps_object_table_create ==
  /\ pc = "create"
  /\ ram' = [db |-> NoEntries, swap |-> 0, active |-> 1]
  /\ pc' = "save"
  /\ UNCHANGED <<rollback, harmed, persistent, op, res, request, crashes, errors>>

\* Start-up cannot set the key, read a counter, remove the scratch table or align
\* the counters: ps_system_prepare() fails as if there were no table.
StartFails ==
  /\ \/ pc \in {"prepare", "drop_scratch"}
     \/ pc = "align" /\ op.kind \in {"boot", "again"}
  /\ HarmfulFault("start")
  /\ PrepareFails
  /\ UNCHANGED <<rollback, persistent, ram, request, crashes>>

\* ps_object_table_fs_read_table() cannot read table t, which is then taken for
\* invalid; the other one is loaded.  (Without another one, as StartFails.)
TableUnreadable(t) ==
  /\ pc = "prepare"
  /\ ps_object_table_authenticate(Other(t)) # "invalid"
  /\ HarmfulFault("start")
  /\ ram' = [db |-> tabFile[Other(t)].db, swap |-> tabFile[Other(t)].swap,
             active |-> Other(t)]
  /\ pc' = "drop_scratch"
  /\ UNCHANGED <<rollback, persistent, op, res, request, crashes>>

-----------------------------------------------------------------------------
(* ps_object_table_save_table(), for a wipe, a set or a remove.            *)

\* The table is safe: a wipe prepares again, a request removes the old table.
SaveDone ==
  IF op.kind = "wipe"
  THEN op' = Operation("again") /\ pc' = "prepare"
  ELSE op' = op /\ pc' = "drop_table"

\* Mutant: the change of the table in RAM is not taken back.
MutSaveFailsKeepsRam ==
  IF op.kind = "wipe"
  THEN pc' = "panic" /\ UNCHANGED <<ram, res>>
  ELSE /\ ram' = ram
       /\ IF op.kind = "set" THEN pc' = "undo" /\ UNCHANGED res ELSE Reply("error")

\* A failed wipe makes tfm_ps_init() fail.  A failed request takes its change
\* of the table in RAM back; a set goes on to remove its new object file.
SaveFails ==
  IF op.kind = "wipe"
  THEN pc' = "panic" /\ UNCHANGED <<ram, res>>
  ELSE /\ ram' = [ram EXCEPT !.db = op.backup]
       /\ IF op.kind = "set" THEN pc' = "undo" /\ UNCHANGED res ELSE Reply("error")

\* Counter 1 is incremented, or the swap count, in RAM.
StartSave ==
  /\ pc = "save"
  /\ IF rollback
     THEN nvc' = [nvc EXCEPT ![1] = @ + 1] /\ UNCHANGED ram
     ELSE ram' = [ram EXCEPT !.swap = NextSwapCount(@)] /\ UNCHANGED nvc
  /\ pc' = "write_table"
  /\ UNCHANGED <<rollback, harmed, objFile, tabFile, op, res, request, crashes,
                 errors>>

IncrementFails ==
  /\ pc = "save"
  /\ rollback
  /\ Fault("incr")
  /\ SaveFails
  /\ UNCHANGED <<rollback, harmed, persistent, op, request, crashes>>

\* ps_object_table_fs_write_table() writes the scratch file ...
WriteTable ==
  /\ pc = "write_table"
  /\ tabFile' = [tabFile EXCEPT ![scratch] = TornTable]
  /\ pc' = "finish_table"
  /\ UNCHANGED <<rollback, harmed, objFile, nvc, ram, op, res, request, crashes,
                 errors>>

\* ... and exchanges active and scratch table.
FinishTable ==
  /\ pc = "finish_table"
  /\ tabFile' = [tabFile EXCEPT ![scratch] =
                  [state |-> "full", db |-> ram.db, swap |-> ram.swap,
                   nvc |-> IF rollback THEN nvc[1] ELSE 0]]
  /\ ram' = [ram EXCEPT !.active = scratch]
  /\ IF rollback THEN pc' = "align" /\ UNCHANGED op ELSE SaveDone
  /\ UNCHANGED <<rollback, harmed, objFile, nvc, res, request, crashes, errors>>

\* Generating the tag (before) or writing the file (before or after its first chunk) fails.
WriteTableFails ==
  /\ pc \in {"write_table", "finish_table"}
  /\ Fault("write")
  /\ SaveFails
  /\ UNCHANGED <<rollback, harmed, persistent, op, request, crashes>>

\* The counter that is next to be aligned with counter 1, or 0.
ToAlign == CASE nvc[2] < nvc[1] -> 2 [] nvc[2] >= nvc[1] /\ nvc[3] < nvc[1] -> 3 [] OTHER -> 0

\* ps_object_table_align_nv_counters(), one increment.
AlignStep ==
  /\ pc = "align"
  /\ ToAlign # 0
  /\ nvc' = [nvc EXCEPT ![ToAlign] = @ + 1]
  /\ UNCHANGED <<rollback, harmed, objFile, tabFile, ram, pc, op, res, request,
                 crashes, errors>>

AlignDone ==
  /\ pc = "align"
  /\ ToAlign = 0
  /\ IF op.kind \in {"boot", "again"} THEN Reply("none") /\ UNCHANGED op ELSE SaveDone /\ UNCHANGED res
  /\ UNCHANGED <<rollback, harmed, persistent, ram, request, crashes, errors>>

\* A counter cannot be read or incremented once the table of a wipe, a set or a
\* remove is in flash: the save is reported as failed and taken back in RAM, and
\* a set removes the object that the saved table names.
AlignFails ==
  /\ pc = "align" /\ op.kind \in {"wipe", "set", "remove"}
  /\ HarmfulFault("align")
  /\ SaveFails
  /\ UNCHANGED <<rollback, persistent, op, request, crashes>>

-----------------------------------------------------------------------------
(* Requests: tfm_ps_set() and tfm_ps_remove().                             *)

\* An existing object can be replaced or removed only if it can be read and is
\* not write-once.
Changeable(i) ==
  /\ ps_encrypted_object_read(ram.db, i)
  /\ ~ram.db[i].tag.once

\* Mutant: a new uid may take the last index.
MutNewIdxNoReserve(u) == ps_table_free_idx(ram.db, 1)

\* Mutant: an object is overwritten where it is.
MutNewIdxInPlace(u) ==
  IF ps_get_object_entry_idx(ram.db, u) = NoIdx
  THEN ps_table_free_idx(ram.db, 2)
  ELSE ps_get_object_entry_idx(ram.db, u)

\* The index for a set of uid u: a new uid must leave one index free.
NewIdx(u) ==
  IF ps_get_object_entry_idx(ram.db, u) = NoIdx
  THEN ps_table_free_idx(ram.db, 2)
  ELSE ps_table_free_idx(ram.db, 1)

CanSet(u) ==
  LET i == ps_get_object_entry_idx(ram.db, u)
  IN  (i # NoIdx => Changeable(i)) /\ NewIdx(u) # NoIdx

CanRemove(u) ==
  LET i == ps_get_object_entry_idx(ram.db, u)
  IN  i # NoIdx /\ Changeable(i)

\* ps_object_create(): the object to be replaced was read, an index is chosen.
ps_object_create(u, once) ==
  /\ pc = "idle" /\ request < MaxRequests
  /\ CanSet(u)
  /\ request' = request + 1
  /\ op' = [kind |-> "set", uid |-> u, obj |-> [data |-> request + 1, once |-> once],
            old |-> ps_get_object_entry_idx(ram.db, u), new |-> NewIdx(u), backup |-> ram.db]
  /\ pc' = "free_fid"
  /\ UNCHANGED <<rollback, harmed, persistent, ram, res, crashes, errors>>

\* ps_object_delete(): the entry is deleted in RAM and the table is saved.
ps_object_delete(u) ==
  /\ pc = "idle" /\ request < MaxRequests
  /\ CanRemove(u)
  /\ request' = request + 1
  /\ LET i == ps_get_object_entry_idx(ram.db, u)
     IN  /\ op' = [Operation("remove") EXCEPT !.uid = u, !.old = i, !.backup = ram.db]
         /\ ram' = [ram EXCEPT !.db[i] = FreeEntry]
  /\ pc' = "save"
  /\ UNCHANGED <<rollback, harmed, persistent, res, crashes, errors>>

\* ps_object_read() and ps_object_get_info()
ps_object_read(u) ==
  /\ pc = "idle"
  /\ ps_get_object_entry_idx(ram.db, u) # NoIdx
  /\ op' = Operation("query")
  /\ res' = IF ObjectIn(ram.db, u) = TornObject THEN "error" ELSE "ok"
  /\ UNCHANGED <<rollback, harmed, persistent, ram, pc, request, crashes, errors>>

\* A request that the service refuses changes nothing.
Refuse(u) ==
  /\ pc = "idle"
  /\ ~(CanSet(u) /\ CanRemove(u))
  /\ res' = "error"
  /\ op' = Operation("query")
  /\ UNCHANGED <<rollback, harmed, persistent, ram, pc, request, crashes, errors>>

\* ps_object_table_get_free_fid(): a file left behind by an interrupted
\* operation is removed.
ps_object_table_get_free_fid ==
  /\ pc = "free_fid"
  /\ objFile' = [objFile EXCEPT ![op.new] = NoObject]
  /\ pc' = "write_object"
  /\ UNCHANGED <<rollback, harmed, tabFile, nvc, ram, op, res, request, crashes,
                 errors>>

FreeFidFails ==
  /\ pc = "free_fid"
  /\ Fault("remove")
  /\ Reply("error")
  /\ UNCHANGED <<rollback, harmed, persistent, ram, op, request, crashes>>

\* ps_encrypted_object_write()
WriteObject ==
  /\ pc = "write_object"
  /\ objFile' = [objFile EXCEPT ![op.new] = TornObject]
  /\ pc' = "finish_object"
  /\ UNCHANGED <<rollback, harmed, tabFile, nvc, ram, op, res, request, crashes,
                 errors>>

WriteObjectFails ==
  /\ pc \in {"write_object", "finish_object"}
  /\ Fault("write")
  /\ Reply("error")
  /\ UNCHANGED <<rollback, harmed, persistent, ram, op, request, crashes>>

\* ps_object_table_set_obj_tbl_info() changes the table in RAM.
Replaced(db, u, new, obj) ==
  [i \in Idx |-> IF i = new THEN [uid |-> u, tag |-> obj]
                 ELSE IF db[i].uid = u THEN FreeEntry ELSE db[i]]

FinishObject ==
  /\ pc = "finish_object"
  /\ objFile' = [objFile EXCEPT ![op.new] = op.obj]
  /\ ram' = [ram EXCEPT !.db = Replaced(@, op.uid, op.new, op.obj)]
  /\ pc' = "save"
  /\ UNCHANGED <<rollback, harmed, tabFile, nvc, op, res, request, crashes, errors>>

\* The new object file is removed when its table could not be saved.  An error of
\* the removal is ignored, and the bound on errors does not count it.
UndoSet ==
  /\ pc = "undo"
  /\ \/ objFile' = [objFile EXCEPT ![op.new] = NoObject]
     \/ "remove" \in Faults /\ UNCHANGED objFile
  /\ Reply("error")
  /\ UNCHANGED <<rollback, harmed, tabFile, nvc, ram, op, request, crashes, errors>>

\* Mutant: the new table is removed instead of the old one.
MutDropActiveTable ==
  /\ pc = "drop_table"
  /\ tabFile' = [tabFile EXCEPT ![ram.active] = NoTable]
  /\ CASE tabFile[scratch] = NoTable -> Reply("error")
       [] op.old = NoIdx             -> Reply("ok")
       [] OTHER                      -> pc' = "drop_object" /\ UNCHANGED res
  /\ UNCHANGED <<rollback, harmed, objFile, nvc, ram, op, request, crashes, errors>>

\* ps_object_table_delete_old_table(), then ps_remove_old_data().  Removing a
\* file that is not there is an error.
DropTable ==
  /\ pc = "drop_table"
  /\ tabFile' = [tabFile EXCEPT ![scratch] = NoTable]
  /\ CASE tabFile[scratch] = NoTable -> Reply("error")
       [] op.old = NoIdx             -> Reply("ok")
       [] OTHER                      -> pc' = "drop_object" /\ UNCHANGED res
  /\ UNCHANGED <<rollback, harmed, objFile, nvc, ram, op, request, crashes, errors>>

DropObject ==
  /\ pc = "drop_object"
  /\ objFile' = [objFile EXCEPT ![op.old] = NoObject]
  /\ Reply(IF objFile[op.old] = NoObject THEN "error" ELSE "ok")
  /\ UNCHANGED <<rollback, harmed, tabFile, nvc, ram, op, request, crashes, errors>>

DropFails ==
  /\ pc \in {"drop_table", "drop_object"}
  /\ Fault("remove")
  /\ Reply("error")
  /\ UNCHANGED <<rollback, harmed, persistent, ram, op, request, crashes>>

-----------------------------------------------------------------------------

Restart ==
  /\ pc' = "prepare" /\ op' = Operation("boot") /\ res' = "none"
  /\ ram' = NoRam
  /\ UNCHANGED <<rollback, harmed, persistent, request, errors>>

\* Power fails between two steps.
Crash ==
  /\ crashes < MaxCrashes
  /\ crashes' = crashes + 1
  /\ Restart

\* psa_panic() resets the system.
Panic ==
  /\ pc = "panic"
  /\ Restart
  /\ UNCHANGED crashes

Step ==
  \/ Prepare \/ DropScratch \/ ps_object_table_create
  \/ StartFails \/ (\E t \in 0 .. 1 : TableUnreadable(t))
  \/ StartSave \/ IncrementFails \/ WriteTable \/ FinishTable \/ WriteTableFails
  \/ AlignStep \/ AlignDone \/ AlignFails
  \/ ps_object_table_get_free_fid \/ FreeFidFails
  \/ WriteObject \/ WriteObjectFails \/ FinishObject
  \/ UndoSet
  \/ DropTable \/ DropObject \/ DropFails
  \/ Panic

Next ==
  \/ Step
  \/ \E u \in Uids : \/ \E once \in BOOLEAN : ps_object_create(u, once)
                     \/ ps_object_delete(u)
                     \/ ps_object_read(u)
                     \/ Refuse(u)
  \/ Crash

Spec == Init /\ [][Next]_vars

\* The service runs whenever there is something to do; errors and power
\* failures are bounded, so eventually it runs undisturbed.
FairSpec == Spec /\ WF_vars(Step)

-----------------------------------------------------------------------------
(* Properties.                                                             *)

Phases ==
  {"prepare", "drop_scratch", "create", "save", "write_table", "finish_table", "align",
   "idle", "free_fid", "write_object", "finish_object", "undo", "drop_table",
   "drop_object", "panic"}

Files == Objects \cup {NoObject, TornObject}

Tables == [Idx -> [uid : Uids \cup {NoUid}, tag : Files]]

\* The values of the variables: files, counters, the table in RAM with its swap
\* count, which never is the value of erased flash, and the operation at work.
TypeOK ==
  /\ rollback \in BOOLEAN /\ harmed \subseteq HarmfulCalls
  /\ objFile \in [Idx -> Files]
  /\ tabFile \in [0 .. 1 -> [state : {"none", "torn", "full"}, db : Tables,
                             swap : 0 .. FlashDefault - 1, nvc : Nat]]
  /\ nvc \in [1 .. 3 -> Nat]
  /\ ram \in [db : Tables, swap : 0 .. FlashDefault - 1, active : 0 .. 1]
  /\ pc \in Phases
  /\ op \in [kind : {"boot", "again", "wipe", "set", "remove", "query"},
             uid : Uids \cup {NoUid}, obj : Files, old : 0 .. NumEntries,
             new : 0 .. NumEntries, backup : Tables]
  /\ res \in {"none", "ok", "error"}
  /\ request \in 0 .. MaxRequests /\ crashes \in 0 .. MaxCrashes /\ errors \in 0 .. MaxErrors

\* The service runs with a table in RAM that stands for the store.
Running == pc \notin {"prepare", "create", "panic"} /\ op.kind # "wipe"

\* The table that counts: the one a boot would load; if a boot would load none,
\* the one the running service works with, before the change it is saving.
CommittedTable ==
  CASE ps_set_active_object_table # NoActive -> tabFile[ps_set_active_object_table].db
    [] ps_set_active_object_table = NoActive /\ Running ->
         IF pc \in {"save", "write_table", "finish_table"} THEN op.backup ELSE ram.db
    [] OTHER -> NoEntries

\* (The set binds the table to a value, which TLC then computes only once.)
store == CHOOSE s \in {[u \in Uids |-> ObjectIn(db, u)] : db \in {CommittedTable}} : TRUE

\* No table in flash is bound to the current value of counter 1, and there is
\* something to lose.
loose ==
  /\ rollback
  /\ \A t \in 0 .. 1 : ps_object_table_authenticate(t) # "nvc_1"
  /\ Running \/ ps_set_active_object_table # NoActive

Abstract == INSTANCE PsStore WITH harmed <- harmed # {}

\* The service implements the abstract store: through any power failures, and
\* errors of the writes, the removals and the increment of counter 1 that sets,
\* removes and wipes make, the store changes by whole objects and only as the
\* request at work says, contents never return, a write-once object stays, and
\* the store is lost only while counter 1 is ahead of the table.  Nothing is said
\* of a store once start-up's own calls or an alignment of the counters failed.
StoreImplemented == Abstract!Spec

\* At rest the table in RAM, from which get and get_info are served, agrees with
\* what is committed, also after power failures, after a start-up that failed and
\* after requests that failed at a write, a removal or the increment of counter 1
\* and were taken back; every object can be read; no uid has two entries.  It is
\* not so after an alignment failed: the table that was saved stays in flash.
ReadsCommitted ==
  pc = "idle" /\ "align" \notin harmed =>
    /\ \A u \in Uids : ObjectIn(ram.db, u) = store[u] /\ store[u] # TornObject
    /\ \A i, j \in Idx : ram.db[i].uid = ram.db[j].uid /\ ram.db[i].uid # NoUid => i = j

\* A set or remove that reported success is in the store that a boot would find.
SuccessIsDurable ==
  pc = "idle" /\ res = "ok" /\ op.kind \in {"set", "remove"} =>
    /\ store[op.uid] = op.obj
    /\ ~loose /\ ps_set_active_object_table # NoActive

\* A free index remains at rest, so that an existing object can always be
\* replaced: the reserve of ps_object_table_get_free_fid().
SpareIndex == pc = "idle" => FreeIdx(ram.db) # {}

\* Removing the old table and the old object never meets a missing file, which
\* would make a committed request report an error and keep the old object.
OldDataPresent ==
  /\ pc = "drop_table" => tabFile[scratch].state # "none"
  /\ pc = "drop_object" => objFile[op.old] # NoObject

\* Whatever was interrupted, the service comes to rest again and serves requests.
ComesToRest == []<>(pc = "idle")

\* Objects leave the store only when the table of a request is written.
OnlyRequestsRemove ==
  [][\A u \in Uids : store[u] # NoObject /\ store'[u] = NoObject =>
        pc = "finish_table" /\ op.uid = u]_vars

=============================================================================
