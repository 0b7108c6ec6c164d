----------------------------- MODULE PsStoreProofs ----------------------------
(***************************************************************************)
(* The protected storage service implements PsStore.  Every step leaves    *)
(* the committed table alone, or moves from the table before to the table  *)
(* after the request at work, or loses a table that the counters do not    *)
(* vouch for.                                                              *)
(***************************************************************************)
EXTENDS PsObjectsProofs

\* What a readable table says of every uid.
Contents(db) ==
  [u \in Uids |-> LET i == ps_get_object_entry_idx(db, u)
                  IN  IF i = NoIdx THEN NoObject ELSE db[i].tag]

\* No object is younger than request n.
Upto(db, n) == \A i \in Idx : db[i].uid # NoUid => db[i].tag.data <= n

Working == Change /\ (Creating \/ Saving \/ Saved)

\* The change of the request at work: from op.backup to the table in RAM.
RequestInv ==
  /\ Upto(ram.db, request) /\ Upto(op.backup, request)
  /\ \A t \in 0 .. 1 : Upto(tabFile[t].db, request)
  /\ Working =>
       /\ \A i \in Idx : op.backup[i].uid = op.uid => ~op.backup[i].tag.once
       /\ op.kind = "set" => op.obj.data = request /\ Upto(op.backup, request - 1)
  /\ Change /\ (Saving \/ Saved) =>
       /\ op.kind = "set" => /\ op.new \in Idx /\ op.backup[op.new].uid = NoUid
                             /\ ram.db = Replaced(op.backup, op.uid, op.new, op.obj)
       /\ op.kind = "remove" => /\ op.old \in Idx /\ op.backup[op.old].uid = op.uid
                                /\ ram.db = [op.backup EXCEPT ![op.old] = FreeEntry]

\* A table is bound to the present value of counter 1.
Bound == \E t \in 0 .. 1 : tabFile[t].state = "full" /\ tabFile[t].nvc = nvc[1]

-----------------------------------------------------------------------------
(* Contents of tables.                                                     *)

LEMMA ContentsAt ==
  ASSUME NEW db, Good(db), NEW u \in Uids
  PROVE  /\ \A i \in Idx : db[i].uid = u => Contents(db)[u] = db[i].tag
         /\ (\A i \in Idx : db[i].uid # u) => Contents(db)[u] = NoObject
         /\ Contents(db)[u] \in Objects \cup {NoObject}
<1> DEFINE i == ps_get_object_entry_idx(db, u)
<1>1. Contents(db)[u] = IF i = NoIdx THEN NoObject ELSE db[i].tag
  BY DEF Contents
<1>2. /\ i # NoIdx => i \in Idx /\ db[i].uid = u
      /\ i = NoIdx => \A j \in Idx : db[j].uid # u
  BY EntryIdx
<1> HIDE DEF i
<1>3. u # NoUid
  BY PsAssumption
<1>4. NoIdx \notin Idx
  BY PsAssumption DEF Idx, NoIdx
<1> QED
  BY <1>1, <1>2, <1>3, <1>4 DEF Good

LEMMA ContentsType ==
  ASSUME NEW db, Good(db)
  PROVE  Contents(db) \in [Uids -> Objects \cup {NoObject}]
<1>1. \A u \in Uids : Contents(db)[u] \in Objects \cup {NoObject}
  BY ContentsAt
<1>2. Contents(db) = [u \in Uids |-> Contents(db)[u]]
  BY DEF Contents
<1> QED
  BY <1>1, <1>2

LEMMA NoContents == Contents(NoEntries) = [u \in Uids |-> NoObject]
<1>1. \A u \in Uids : \A i \in Idx : NoEntries[i].uid # u
  BY PsAssumption DEF NoEntries, FreeEntry
<1>2. \A u \in Uids : Contents(NoEntries)[u] = NoObject
  BY <1>1, EmptyGood, ContentsAt
<1>3. Contents(NoEntries) = [u \in Uids |-> Contents(NoEntries)[u]]
  BY DEF Contents
<1> QED
  BY <1>2, <1>3

\* Two tables with the same entry of a uid.
LEMMA SameAt ==
  ASSUME NEW db, NEW new, Good(db), Good(new), NEW v \in Uids,
         \A j \in Idx : new[j].uid = v <=> db[j].uid = v,
         \A j \in Idx : db[j].uid = v => new[j].tag = db[j].tag
  PROVE  Contents(new)[v] = Contents(db)[v]
<1>1. CASE \E j \in Idx : db[j].uid = v
  <2>1. PICK j \in Idx : db[j].uid = v
    BY <1>1
  <2>2. Contents(db)[v] = db[j].tag
    BY <2>1, ContentsAt
  <2>3. new[j].uid = v
    BY <2>1
  <2>4. Contents(new)[v] = new[j].tag
    BY <2>3, ContentsAt
  <2> QED
    BY <2>1, <2>2, <2>4
<1>2. CASE \A j \in Idx : db[j].uid # v
  <2>1. \A j \in Idx : new[j].uid # v
    BY <1>2
  <2>2. Contents(db)[v] = NoObject
    BY <1>2, ContentsAt
  <2>3. Contents(new)[v] = NoObject
    BY <2>1, ContentsAt
  <2> QED
    BY <2>2, <2>3
<1> QED
  BY <1>1, <1>2

\* From the table before a set to the table after it.
LEMMA SetContents ==
  ASSUME NEW db, NEW new, NEW u \in Uids, NEW n \in Idx, NEW obj, Good(db), Good(new),
         db[n].uid = NoUid, new = Replaced(db, u, n, obj)
  PROVE  Contents(new) = [Contents(db) EXCEPT ![u] = obj]
<1>1. /\ new[n] = [uid |-> u, tag |-> obj]
      /\ \A j \in Idx : j # n => new[j] = IF db[j].uid = u THEN FreeEntry ELSE db[j]
      /\ FreeEntry.uid = NoUid
  BY DEF Replaced, FreeEntry
<1>2. Contents(new)[u] = obj
  BY <1>1, ContentsAt
<1>3. ASSUME NEW v \in Uids, v # u PROVE Contents(new)[v] = Contents(db)[v]
  <2>0. v # NoUid
    BY PsAssumption
  <2>1. \A j \in Idx : new[j].uid = v <=> db[j].uid = v
    BY <1>1, <1>3, <2>0
  <2>2. \A j \in Idx : db[j].uid = v => new[j].tag = db[j].tag
    BY <1>1, <1>3, <2>0
  <2> QED
    BY <2>1, <2>2, SameAt
<1>4. /\ Contents(new) \in [Uids -> Objects \cup {NoObject}]
      /\ Contents(db) \in [Uids -> Objects \cup {NoObject}]
  BY ContentsType
<1> QED
  BY <1>2, <1>3, <1>4

\* From the table before a remove to the table after it.
LEMMA RemoveContents ==
  ASSUME NEW db, NEW new, NEW u \in Uids, NEW n \in Idx, Good(db), Good(new),
         db[n].uid = u, new = [db EXCEPT ![n] = FreeEntry]
  PROVE  Contents(new) = [Contents(db) EXCEPT ![u] = NoObject]
<1>0. db \in Tables
  BY DEF Good
<1>1. /\ new[n] = FreeEntry /\ FreeEntry.uid = NoUid
      /\ \A j \in Idx : j # n => new[j] = db[j] /\ db[j].uid # u
  BY <1>0, PsAssumption DEF Tables, FreeEntry, Good
<1>2. Contents(new)[u] = NoObject
  <2>1. \A j \in Idx : new[j].uid # u
    BY <1>1, PsAssumption
  <2> QED
    BY <2>1, ContentsAt
<1>3. ASSUME NEW v \in Uids, v # u PROVE Contents(new)[v] = Contents(db)[v]
  <2>0. v # NoUid
    BY PsAssumption
  <2>1. \A j \in Idx : new[j].uid = v <=> db[j].uid = v
    BY <1>1, <1>3, <2>0
  <2>2. \A j \in Idx : db[j].uid = v => new[j].tag = db[j].tag
    BY <1>1, <1>3, <2>0
  <2> QED
    BY <2>1, <2>2, SameAt, ZenonT(40)
<1>4. /\ Contents(new) \in [Uids -> Objects \cup {NoObject}]
      /\ Contents(db) \in [Uids -> Objects \cup {NoObject}]
  BY ContentsType
<1> QED
  BY <1>2, <1>3, <1>4

-----------------------------------------------------------------------------
(* The request at work.                                                    *)

LEMMA RequestInit == Init => RequestInv
<1> SUFFICES ASSUME Init PROVE RequestInv
  OBVIOUS
<1>1. op.kind = "boot" /\ op.backup = NoEntries /\ ram.db = NoEntries /\ request = 1
  BY OperationType DEF Init, NoRam
<1>2. \A n : Upto(NoEntries, n)
  BY DEF Upto, NoEntries, FreeEntry
<1>3. Upto(FirstEntries, 1)
  <2>1. \A i \in Idx : FirstEntries[i] = FreeEntry \/ FirstEntries[i].tag = FirstObject
    BY DEF FirstEntries, NoEntries
  <2> QED
    BY <2>1 DEF Upto, FreeEntry, FirstObject
<1>4. \A t \in 0 .. 1 : tabFile[t].db \in {NoEntries, FirstEntries}
  <2>1. CASE Fresh
    BY <2>1 DEF Fresh, NoTable
  <2>2. CASE Used
    BY <2>2 DEF Used, NoTable
  <2> QED
    BY <2>1, <2>2 DEF Init
<1> QED
  BY <1>1, <1>2, <1>3, <1>4 DEF RequestInv, Working, Change

\* Steps that change neither the request nor a table.
LEMMA RequestKept ==
  ASSUME PsInv, RequestInv, UNCHANGED <<tabFile, ram, op, request>>,
         (Creating \/ Saving \/ Saved)' => Creating \/ Saving \/ Saved,
         (Saving \/ Saved)' => Saving \/ Saved
  PROVE  RequestInv'
BY DEF RequestInv, Working, Change

LEMMA RequestStep ==
  PsInv /\ PsInv' /\ RequestInv /\ [Next]_vars /\ harmed' = {} => RequestInv'
<1> SUFFICES ASSUME PsInv, PsInv', RequestInv, [Next]_vars, harmed' = {} PROVE RequestInv'
  OBVIOUS
<1>0. ~Harmful
  BY Unharmed
<1>1. Typed
  BY TypedFacts
<1>2. \A n : Upto(NoEntries, n)
  BY DEF Upto, NoEntries, FreeEntry
<1> USE DEF persistent, Saving, Saved, Creating
<1>3. ASSUME NEW kind \in {"boot", "again", "wipe", "query"}, op' = Operation(kind),
             request' = request, tabFile' = tabFile, ram'.db = NoEntries \/ ram' = ram
      PROVE  RequestInv'
  <2>1. op'.kind = kind /\ op'.backup = NoEntries
    BY <1>3, OperationType
  <2> QED
    BY <2>1, <1>2, <1>3 DEF RequestInv, Working, Change
<1>4. CASE Prepare
  <2>1. CASE ps_set_active_object_table = NoActive /\ op.kind = "boot"
    BY <2>1, <1>3, <1>4 DEF Prepare, PrepareFails
  <2>2. CASE ps_set_active_object_table = NoActive /\ op.kind # "boot"
    BY <2>2, <1>4, RequestKept DEF Prepare, PrepareFails
  <2>3. CASE ps_set_active_object_table # NoActive
    <3>1. ps_set_active_object_table \in 0 .. 1
      BY <2>3, SelectedIs, SelectedType DEF NoActive
    <3>2. /\ ram'.db = tabFile[ps_set_active_object_table].db /\ pc' = "drop_scratch"
          /\ UNCHANGED <<tabFile, op, request>> /\ pc = "prepare"
      BY <2>3, <1>4 DEF Prepare
    <3> QED
      BY <3>1, <3>2 DEF RequestInv, Working, Change
  <2> QED
    BY <2>1, <2>2, <2>3
<1>5. ASSUME NEW X \in {NoTable, TornTable}, tabFile' = [tabFile EXCEPT ![scratch] = X],
             UNCHANGED <<ram, op, request>>,
             (Creating \/ Saving \/ Saved)' => Creating \/ Saving \/ Saved,
             (Saving \/ Saved)' => Saving \/ Saved
      PROVE  RequestInv'
  <2>1. X.db = NoEntries
    BY EmptyGood
  <2>2. \A t \in 0 .. 1 : tabFile'[t] = tabFile[t] \/ tabFile'[t] = X
    BY <1>1, <1>5 DEF Typed
  <2>3. \A t \in 0 .. 1 : Upto(tabFile'[t].db, request)
    BY <2>1, <2>2, <1>2 DEF RequestInv
  <2> QED
    BY <2>3, <1>5 DEF RequestInv, Working, Change
<1>6. CASE DropScratch
  <2>1. pc' \in {"align", "idle"} /\ op.kind \in {"boot", "again"} /\ UNCHANGED <<ram, op, request>>
          /\ tabFile' = [tabFile EXCEPT ![scratch] = NoTable]
    BY <1>6 DEF DropScratch, Reply, PsInv, KindInv
  <2> QED
    BY <2>1, <1>5
<1>7. CASE WriteTable \/ DropTable
  <2>1. /\ UNCHANGED <<ram, op, request>>
        /\ (pc = "write_table" /\ pc' = "finish_table") \/ pc' \in {"idle", "drop_object"}
        /\ \E X \in {NoTable, TornTable} : tabFile' = [tabFile EXCEPT ![scratch] = X]
    BY <1>7 DEF WriteTable, DropTable, Reply
  <2> QED
    BY <2>1, <1>5
<1>8. CASE ps_object_table_create
  <2>1. op.kind = "wipe" /\ op' = op /\ request' = request /\ tabFile' = tabFile
          /\ ram'.db = NoEntries
    BY <1>8 DEF ps_object_table_create, PsInv, KindInv
  <2> QED
    BY <2>1, <1>2 DEF RequestInv, Working, Change
<1>9. CASE StartSave
  <2>1. ram'.db = ram.db /\ pc = "save" /\ pc' = "write_table" /\ UNCHANGED <<tabFile, op, request>>
    BY <1>1, <1>9 DEF StartSave, Typed
  <2> QED
    BY <2>1 DEF RequestInv, Working, Change
<1>10. CASE IncrementFails \/ WriteTableFails
  <2>1. /\ Saving /\ op' = op /\ tabFile' = tabFile /\ request' = request
        /\ op.kind = "wipe" => ram' = ram /\ pc' = "panic"
        /\ op.kind # "wipe" => ram'.db = op.backup /\ pc' \in {"undo", "idle"}
    BY <1>1, <1>10 DEF IncrementFails, WriteTableFails, SaveFails, Reply, Typed
  <2> QED
    BY <2>1 DEF RequestInv, Working, Change
<1>11. CASE FinishTable
  <2>1. /\ pc = "finish_table" /\ ram'.db = ram.db /\ request' = request
        /\ op' = op \/ op' = Operation("again")
    BY <1>1, <1>11 DEF FinishTable, SaveDone, Typed
  <2>2. \A t \in 0 .. 1 : tabFile'[t] = tabFile[t] \/ tabFile'[t].db = ram.db
    BY <1>1, <1>11 DEF FinishTable, Typed
  <2>3. \A t \in 0 .. 1 : Upto(tabFile'[t].db, request)
    BY <2>2 DEF RequestInv
  <2>4. CASE op' = op
    BY <2>1, <2>3, <2>4 DEF RequestInv, Working, Change
  <2>5. CASE op' = Operation("again")
    <3>1. op'.kind = "again" /\ op'.backup = NoEntries
      BY <2>5, OperationType
    <3> QED
      BY <3>1, <2>1, <2>3, <1>2 DEF RequestInv, Working, Change
  <2> QED
    BY <2>1, <2>4, <2>5
<1>12. CASE AlignStep
  BY <1>12, RequestKept DEF AlignStep
<1>13. CASE AlignDone
  <2>1. CASE op.kind = "wipe"
    BY <2>1, <1>3, <1>13 DEF AlignDone, SaveDone
  <2>2. CASE op.kind # "wipe"
    <3>1. UNCHANGED <<tabFile, ram, op, request>> /\ pc = "align" /\ pc' \in {"idle", "drop_table"}
            /\ (pc' = "drop_table" => op.kind \in {"set", "remove"})
      BY <2>2, <1>1, <1>13 DEF AlignDone, Reply, SaveDone, PsInv, KindInv, Typed, Ops
    <3> QED
      BY <3>1, RequestKept
  <2> QED
    BY <2>1, <2>2
<1>14. CASE ps_object_table_get_free_fid \/ WriteObject \/ UndoSet
  BY <1>14, RequestKept DEF ps_object_table_get_free_fid, WriteObject, UndoSet, Reply
<1>15. CASE FreeFidFails \/ WriteObjectFails \/ DropFails \/ DropObject
  BY <1>15, RequestKept DEF FreeFidFails, WriteObjectFails, DropFails, DropObject, Reply
<1>16. CASE FinishObject
  <2>1. /\ pc = "finish_object" /\ pc' = "save" /\ op.kind = "set" /\ op.backup = ram.db
        /\ op.new \in Idx /\ ram.db[op.new].uid = NoUid
        /\ UNCHANGED <<tabFile, op, request>>
    BY <1>16 DEF FinishObject, PsInv, KindInv, CreateInv
  <2>2. ram'.db = Replaced(ram.db, op.uid, op.new, op.obj)
    BY <1>1, <1>16 DEF FinishObject, Typed
  <2>3. op.obj.data = request
    BY <2>1 DEF RequestInv, Working, Change
  <2>4. request <= request /\ Upto(ram.db, request)
    BY DEF RequestInv, PsInv, TypeOK
  <2>5. Upto(ram'.db, request)
    BY <2>2, <2>3, <2>4 DEF Upto, Replaced, FreeEntry
  <2> QED
    BY <2>1, <2>2, <2>5 DEF RequestInv, Working, Change
<1>17. CASE Panic \/ Crash
  <2>1. op' = Operation("boot") /\ request' = request /\ tabFile' = tabFile /\ ram'.db = NoEntries
    BY <1>17 DEF Panic, Crash, Restart, NoRam
  <2> QED
    BY <2>1, <1>3
<1>18. ASSUME NEW db, db \in Tables, Good(db), Upto(db, request) PROVE Upto(db, request + 1)
  <2>1. \A i \in Idx : db[i].uid # NoUid => db[i].tag.data \in Nat
    BY <1>18 DEF Good, Objects
  <2>2. request \in Nat
    BY PsAssumption DEF PsInv, TypeOK
  <2> QED
    BY <2>1, <2>2, <1>18 DEF Upto
<1>19. /\ \A t \in 0 .. 1 : Upto(tabFile[t].db, request + 1)
       /\ Upto(ram.db, request + 1) /\ request \in Nat /\ Upto(ram.db, request)
  BY <1>18, PsAssumption, SMTT(30) DEF RequestInv, PsInv, TablesInv, Good, TypeOK
<1>20. ASSUME NEW u \in Uids, NEW once \in BOOLEAN, ps_object_create(u, once)
       PROVE  RequestInv'
  <2> DEFINE i == ps_get_object_entry_idx(ram.db, u)
  <2>1. /\ pc' = "free_fid" /\ request' = request + 1 /\ UNCHANGED <<tabFile, ram>>
        /\ op'.kind = "set" /\ op'.uid = u /\ op'.obj.data = request + 1 /\ op'.backup = ram.db
    BY <1>20 DEF ps_object_create
  <2>2. i # NoIdx => ~ram.db[i].tag.once
    BY <1>20 DEF ps_object_create, CanSet, Changeable
  <2>3. \A j \in Idx : ram.db[j].uid = u => i = j
    BY UniqueIdx, PsAssumption DEF PsInv, TablesInv
  <2>4. NoIdx \notin Idx
    BY PsAssumption DEF Idx, NoIdx
  <2> HIDE DEF i
  <2>5. \A j \in Idx : ram.db[j].uid = u => ~ram.db[j].tag.once
    BY <2>2, <2>3, <2>4
  <2>6. Upto(ram.db, request' - 1)
    BY <2>1, <1>19
  <2> QED
    BY <2>1, <2>5, <2>6, <1>19 DEF RequestInv, Working, Change
<1>21. ASSUME NEW u \in Uids, ps_object_delete(u)
       PROVE  RequestInv'
  <2>1. PICK i \in Idx : /\ i = ps_get_object_entry_idx(ram.db, u) /\ ram.db[i].uid = u
                         /\ ~ram.db[i].tag.once
    BY <1>21, EntryIdx DEF ps_object_delete, CanRemove, Changeable
  <2>2. /\ pc' = "save" /\ request' = request + 1 /\ tabFile' = tabFile
        /\ op' = [Operation("remove") EXCEPT !.uid = u, !.old = i, !.backup = ram.db]
        /\ ram' = [ram EXCEPT !.db[i] = FreeEntry]
    BY <2>1, <1>21 DEF ps_object_delete
  <2>3. op'.kind = "remove" /\ op'.uid = u /\ op'.old = i /\ op'.backup = ram.db
    BY <2>2 DEF Operation
  <2>4. ram'.db = [ram.db EXCEPT ![i] = FreeEntry] /\ ram.db \in Tables
    BY <1>1, <2>2 DEF Typed
  <2>5. \A j \in Idx : ram.db[j].uid = u => ~ram.db[j].tag.once
    BY <2>1, PsAssumption DEF PsInv, TablesInv, Good
  <2>6. Upto(ram'.db, request + 1)
    BY <2>4, <1>19 DEF Upto, FreeEntry, Tables
  <2> QED
    BY <2>1, <2>2, <2>3, <2>4, <2>5, <2>6, <1>19 DEF RequestInv, Working, Change
<1>22. ASSUME NEW u \in Uids, ps_object_read(u) \/ Refuse(u)
       PROVE  RequestInv'
  BY <1>3, <1>22 DEF ps_object_read, Refuse
<1>23. CASE UNCHANGED vars
  BY <1>23, RequestKept DEF vars
<1> QED
  BY <1>0, <1>4, <1>6, <1>7, <1>8, <1>9, <1>10, <1>11, <1>12, <1>13, <1>14, <1>15, <1>16,
     <1>17, <1>20, <1>21, <1>22, <1>23 DEF Next, Step, Harmful

-----------------------------------------------------------------------------
(* The committed table.                                                    *)

\* What a boot would load is committed.
LEMMA CommitChosen ==
  ASSUME NEW t \in 0 .. 1, Chosen(t)
  PROVE  CommittedTable = tabFile[t].db
<1>1. ps_set_active_object_table = t /\ t # NoActive
  BY SelectedIs DEF Chosen, NoActive
<1> QED
  BY <1>1 DEF CommittedTable

\* If it would load nothing and the service does not run, nothing is.
LEMMA CommitNone == Chosen(NoActive) /\ ~Running => CommittedTable = NoEntries
BY SelectedIs DEF Chosen, CommittedTable

\* While the service works with a table, that table is.
LEMMA CommitSteady == PsInv /\ Steady => CommittedTable = Base /\ Running
<1> SUFFICES ASSUME PsInv, Steady PROVE CommittedTable = Base /\ Running
  OBVIOUS
<1>1. Running
  BY DEF Steady, Running, Saving, Creating, Change, PsInv, KindInv
<1>2. tabFile[ram.active].db = Base /\ ram.active \in 0 .. 1
  BY TypedFacts DEF PsInv, SteadyInv, Typed
<1>3. CASE Chosen(ram.active)
  BY <1>1, <1>2, <1>3, CommitChosen
<1>4. CASE Chosen(NoActive)
  BY <1>1, <1>4, SelectedIs DEF Chosen, CommittedTable, Base, Saving
<1> QED
  BY <1>1, <1>3, <1>4, SteadyChosen

\* After a save the new one is, or, without roll-back protection, still the old one.
LEMMA CommitSaved ==
  PsInv /\ Saved /\ Change =>
    /\ CommittedTable = ram.db \/ (~rollback /\ CommittedTable = op.backup)
    /\ rollback => CommittedTable = ram.db
    /\ Running /\ (rollback => Bound)
<1> SUFFICES ASSUME PsInv, Saved, Change
             PROVE  /\ CommittedTable = ram.db \/ (~rollback /\ CommittedTable = op.backup)
                    /\ rollback => CommittedTable = ram.db
                    /\ Running /\ (rollback => Bound)
  OBVIOUS
<1>1. Running /\ Typed
  BY TypedFacts DEF Saved, Change, Running
<1>2. /\ tabFile[ram.active].db = ram.db /\ tabFile[ram.active].state = "full"
      /\ tabFile[scratch].db = op.backup
      /\ rollback => tabFile[ram.active].nvc = nvc[1]
  BY DEF PsInv, SavedInv
<1>3. CASE rollback
  <2>1. CommittedTable = ram.db
    BY <1>1, <1>2, <1>3, SavedChosen, CommitChosen DEF Typed
  <2> QED
    BY <2>1, <1>1, <1>2, <1>3 DEF Bound, Typed
<1>4. CASE ~rollback
  <2>1. Authentic(rollback, tabFile, nvc, ram.active)
    BY <1>2, <1>4 DEF Authentic
  <2>2. Selected(rollback, tabFile, nvc) \in 0 .. 1
    BY <2>1, <1>1, SelectedType DEF Typed, NoActive
  <2>3. Chosen(ram.active) \/ Chosen(scratch)
    BY <2>2, <1>1 DEF Chosen, Typed
  <2>4. CommittedTable = tabFile[ram.active].db \/ CommittedTable = tabFile[scratch].db
    BY <2>3, <1>1, CommitChosen DEF Typed
  <2> QED
    BY <2>4, <1>1, <1>2, <1>4
<1> QED
  BY <1>3, <1>4

\* What is committed is a table whose objects can be read: it stands for the store.
LEMMA StoreContents == PsInv => store = Contents(CommittedTable) /\ Good(CommittedTable)
<1> SUFFICES ASSUME PsInv PROVE store = Contents(CommittedTable) /\ Good(CommittedTable)
  OBVIOUS
<1>1. Good(CommittedTable) /\ Readable(objFile, CommittedTable)
  <2>1. CASE \E t \in 0 .. 1 : Chosen(t)
    <3>1. PICK t \in 0 .. 1 : Chosen(t)
      BY <2>1
    <3>2. CommittedTable = tabFile[t].db
      BY <3>1, CommitChosen
    <3> QED
      BY <3>1, <3>2, PowerFailSafe DEF ChosenReadable, PsInv, TablesInv
  <2>2. CASE \A t \in 0 .. 1 : ~Chosen(t)
    <3>1. Chosen(NoActive)
      BY <2>2, SelectedType DEF Chosen, NoActive
    <3>2. CASE Running
      <4>1. Steady
        <5>1. pc \in Phases /\ op \in Ops
          BY TypedFacts DEF Typed
        <5>2. pc # "drop_scratch"
          BY <3>1, TypedFacts DEF PsInv, BootInv, Chosen, Typed, NoActive
        <5>3. ~Saved
          <6> SUFFICES ASSUME Saved PROVE FALSE
            OBVIOUS
          <6>1. Authentic(rollback, tabFile, nvc, ram.active)
            BY DEF PsInv, SavedInv, Authentic
          <6> QED
            BY <6>1, <3>1, TypedFacts, SelectedType DEF Chosen, Typed
        <5> QED
          BY <3>2, <5>1, <5>2, <5>3
             DEF Running, Steady, Saving, Saved, Creating, Phases, Ops, PsInv, KindInv
      <4>2. CommittedTable = Base
        BY <4>1, CommitSteady
      <4> QED
        BY <4>1, <4>2 DEF PsInv, SteadyInv, TablesInv, Base
    <3>3. CASE ~Running
      BY <3>1, <3>3, CommitNone, EmptyGood
    <3> QED
      BY <3>2, <3>3
  <2> QED
    BY <2>1, <2>2
<1>2. PICK db : db = CommittedTable
  OBVIOUS
<1>3. Good(db) /\ Readable(objFile, db)
  BY <1>1, <1>2
<1>4. \A u \in Uids : ObjectIn(db, u) = Contents(db)[u]
  <2> SUFFICES ASSUME NEW u \in Uids PROVE ObjectIn(db, u) = Contents(db)[u]
    OBVIOUS
  <2> DEFINE i == ps_get_object_entry_idx(db, u)
  <2>1. i # NoIdx => i \in Idx /\ db[i].uid = u
    BY EntryIdx
  <2>2. Contents(db)[u] = IF i = NoIdx THEN NoObject ELSE db[i].tag
    BY DEF Contents
  <2>3. ObjectIn(db, u) = IF i = NoIdx THEN NoObject
                          ELSE IF objFile[i] = db[i].tag THEN db[i].tag ELSE TornObject
    BY DEF ObjectIn, ps_encrypted_object_read
  <2> HIDE DEF i
  <2> QED
    BY <2>1, <2>2, <2>3, <1>3, PsAssumption DEF Readable
<1>5. store = [u \in Uids |-> ObjectIn(db, u)]
  BY <1>2, StoreIs
<1>6. Contents(db) = [u \in Uids |-> Contents(db)[u]]
  BY DEF Contents
<1> QED
  BY <1>1, <1>2, <1>4, <1>5, <1>6

LEMMA LooseIs ==
  loose <=> rollback /\ ~Bound /\ (Running \/ ~Chosen(NoActive))
<1>1. rollback => \A t \in 0 .. 1 : ps_object_table_authenticate(t) = "nvc_1" <=>
                              tabFile[t].state = "full" /\ tabFile[t].nvc = nvc[1]
  BY DEF ps_object_table_authenticate
<1> QED
  BY <1>1, SelectedIs DEF loose, Bound, Chosen

-----------------------------------------------------------------------------
(* The effect of every step on the store.                                  *)

SteadyC == CommittedTable = Base /\ Running

SavedC ==
  /\ CommittedTable = ram.db \/ (~rollback /\ CommittedTable = op.backup)
  /\ rollback => CommittedTable = ram.db
  /\ Running /\ (rollback => Bound)

NoneC == CommittedTable = NoEntries

SelectedC == ps_set_active_object_table = Selected(rollback, tabFile, nvc)

LEMMA SteadyNext == PsInv' /\ Steady' => CommittedTable' = Base' /\ Running'
<1>1. PsInv /\ Steady => SteadyC
  BY CommitSteady DEF SteadyC
<1>2. PsInv' /\ Steady' => SteadyC'
  BY <1>1, PTL
<1> QED
  BY <1>2 DEF SteadyC

LEMMA LooseNext == loose' <=> rollback' /\ ~Bound' /\ (Running' \/ ~Chosen(NoActive)')
BY LooseIs, PTL

LEMMA SavedNext ==
  PsInv' /\ Saved' /\ Change' =>
    /\ CommittedTable' = ram'.db \/ (~rollback' /\ CommittedTable' = op'.backup)
    /\ rollback' => CommittedTable' = ram'.db
    /\ Running' /\ (rollback' => Bound')
<1>1. PsInv /\ Saved /\ Change => SavedC
  BY CommitSaved DEF SavedC
<1>2. PsInv' /\ Saved' /\ Change' => SavedC'
  BY <1>1, PTL
<1> QED
  BY <1>2 DEF SavedC

LEMMA NoneNext == Chosen(NoActive)' /\ ~Running' => CommittedTable' = NoEntries
<1>1. Chosen(NoActive) /\ ~Running => NoneC
  BY CommitNone DEF NoneC
<1>2. Chosen(NoActive)' /\ ~Running' => NoneC'
  BY <1>1, PTL
<1> QED
  BY <1>2 DEF NoneC, NoEntries, FreeEntry

LEMMA SelectedNext == SelectedC'
<1>1. SelectedC
  BY SelectedIs DEF SelectedC
<1> QED
  BY <1>1, PTL

LEMMA ChosenNext ==
  ASSUME NEW t \in 0 .. 1, Chosen(t)'
  PROVE  CommittedTable' = tabFile'[t].db
<1>1. ps_set_active_object_table' = t /\ t # NoActive
  BY SelectedNext DEF SelectedC, Chosen, NoActive
<1> QED
  BY <1>1 DEF CommittedTable

\* The table that the service works with stays, and so does its binding.
LEMMA SteadySame ==
  ASSUME PsInv, PsInv', Steady, Steady', Base' = Base, rollback' = rollback, Bound' <=> Bound
  PROVE  CommittedTable' = CommittedTable /\ (loose' <=> loose)
<1>1. CommittedTable = Base /\ Running /\ CommittedTable' = Base' /\ Running'
  BY CommitSteady, SteadyNext
<1> QED
  BY <1>1, LooseIs, LooseNext

\* A service that is not running, with the same files and counters.
LEMMA StoppedSame ==
  ASSUME UNCHANGED <<rollback, objFile, tabFile, nvc>>, ~Running \/ ~Chosen(NoActive),
         ~Running' \/ ~Chosen(NoActive)
  PROVE  CommittedTable' = CommittedTable /\ (loose' <=> loose)
<1>1. \A t \in 0 .. 2 : Chosen(t)' <=> Chosen(t)
  BY DEF Chosen
<1>2. (Bound' <=> Bound) /\ NoActive \in 0 .. 2
  BY DEF Bound, NoActive
<1>3. CASE Chosen(NoActive)
  <2>1. ~Running /\ ~Running' /\ Chosen(NoActive)'
    BY <1>1, <1>2, <1>3
  <2> QED
    BY <2>1, <1>2, <1>3, CommitNone, NoneNext, LooseIs, LooseNext
<1>4. CASE ~Chosen(NoActive)
  <2>1. PICK t \in 0 .. 1 : Chosen(t)
    BY <1>4, SelectedType DEF Chosen, NoActive
  <2>2. Chosen(t)' /\ ~Chosen(NoActive)'
    BY <2>1, <1>1, <1>2, <1>4
  <2>3. CommittedTable = tabFile[t].db
    BY <2>1, CommitChosen
  <2>4. CommittedTable' = tabFile'[t].db
    BY <2>2, ChosenNext
  <2> QED
    BY <2>2, <2>3, <2>4, <1>2, <1>4, LooseIs, LooseNext
<1> QED
  BY <1>3, <1>4

\* Requests arrive, objects are written, and steps between them.
LEMMA SteadySteps ==
  ASSUME SwapSafe, PsInv, PsInv',
         \/ ps_object_table_get_free_fid \/ WriteObject \/ UndoSet \/ FinishObject
         \/ FreeFidFails \/ WriteObjectFails \/ DropObject
         \/ \E u \in Uids : \/ \E once \in BOOLEAN : ps_object_create(u, once)
                            \/ ps_object_delete(u) \/ ps_object_read(u) \/ Refuse(u)
  PROVE  CommittedTable' = CommittedTable /\ (loose' <=> loose) /\ rollback' = rollback
<1> USE DEF Saving, Creating, Steady
<1>1. UNCHANGED <<rollback, tabFile, nvc>>
  BY DEF ps_object_table_get_free_fid, WriteObject, UndoSet, FinishObject, FreeFidFails,
     WriteObjectFails, DropObject, ps_object_create, ps_object_delete, ps_object_read, Refuse,
     persistent
<1>2. Bound' <=> Bound
  BY <1>1 DEF Bound
<1>3. CASE \/ ps_object_table_get_free_fid \/ WriteObject \/ UndoSet
           \/ FreeFidFails \/ WriteObjectFails \/ DropObject
  <2>1. Steady /\ Steady' /\ Base' = Base
    BY <1>3 DEF ps_object_table_get_free_fid, WriteObject, UndoSet, FreeFidFails,
       WriteObjectFails, DropObject, Reply, Base
  <2> QED
    BY <2>1, <1>1, <1>2, SteadySame
<1>4. CASE FinishObject
  <2>1. pc = "finish_object" /\ pc' = "save" /\ op' = op /\ op.kind = "set" /\ op.backup = ram.db
    BY <1>4 DEF FinishObject, PsInv, CreateInv, KindInv
  <2>2. Steady /\ Steady' /\ Base' = Base
    BY <2>1 DEF Base
  <2> QED
    BY <2>2, <1>1, <1>2, SteadySame
<1>5. ASSUME NEW u \in Uids, NEW once \in BOOLEAN,
             ps_object_create(u, once) \/ ps_object_read(u) \/ Refuse(u)
      PROVE  CommittedTable' = CommittedTable /\ (loose' <=> loose)
  <2>1. Steady /\ Steady' /\ Base' = Base
    BY <1>5 DEF ps_object_create, ps_object_read, Refuse, Base
  <2> QED
    BY <2>1, <1>1, <1>2, SteadySame
<1>6. ASSUME NEW u \in Uids, ps_object_delete(u)
      PROVE  CommittedTable' = CommittedTable /\ (loose' <=> loose)
  <2>1. pc = "idle" /\ pc' = "save" /\ op'.kind = "remove" /\ op'.backup = ram.db
    BY <1>6 DEF ps_object_delete, Operation
  <2>2. Steady /\ Steady' /\ Base' = Base
    BY <2>1 DEF Base
  <2> QED
    BY <2>2, <1>1, <1>2, SteadySame
<1> QED
  BY <1>1, <1>3, <1>4, <1>5, <1>6

\* Start-up, and the steps of a save before the new table is complete.
LEMMA BootSteps ==
  ASSUME PsInv, PsInv', Prepare \/ DropScratch \/ ps_object_table_create \/ Panic
  PROVE  CommittedTable' = CommittedTable /\ (loose' <=> loose)
<1>1. Typed
  BY TypedFacts
<1>2. CASE Prepare
  <2>1. UNCHANGED <<rollback, objFile, tabFile, nvc>> /\ pc = "prepare" /\ ~Running
    BY <1>2 DEF Prepare, persistent, Running
  <2>2. Chosen(NoActive) => ~Running'
    BY <1>2, SelectedIs DEF Prepare, PrepareFails, Chosen, Running
  <2> QED
    BY <2>1, <2>2, StoppedSame
<1>3. CASE ps_object_table_create
  <2>1. /\ UNCHANGED <<rollback, objFile, tabFile, nvc, op>> /\ pc = "create"
        /\ op.kind = "wipe"
    BY <1>3 DEF ps_object_table_create, persistent, PsInv, KindInv
  <2> QED
    BY <2>1, StoppedSame DEF Running
<1>4. CASE Panic
  <2>1. UNCHANGED <<rollback, objFile, tabFile, nvc>> /\ pc = "panic" /\ pc' = "prepare"
    BY <1>4 DEF Panic, Restart, persistent
  <2> QED
    BY <2>1, StoppedSame DEF Running
<1>5. CASE DropScratch
  <2>1. /\ pc = "drop_scratch" /\ UNCHANGED <<rollback, nvc, ram, op>>
        /\ pc' \in {"align", "idle"} /\ op.kind \in {"boot", "again"}
        /\ tabFile' = [tabFile EXCEPT ![scratch] = NoTable]
    BY <1>5 DEF DropScratch, Reply, PsInv, KindInv
  <2>2. Running /\ Steady' /\ Base' = ram.db
    BY <2>1 DEF Running, Steady, Base, Saving
  <2>3. Chosen(ram.active) /\ ram.db = tabFile[ram.active].db
    BY <2>1 DEF PsInv, BootInv
  <2>4. CommittedTable = ram.db /\ CommittedTable' = ram.db /\ Running'
    BY <2>2, <2>3, <1>1, CommitChosen, SteadyNext DEF Typed
  <2>5. tabFile'[ram.active] = tabFile[ram.active] /\ tabFile'[scratch].state # "full"
    BY <2>1, Removal
  <2>6. rollback => (Bound' <=> Bound)
    <3> SUFFICES ASSUME rollback PROVE Bound' <=> Bound
      OBVIOUS
    <3>1. Bound' <=> tabFile[ram.active].state = "full" /\ tabFile[ram.active].nvc = nvc[1]
      BY <2>1, <2>5, <1>1 DEF Bound, Typed
    <3>2. CASE tabFile[scratch].state = "full" /\ tabFile[scratch].nvc = nvc[1]
      <4>1. Authentic(rollback, tabFile, nvc, scratch)
        BY <3>2 DEF Authentic
      <4>2. Authentic(rollback, tabFile, nvc, ram.active)
        BY <2>3, <1>1, SelectedType DEF Chosen, Typed
      <4>3. tabFile[ram.active].nvc = nvc[1]
        <5>1. CASE ram.active = 0
          BY <5>1, <4>1, <4>2, <3>2, <2>3, <1>1 DEF Chosen, Selected, Typed
        <5>2. CASE ram.active = 1
          BY <5>2, <4>1, <4>2, <3>2, <2>3, <1>1 DEF Chosen, Selected, Typed
        <5> QED
          BY <5>1, <5>2, <1>1 DEF Typed
      <4> QED
        BY <4>2, <4>3, <3>1, <1>1 DEF Bound, Authentic, Typed
    <3>3. CASE ~(tabFile[scratch].state = "full" /\ tabFile[scratch].nvc = nvc[1])
      BY <3>1, <3>3, <1>1 DEF Bound, Typed
    <3> QED
      BY <3>2, <3>3
  <2> QED
    BY <2>1, <2>2, <2>4, <2>6, LooseIs, LooseNext
<1> QED
  BY <1>2, <1>3, <1>4, <1>5

\* A save that fails, or has torn the scratch file.
LEMMA SaveSteps ==
  ASSUME PsInv, PsInv', IncrementFails \/ WriteTableFails \/ WriteTable
  PROVE  CommittedTable' = CommittedTable /\ (loose' <=> loose)
<1>1. Typed
  BY TypedFacts
<1> USE DEF Saving, Creating, Steady
<1>2. /\ Saving /\ op' = op /\ UNCHANGED <<rollback, nvc>>
      /\ op.kind \in {"set", "remove", "wipe"}
  BY DEF IncrementFails, WriteTableFails, WriteTable, persistent, PsInv, KindInv
<1>3. CASE op.kind # "wipe"
  <2>1. Steady /\ Steady' /\ Base' = Base
    BY <1>1, <1>2, <1>3 DEF IncrementFails, WriteTableFails, WriteTable, SaveFails, Reply, Base,
       Typed
  <2>2. rollback => (Bound' <=> Bound)
    <3>1. CASE WriteTable
      <4>1. /\ tabFile' = [tabFile EXCEPT ![scratch] = TornTable] /\ UNCHANGED <<rollback, nvc, ram>>
        BY <3>1 DEF WriteTable
      <4>2. tabFile'[ram.active] = tabFile[ram.active] /\ tabFile'[scratch].state # "full"
        BY <4>1, Removal
      <4>3. rollback => ~(tabFile[scratch].state = "full" /\ tabFile[scratch].nvc = nvc[1])
        BY <2>1, <1>1 DEF PsInv, SteadyInv, CountersInv, Typed
      <4> QED
        BY <4>1, <4>2, <4>3, <1>1 DEF Bound, Typed
    <3>2. CASE IncrementFails \/ WriteTableFails
      BY <3>2 DEF IncrementFails, WriteTableFails, persistent, Bound
    <3> QED
      BY <3>1, <3>2
  <2>3. CommittedTable = Base /\ Running /\ CommittedTable' = Base' /\ Running'
    BY <2>1, CommitSteady, SteadyNext
  <2> QED
    BY <2>1, <2>2, <2>3, <1>2, LooseIs, LooseNext
<1>4. CASE op.kind = "wipe"
  <2>1. ~Running /\ ~Running'
    BY <1>2, <1>4 DEF Running
  <2>2. Chosen(NoActive)
    BY <1>2, <1>4 DEF PsInv, WipeInv, Wiping
  <2>3. Wiping'
    BY <1>2, <1>4 DEF IncrementFails, WriteTableFails, WriteTable, SaveFails, Wiping
  <2>4. Chosen(NoActive)'
    BY <2>3 DEF PsInv, WipeInv
  <2> QED
    BY <2>1, <2>2, <2>4, CommitNone, NoneNext, LooseIs, LooseNext
<1> QED
  BY <1>3, <1>4

\* Counter 1 is incremented: the store becomes loose.
LEMMA StartSaveStep ==
  ASSUME PsInv, PsInv', StartSave
  PROVE  CommittedTable' = CommittedTable /\ (loose => loose') /\ (~rollback => ~loose /\ ~loose')
<1>1. Typed
  BY TypedFacts
<1> USE DEF Saving, Creating, Steady
<1>2. /\ pc = "save" /\ pc' = "write_table" /\ UNCHANGED <<rollback, tabFile, op>>
      /\ op.kind \in {"set", "remove", "wipe"}
  BY DEF StartSave, PsInv, KindInv
<1>3. ~rollback => ~loose /\ ~loose'
  BY <1>2, LooseIs, LooseNext
<1>4. CASE op.kind # "wipe"
  <2>1. Steady /\ Steady' /\ Base' = Base
    BY <1>2, <1>4 DEF Base
  <2>2. CommittedTable = Base /\ CommittedTable' = Base' /\ Running'
    BY <2>1, CommitSteady, SteadyNext
  <2>3. rollback => ~Bound'
    <3> SUFFICES ASSUME rollback PROVE ~Bound'
      OBVIOUS
    <3>1. /\ tabFile[ram.active].nvc <= nvc[3] /\ nvc[3] <= nvc[2] /\ nvc[2] <= nvc[1]
          /\ tabFile[scratch].state = "full" => tabFile[scratch].nvc < nvc[3]
      BY <2>1, <1>2 DEF PsInv, SteadyInv, CountersInv
    <3>2. nvc'[1] = nvc[1] + 1
      BY <1>1 DEF StartSave, Typed
    <3>3. \A t \in 0 .. 1 : tabFile[t].state = "full" => tabFile[t].nvc # nvc'[1]
      BY <3>1, <3>2, <1>1 DEF Typed
    <3> QED
      BY <3>3, <1>2 DEF Bound
  <2> QED
    BY <2>1, <2>2, <2>3, <1>2, <1>3, LooseNext
<1>5. CASE op.kind = "wipe"
  <2>1. ~Running /\ ~Running'
    BY <1>2, <1>5 DEF Running
  <2>2. Chosen(NoActive)
    BY <1>2, <1>5 DEF PsInv, WipeInv, Wiping
  <2>3. Wiping'
    BY <1>2, <1>5 DEF Wiping
  <2>4. Chosen(NoActive)'
    BY <2>3 DEF PsInv, WipeInv
  <2> QED
    BY <2>1, <2>2, <2>4, CommitNone, NoneNext, LooseIs, LooseNext
<1> QED
  BY <1>3, <1>4, <1>5

\* The table of a request becomes the committed one, or the old one still is.
LEMMA FinishTableStep ==
  ASSUME PsInv, PsInv', FinishTable
  PROVE  \/ CommittedTable' = CommittedTable /\ (loose' <=> loose)
         \/ /\ CommittedTable = op.backup /\ CommittedTable' = ram.db
            /\ Change /\ (Saving \/ Saved) /\ ~loose'
<1>1. Typed
  BY TypedFacts
<1> USE DEF Saving, Creating, Steady
<1>2. /\ pc = "finish_table" /\ UNCHANGED <<rollback, objFile, nvc>>
      /\ op.kind \in {"set", "remove", "wipe"}
      /\ rollback => pc' = "align" /\ op' = op
      /\ ~rollback /\ op.kind = "wipe" => pc' = "prepare"
      /\ ~rollback /\ op.kind # "wipe" => pc' = "drop_table" /\ op' = op
  BY DEF FinishTable, SaveDone, PsInv, KindInv
<1>3. ram'.db = ram.db
  BY <1>1 DEF FinishTable, Typed
<1>4. ~rollback => ~loose /\ ~loose'
  BY <1>2, LooseIs, LooseNext
<1>5. CASE op.kind # "wipe"
  <2>1. Steady /\ Base = op.backup /\ Change
    BY <1>2, <1>5 DEF Base, Change
  <2>2. CommittedTable = op.backup
    BY <2>1, CommitSteady
  <2>3. Saved' /\ Change' /\ op' = op
    BY <1>2, <1>5 DEF Saved, Change
  <2>4. /\ CommittedTable' = ram'.db \/ (~rollback' /\ CommittedTable' = op'.backup)
        /\ rollback' => CommittedTable' = ram'.db /\ Bound'
    BY <2>3, SavedNext
  <2>5. ~loose'
    BY <2>4, LooseNext
  <2> QED
    BY <2>1, <2>2, <2>3, <2>4, <2>5, <1>2, <1>3, <1>4
<1>6. CASE op.kind = "wipe"
  <2>1. ~Running /\ ~Running'
    BY <1>2, <1>6 DEF Running
  <2>2. Chosen(NoActive) /\ ram.db = NoEntries
    BY <1>2, <1>6 DEF PsInv, WipeInv, Wiping
  <2>3. CommittedTable = NoEntries /\ ~loose
    BY <2>1, <2>2, CommitNone, LooseIs
  <2>4. PICK b \in 0 .. 1 : b = scratch /\ ram.active = 1 - b
    BY <1>1 DEF Typed
  <2>5. /\ tabFile'[b].state = "full" /\ tabFile'[b].db = NoEntries
        /\ rollback => tabFile'[b].nvc = nvc[1]
        /\ tabFile'[1 - b] = tabFile[1 - b]
    BY <2>2, <2>4, <1>1 DEF FinishTable, Typed
  <2>6. ~Authentic(rollback, tabFile, nvc, 1 - b)
    BY <2>2, <2>4, <1>1, SelectedType DEF Chosen, Typed
  <2>7. ~Authentic(rollback, tabFile', nvc, 1 - b) /\ Authentic(rollback, tabFile', nvc, b)
    BY <2>5, <2>6 DEF Authentic
  <2>8. Selected(rollback, tabFile', nvc) = b
    BY <2>7, SelectedAlone
  <2>9. Chosen(b)'
    BY <2>8, <1>2 DEF Chosen
  <2>10. CommittedTable' = NoEntries
    BY <2>5, <2>9, ChosenNext
  <2>11. rollback => Bound'
    BY <2>5, <1>2 DEF Bound
  <2>12. ~loose'
    BY <2>11, <1>2, LooseNext
  <2> QED
    BY <2>3, <2>10, <2>12
<1> QED
  BY <1>5, <1>6

LEMMA DropTableStep ==
  ASSUME PsInv, PsInv', DropTable
  PROVE  \/ CommittedTable' = CommittedTable /\ (loose' <=> loose)
         \/ /\ CommittedTable = op.backup /\ CommittedTable' = ram.db
            /\ Change /\ (Saving \/ Saved) /\ ~loose'
<1>1. Typed
  BY TypedFacts
<1>2. /\ pc = "drop_table" /\ pc' \in {"idle", "drop_object"} /\ UNCHANGED <<rollback, nvc, ram, op>>
      /\ tabFile' = [tabFile EXCEPT ![scratch] = NoTable] /\ Change
  BY DEF DropTable, Reply, PsInv, KindInv
<1>3. Saved /\ Steady' /\ Base' = ram.db
  BY <1>2 DEF Saved, Steady, Base, Saving
<1>4. /\ CommittedTable = ram.db \/ (~rollback /\ CommittedTable = op.backup)
      /\ rollback => Bound
  BY <1>2, <1>3, CommitSaved
<1>5. CommittedTable' = ram.db
  BY <1>3, SteadyNext
<1>6. rollback => Bound'
  <2>1. tabFile'[ram.active] = tabFile[ram.active]
    BY <1>2, Removal
  <2>2. rollback => tabFile[ram.active].state = "full" /\ tabFile[ram.active].nvc = nvc[1]
    BY <1>3 DEF PsInv, SavedInv
  <2> QED
    BY <2>1, <2>2, <1>1, <1>2 DEF Bound, Typed
<1>7. ~loose /\ ~loose'
  BY <1>2, <1>4, <1>6, LooseIs, LooseNext
<1> QED
  BY <1>2, <1>3, <1>4, <1>5, <1>7

LEMMA DropFailsStep ==
  ASSUME PsInv, PsInv', DropFails
  PROVE  CommittedTable' = CommittedTable /\ (loose' <=> loose)
<1>1. Typed
  BY TypedFacts
<1>2. /\ pc \in {"drop_table", "drop_object"} /\ pc' = "idle"
      /\ UNCHANGED <<rollback, objFile, tabFile, nvc, ram, op>> /\ Change
  BY DEF DropFails, Reply, persistent, PsInv, KindInv
<1>3. Steady' /\ Base' = ram.db /\ (Bound' <=> Bound)
  BY <1>2 DEF Steady, Base, Saving, Bound
<1>4. CASE pc = "drop_object"
  <2>1. Steady /\ Base = ram.db
    BY <1>4 DEF Steady, Base, Saving
  <2> QED
    BY <2>1, <1>2, <1>3, SteadySame
<1>5. CASE pc = "drop_table"
  <2>1. CommittedTable' = ram.db /\ Running'
    BY <1>3, SteadyNext
  <2>2. Saved /\ Running
    BY <1>2, <1>5 DEF Saved, Running, Change
  <2>3. loose' <=> loose
    BY <2>1, <2>2, <1>2, <1>3, LooseIs, LooseNext
  <2>4. CASE rollback
    BY <2>1, <2>2, <2>3, <2>4, <1>2, CommitSaved
  <2>5. CASE ~rollback
    <3>1. /\ tabFile[ram.active].state = "full" /\ tabFile[ram.active].db = ram.db
          /\ tabFile[scratch].state = "full"
      BY <1>2, <2>2 DEF PsInv, SavedInv
    <3>2. tabFile[ram.active].swap = NextSwapCount(tabFile[scratch].swap)
      <4>1. scratch' = scratch
        BY <1>2 DEF scratch, Other
      <4> QED
        BY <4>1, <3>1, <2>5, <1>2, <1>3 DEF PsInv, SteadyInv
    <3>3. Selected(FALSE, tabFile, nvc) = ram.active
      BY <3>1, <3>2, <1>1, SelectedLater DEF Typed
    <3>4. rollback = FALSE
      BY <2>5, <1>1 DEF Typed
    <3>5. Chosen(ram.active)
      BY <3>3, <3>4 DEF Chosen
    <3>6. CommittedTable = ram.db
      BY <3>1, <3>5, <1>1, CommitChosen DEF Typed
    <3> QED
      BY <3>6, <2>1, <2>3
  <2> QED
    BY <2>4, <2>5
<1> QED
  BY <1>2, <1>4, <1>5

LEMMA AlignSteps ==
  ASSUME PsInv, PsInv', AlignStep \/ AlignDone
  PROVE  CommittedTable' = CommittedTable /\ (loose' <=> loose)
<1>1. Typed
  BY TypedFacts
<1>2. /\ pc = "align" /\ rollback /\ UNCHANGED <<rollback, objFile, tabFile, ram>>
      /\ op.kind \in {"boot", "again", "wipe", "set", "remove"}
      /\ nvc'[1] = nvc[1] /\ (op.kind # "wipe" => op' = op)
  BY <1>1 DEF AlignStep, AlignDone, ToAlign, persistent, SaveDone, Reply, PsInv, KindInv, Typed, Ops
<1>3. Bound' <=> Bound
  BY <1>2 DEF Bound
<1>4. CASE op.kind \in {"boot", "again"}
  <2>1. Steady /\ Steady' /\ Base' = Base
    BY <1>2, <1>4 DEF AlignStep, AlignDone, Reply, Steady, Base, Saving
  <2> QED
    BY <2>1, <1>2, <1>3, SteadySame
<1>5. CASE op.kind \in {"set", "remove"}
  <2>1. Saved /\ Change /\ Saved' /\ Change'
    BY <1>2, <1>5 DEF AlignStep, AlignDone, SaveDone, Saved, Change
  <2>2. CommittedTable = ram.db /\ CommittedTable' = ram'.db /\ Running /\ Running'
    BY <2>1, <1>2, CommitSaved, SavedNext
  <2> QED
    BY <2>2, <1>2, <1>3, LooseIs, LooseNext
<1>6. CASE op.kind = "wipe"
  <2>1. Saved
    BY <1>2, <1>6 DEF Saved
  <2>2. Chosen(ram.active) /\ Bound
    BY <2>1, <1>1, <1>2, SavedChosen DEF PsInv, SavedInv, Bound, Typed
  <2>3. CommittedTable = tabFile[ram.active].db /\ ~loose /\ ~loose'
    BY <2>2, <1>1, <1>3, CommitChosen, LooseIs, LooseNext DEF Typed
  <2>4. PICK a \in 0 .. 1 : a = ram.active
    BY <1>1 DEF Typed
  <2>5. Selected(TRUE, tabFile, nvc') = a
    <3>1. /\ tabFile[a].state = "full" /\ tabFile[a].nvc = nvc[1]
          /\ tabFile[1 - a].state = "full" => tabFile[1 - a].nvc < nvc[1]
      BY <2>1, <2>4, <1>1, <1>2 DEF PsInv, SavedInv, Typed
    <3>2. tabFile[1 - a].state = "full" => tabFile[1 - a].nvc # nvc'[1]
      BY <3>1, <1>1, <1>2 DEF Typed
    <3> QED
      BY <3>1, <3>2, <1>2, SelectedBound
  <2>6. rollback' = TRUE
    BY <1>1, <1>2 DEF Typed
  <2>7. Chosen(a)'
    BY <2>5, <2>6, <1>2 DEF Chosen
  <2>8. CommittedTable' = tabFile'[a].db
    BY <2>7, ChosenNext
  <2> QED
    BY <2>3, <2>4, <2>8, <1>2
<1> QED
  BY <1>2, <1>4, <1>5, <1>6

\* Power fails: nothing changes, or a loose store is lost.
LEMMA CrashStep ==
  ASSUME PsInv, PsInv', Crash
  PROVE  \/ CommittedTable' = CommittedTable /\ (loose' <=> loose)
         \/ loose /\ CommittedTable' = NoEntries /\ ~loose'
<1>1. Typed
  BY TypedFacts
<1>2. UNCHANGED <<rollback, objFile, tabFile, nvc>> /\ pc' = "prepare" /\ ~Running'
  BY DEF Crash, Restart, persistent, Running
<1>3. CASE ~Running \/ ~Chosen(NoActive)
  BY <1>2, <1>3, StoppedSame
<1>4. CASE Running /\ Chosen(NoActive)
  <2>1. Chosen(NoActive)'
    BY <1>2, <1>4 DEF Chosen
  <2>2. CommittedTable' = NoEntries /\ ~loose'
    BY <2>1, <1>2, NoneNext, LooseNext
  <2>3. \A t \in 0 .. 1 : ~Authentic(rollback, tabFile, nvc, t)
    BY <1>4, SelectedType DEF Chosen
  <2>4. ~Bound
    BY <2>3 DEF Bound, Authentic
  <2>5. tabFile[ram.active].state = "full"
    <3>1. CASE pc = "drop_scratch"
      BY <3>1, <1>1, <1>4 DEF PsInv, BootInv, Chosen, Typed, NoActive
    <3>2. CASE Steady \/ Saved
      BY <3>2 DEF PsInv, SteadyInv, SavedInv
    <3>3. pc = "drop_scratch" \/ Steady \/ Saved
      BY <1>1, <1>4 DEF Running, Typed, Phases, Ops, PsInv, KindInv, Steady, Saved, Saving, Creating
    <3> QED
      BY <3>1, <3>2, <3>3
  <2>6. rollback
    BY <2>3, <2>5, <1>1 DEF Authentic, Typed
  <2> QED
    BY <2>2, <2>4, <2>6, <1>4, LooseIs
<1> QED
  BY <1>3, <1>4

-----------------------------------------------------------------------------
(* The refinement.                                                         *)

\* Between the two tables of a request lies exactly its change.
LEMMA CommitEffect ==
  ASSUME PsInv, RequestInv, Change, Saving \/ Saved
  PROVE  /\ op.uid \in Uids /\ op.obj \in Objects \cup {NoObject}
         /\ Contents(ram.db) = [Contents(op.backup) EXCEPT ![op.uid] = op.obj]
         /\ Contents(ram.db) # Contents(op.backup)
         /\ ~Contents(op.backup)[op.uid].once
         /\ op.obj = NoObject \/ op.obj.data = request
<1>1. Good(ram.db) /\ Good(op.backup)
  BY DEF PsInv, TablesInv
<1>2. op.uid \in Uids /\ Working /\ Achieved
  BY DEF PsInv, ChangeInv, Achieved, Working
<1>3. ~Contents(op.backup)[op.uid].once
  <2>1. CASE \E i \in Idx : op.backup[i].uid = op.uid
    <3>1. PICK i \in Idx : op.backup[i].uid = op.uid
      BY <2>1
    <3>2. Contents(op.backup)[op.uid] = op.backup[i].tag
      BY <3>1, <1>1, <1>2, ContentsAt
    <3> QED
      BY <3>1, <3>2, <1>2 DEF RequestInv
  <2>2. CASE \A i \in Idx : op.backup[i].uid # op.uid
    <3>1. Contents(op.backup)[op.uid] = NoObject
      BY <2>2, <1>1, <1>2, ContentsAt
    <3> QED
      BY <3>1 DEF NoObject
  <2> QED
    BY <2>1, <2>2
<1>4. CASE op.kind = "set"
  <2>1. /\ op.new \in Idx /\ op.backup[op.new].uid = NoUid
        /\ ram.db = Replaced(op.backup, op.uid, op.new, op.obj)
        /\ op.obj.data = request /\ Upto(op.backup, request - 1)
    BY <1>2, <1>4 DEF RequestInv
  <2>2. Contents(ram.db) = [Contents(op.backup) EXCEPT ![op.uid] = op.obj]
    BY <1>1, <1>2, <2>1, SetContents
  <2>3. op.obj \in Objects
    <3>1. ram.db[op.new].uid = op.uid /\ ram.db[op.new].tag = op.obj
      BY <1>2, <1>4 DEF Achieved
    <3> QED
      BY <3>1, <2>1, <1>1, <1>2, PsAssumption DEF Good
  <2>4. Contents(op.backup)[op.uid] # op.obj
    <3>1. op.obj # NoObject /\ request \in Nat
      BY <2>3, PsAssumption DEF Objects, NoObject, PsInv, TypeOK
    <3>2. CASE \E i \in Idx : op.backup[i].uid = op.uid
      <4>1. PICK i \in Idx : op.backup[i].uid = op.uid
        BY <3>2
      <4>2. Contents(op.backup)[op.uid] = op.backup[i].tag
        BY <4>1, <1>1, <1>2, ContentsAt
      <4>3. op.backup[i].tag \in Objects /\ op.backup[i].tag.data <= request - 1
        BY <4>1, <2>1, <1>1, <1>2, PsAssumption DEF Good, Upto
      <4> QED
        BY <4>2, <4>3, <2>1, <3>1 DEF Objects
    <3>3. CASE \A i \in Idx : op.backup[i].uid # op.uid
      BY <3>1, <3>3, <1>1, <1>2, ContentsAt
    <3> QED
      BY <3>2, <3>3
  <2>5. Contents(op.backup) \in [Uids -> Objects \cup {NoObject}]
    BY <1>1, ContentsType
  <2> QED
    BY <2>1, <2>2, <2>3, <2>4, <2>5, <1>2, <1>3
<1>5. CASE op.kind = "remove"
  <2>1. /\ op.old \in Idx /\ op.backup[op.old].uid = op.uid
        /\ ram.db = [op.backup EXCEPT ![op.old] = FreeEntry] /\ op.obj = NoObject
    BY <1>2, <1>5 DEF RequestInv, Achieved
  <2>2. Contents(ram.db) = [Contents(op.backup) EXCEPT ![op.uid] = NoObject]
    BY <1>1, <1>2, <2>1, RemoveContents
  <2>3. Contents(op.backup)[op.uid] # NoObject
    <3>1. Contents(op.backup)[op.uid] = op.backup[op.old].tag
      BY <2>1, <1>1, <1>2, ContentsAt
    <3>2. op.backup[op.old].tag \in Objects
      BY <2>1, <1>1, <1>2, PsAssumption DEF Good
    <3> QED
      BY <3>1, <3>2 DEF Objects, NoObject
  <2>4. Contents(op.backup) \in [Uids -> Objects \cup {NoObject}]
    BY <1>1, ContentsType
  <2> QED
    BY <2>1, <2>2, <2>3, <2>4, <1>2, <1>3
<1> QED
  BY <1>4, <1>5 DEF Change

StoreC == store = Contents(CommittedTable) /\ Good(CommittedTable)

LEMMA StoreNext == PsInv' => store' = Contents(CommittedTable')
<1>1. PsInv => StoreC
  BY StoreContents DEF StoreC
<1>2. PsInv' => StoreC'
  BY <1>1, PTL
<1> QED
  BY <1>2 DEF StoreC, Contents, ps_get_object_entry_idx, NoObject

LEMMA RefineInit == Init /\ PsInv => Abstract!Init
<1> SUFFICES ASSUME Init, PsInv PROVE Abstract!Init
  OBVIOUS
<1>1. store \in [Uids -> Objects \cup {NoObject}]
  BY StoreContents, ContentsType
<1>2. rollback \in BOOLEAN /\ request \in Nat
  BY DEF PsInv, TypeOK
<1>3. ~loose
  <2>1. ~Running
    BY DEF Init, Running
  <2>2. CASE Fresh
    <3>1. \A t \in 0 .. 1 : tabFile[t].state # "full"
      BY <2>2 DEF Fresh, NoTable
    <3>2. Chosen(NoActive)
      BY <3>1, SelectedType DEF Chosen, Authentic
    <3> QED
      BY <3>2, <2>1, LooseIs
  <2>3. CASE Used
    <3>1. Bound
      BY <2>3 DEF Used, Bound
    <3> QED
      BY <3>1, LooseIs
  <2> QED
    BY <2>2, <2>3 DEF Init
<1> QED
  BY <1>1, <1>2, <1>3 DEF Abstract!Init, Init

\* A step of an unharmed store, after which it still is.
LEMMA RefineUnharmed ==
  SwapSafe /\ PsInv /\ PsInv' /\ RequestInv /\ [Next]_vars /\ harmed' = {}
    => [Abstract!Next]_<<store, loose, rollback, harmed # {}, request>>
<1> SUFFICES ASSUME SwapSafe, PsInv, PsInv', RequestInv, [Next]_vars, harmed' = {}
             PROVE  [Abstract!Next]_<<store, loose, rollback, harmed # {}, request>>
  OBVIOUS
<1>0. ~Harmful /\ harmed' = harmed
  BY Unharmed
<1>1. /\ store = Contents(CommittedTable) /\ store' = Contents(CommittedTable')
      /\ store \in [Uids -> Objects \cup {NoObject}]
  BY StoreContents, StoreNext, ContentsType
<1>2. loose \in BOOLEAN /\ loose' \in BOOLEAN
  BY DEF loose
<1>3. ASSUME CommittedTable' = CommittedTable, loose' <=> loose, rollback' = rollback
      PROVE  store' = store /\ loose' = loose /\ rollback' = rollback
  BY <1>1, <1>2, <1>3
<1>4. ASSUME CommittedTable = op.backup, CommittedTable' = ram.db, Change, Saving \/ Saved, ~loose',
             rollback' = rollback, request' = request
      PROVE  Abstract!Next
  <2>1. /\ op.uid \in Uids /\ op.obj \in Objects \cup {NoObject}
        /\ store' = [store EXCEPT ![op.uid] = op.obj]
        /\ store' # store /\ ~store[op.uid].once
        /\ op.obj = NoObject \/ op.obj.data = request
    BY <1>1, <1>4, CommitEffect
  <2>2. loose' = FALSE
    BY <1>2, <1>4
  <2>3. Abstract!Commit(op.uid, op.obj)
    BY <2>1, <2>2, <1>0, <1>4 DEF Abstract!Commit
  <2> QED
    BY <2>1, <2>3 DEF Abstract!Next
<1>5. CASE ps_object_table_get_free_fid \/ WriteObject \/ UndoSet \/ FinishObject
           \/ FreeFidFails \/ WriteObjectFails \/ DropObject
  <2>1. request' = request
    BY <1>5 DEF ps_object_table_get_free_fid, WriteObject, UndoSet, FinishObject, FreeFidFails,
       WriteObjectFails, DropObject
  <2> QED
    BY <2>1, <1>0, <1>3, <1>5, SteadySteps
<1>6. CASE Prepare \/ DropScratch \/ ps_object_table_create \/ Panic
  <2>1. request' = request /\ rollback' = rollback
    BY <1>6 DEF Prepare, DropScratch, ps_object_table_create, Panic, Restart
  <2> QED
    BY <2>1, <1>0, <1>3, <1>6, BootSteps
<1>7. CASE IncrementFails \/ WriteTableFails \/ WriteTable
  <2>1. request' = request /\ rollback' = rollback
    BY <1>7 DEF IncrementFails, WriteTableFails, WriteTable
  <2> QED
    BY <2>1, <1>0, <1>3, <1>7, SaveSteps
<1>8. CASE AlignStep \/ AlignDone \/ DropFails
  <2>1. request' = request /\ rollback' = rollback
    BY <1>8 DEF AlignStep, AlignDone, DropFails
  <2> QED
    BY <2>1, <1>0, <1>3, <1>8, AlignSteps, DropFailsStep
<1>9. CASE StartSave
  <2>1. request' = request /\ rollback' = rollback
    BY <1>9 DEF StartSave
  <2>2. /\ CommittedTable' = CommittedTable /\ (loose => loose')
        /\ ~rollback => ~loose /\ ~loose'
    BY <1>9, StartSaveStep
  <2>3. CASE loose' <=> loose
    BY <2>1, <2>2, <2>3, <1>0, <1>3
  <2>4. CASE ~(loose' <=> loose)
    <3>1. rollback /\ ~loose /\ loose' = TRUE /\ store' = store
      BY <2>2, <2>4, <1>1, <1>2
    <3> QED
      BY <3>1, <2>1, <1>0 DEF Abstract!Next, Abstract!Loosen
  <2> QED
    BY <2>3, <2>4
<1>10. CASE FinishTable \/ DropTable
  <2>1. request' = request /\ rollback' = rollback
    BY <1>10 DEF FinishTable, DropTable
  <2> QED
    BY <2>1, <1>0, <1>3, <1>4, <1>10, FinishTableStep, DropTableStep
<1>11. CASE Crash
  <2>1. request' = request /\ rollback' = rollback
    BY <1>11 DEF Crash, Restart
  <2>2. CASE CommittedTable' = CommittedTable /\ (loose' <=> loose)
    BY <2>1, <2>2, <1>0, <1>3
  <2>3. CASE loose /\ CommittedTable' = NoEntries /\ ~loose'
    <3>1. store' = [u \in Uids |-> NoObject] /\ loose' = FALSE
      BY <2>3, <1>1, <1>2, NoContents
    <3> QED
      BY <3>1, <2>1, <2>3, <1>0 DEF Abstract!Next, Abstract!Lose, Abstract!Empty
  <2> QED
    BY <2>2, <2>3, <1>11, CrashStep
<1>12. ASSUME NEW u \in Uids,
              (\E once \in BOOLEAN : ps_object_create(u, once)) \/ ps_object_delete(u)
       PROVE  Abstract!Next
  <2>1. request' = request + 1
    BY <1>12 DEF ps_object_create, ps_object_delete
  <2>2. store' = store /\ loose' = loose /\ rollback' = rollback
    BY <1>3, <1>12, SteadySteps
  <2> QED
    BY <2>1, <2>2, <1>0 DEF Abstract!Next, Abstract!Request
<1>13. ASSUME NEW u \in Uids, ps_object_read(u) \/ Refuse(u)
       PROVE  UNCHANGED <<store, loose, rollback, harmed # {}, request>>
  <2>1. request' = request
    BY <1>13 DEF ps_object_read, Refuse
  <2> QED
    BY <2>1, <1>0, <1>3, <1>13, SteadySteps
<1>14. CASE UNCHANGED vars
  <2>1. /\ UNCHANGED <<rollback, tabFile, nvc, pc, op, ram, request>>
    BY <1>14 DEF vars
  <2>2. CommittedTable' = CommittedTable /\ (loose' <=> loose)
    <3>1. ps_set_active_object_table' = ps_set_active_object_table /\ (Running' <=> Running)
      BY <2>1 DEF ps_set_active_object_table, ps_object_table_authenticate, Running
    <3> QED
      BY <3>1, <2>1 DEF CommittedTable, loose, ps_object_table_authenticate
  <2> QED
    BY <2>1, <2>2, <1>0, <1>3
<1> QED
  BY <1>0, <1>5, <1>6, <1>7, <1>8, <1>9, <1>10, <1>11, <1>12, <1>13, <1>14
     DEF Next, Step, Harmful

\* Every step of the service is one of the abstract store, or changes nothing of it.
LEMMA RefineStep ==
  ASSUME SwapSafe, harmed = {} => PsInv, (harmed = {} => PsInv)',
         harmed = {} => RequestInv, [Next]_vars
  PROVE  [Abstract!Next]_<<store, loose, rollback, harmed # {}, request>>
<1>1. CASE harmed' = {}
  BY <1>1, Unharmed, RefineUnharmed
<1>2. CASE harmed' # {}
  <2>1. (harmed # {})' = TRUE
    BY <1>2
  <2> QED
    BY <2>1 DEF Abstract!Next, Abstract!Harm
<1> QED
  BY <1>1, <1>2

\* The service implements the abstract store: through any number of power failures and
\* of failing writes, removals of requests and increments of counter 1 the store
\* changes by whole objects and only as the request at work says, a write-once object
\* stays, contents never return, and the store is lost only while counter 1 is ahead
\* of the table, until an alignment of the counters or a call of start-up fails.
THEOREM ServiceImplementsStore ==
  ASSUME SwapSafe
  PROVE  Spec => StoreImplemented
<1>1. Spec => [](harmed = {} => PsInv)
  BY InvariantHolds
<1>2. (harmed = {} => PsInv) /\ (harmed = {} => PsInv)' /\ (harmed = {} => RequestInv) /\ [Next]_vars
        => (harmed = {} => RequestInv)'
  BY RequestStep, Unharmed
<1>3. Init => (harmed = {} => RequestInv)
  BY RequestInit
<1>4. Spec => [](harmed = {} => RequestInv)
  BY <1>1, <1>2, <1>3, PTL DEF Spec
<1>5. (harmed = {} => PsInv) /\ (harmed = {} => PsInv)' /\ (harmed = {} => RequestInv) /\ [Next]_vars
        => [Abstract!Next]_<<store, loose, rollback, harmed # {}, request>>
  BY RefineStep
<1>6. Init => Abstract!Init
  BY InvInit, RefineInit
<1> QED
  BY <1>1, <1>4, <1>5, <1>6, PTL DEF Spec, StoreImplemented, Abstract!Spec
=============================================================================
