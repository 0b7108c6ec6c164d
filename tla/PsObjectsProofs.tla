---------------------------- MODULE PsObjectsProofs ---------------------------
(***************************************************************************)
(* Proofs about the protected storage service.  PsInv is inductive: it     *)
(* says, for every phase of a request or of start-up, which table a boot   *)
(* would load (ps_set_active_object_table), and that every object it names *)
(* is in its file.                                                         *)
(***************************************************************************)
EXTENDS PsObjects, FiniteSetTheorems, NaturalsInduction, WellFoundedInduction, TLAPS

\* A table as the service keeps it: an entry is free, no uid has two, and what is
\* entered is an object.
Good(db) ==
  /\ db \in Tables
  /\ FreeIdx(db) # {}
  /\ \A i \in Idx : db[i].uid # NoUid => db[i].tag \in Objects
  /\ \A i, j \in Idx : db[i].uid = db[j].uid /\ db[i].uid # NoUid => i = j

\* Every object of the table can be read.
Readable(files, db) == \A i \in Idx : db[i].uid # NoUid => files[i] = db[i].tag

\* Table t of tables tab is authentic under counters n: ps_object_table_authenticate.
Authentic(rb, tab, n, t) ==
  /\ tab[t].state = "full"
  /\ rb => tab[t].nvc = n[1] \/ (n[3] = n[2] /\ n[3] # 0 /\ tab[t].nvc = n[3])

\* ps_set_active_object_table() of these tables and counters.
Selected(rb, tab, n) ==
  IF Authentic(rb, tab, n, 0)
  THEN IF /\ Authentic(rb, tab, n, 1)
          /\ IF rb THEN tab[1].nvc = n[1] ELSE Later1(tab[0].swap, tab[1].swap)
       THEN 1 ELSE 0
  ELSE IF Authentic(rb, tab, n, 1) THEN 1 ELSE NoActive

Chosen(t) == Selected(rollback, tabFile, nvc) = t

ChosenReadable == \A t \in 0 .. 1 : Chosen(t) => Readable(objFile, tabFile[t].db)

Saving == pc \in {"save", "write_table", "finish_table"}

Wiping == pc \in {"create", "panic"} \/ (Saving /\ op.kind = "wipe")

Change == op.kind \in {"set", "remove"}

\* The new table is in its file and the counters or the old table remain.
Saved == pc = "drop_table" \/ (pc = "align" /\ op.kind \in {"set", "remove", "wipe"})

Creating == pc \in {"free_fid", "write_object", "finish_object", "undo"}

\* The service works with the table in RAM and has no newer one in flash.
Steady ==
  \/ pc \in {"idle", "drop_object"} \/ Creating
  \/ Saving /\ op.kind # "wipe"
  \/ pc = "align" /\ op.kind \in {"boot", "again"}

\* The table in RAM before the change that is being saved.
Base == IF Saving THEN op.backup ELSE ram.db

\* A failed write has left the swap count in RAM ahead.
Inexact == "write" \in Faults /\ errors > 0

KindInv ==
  /\ pc \in {"prepare", "drop_scratch"} => op.kind \in {"boot", "again"}
  /\ pc = "create" => op.kind = "wipe"
  /\ Saving => op.kind \in {"set", "remove", "wipe"}
  /\ pc = "align" => op.kind # "query" /\ rollback
  /\ Creating => op.kind = "set"
  /\ pc \in {"drop_table", "drop_object"} => Change
  /\ pc = "idle" => op.kind # "wipe"

TablesInv ==
  /\ Good(ram.db) /\ Good(op.backup)
  /\ \A t \in 0 .. 1 : Good(tabFile[t].db)

\* A table that is not bound to counter 1 is bound to no counter to come.
CountersInv ==
  /\ nvc[3] <= nvc[2] /\ nvc[2] <= nvc[1]
  /\ rollback => \A t \in 0 .. 1 :
       tabFile[t].state = "full" => tabFile[t].nvc = nvc[1] \/ tabFile[t].nvc <= nvc[3]

BootInv ==
  /\ pc = "prepare" => ChosenReadable
  /\ pc = "drop_scratch" =>
       /\ Chosen(ram.active) /\ Readable(objFile, ram.db)
       /\ ram.db = tabFile[ram.active].db /\ ram.swap = tabFile[ram.active].swap

WipeInv == Wiping => Chosen(NoActive) /\ (Saving => ram.db = NoEntries)

SavedInv ==
  Saved =>
    /\ tabFile[ram.active].state = "full" /\ tabFile[ram.active].db = ram.db
    /\ Readable(objFile, ram.db)
    /\ rollback => /\ tabFile[ram.active].nvc = nvc[1]
                   /\ tabFile[scratch].state = "full" => tabFile[scratch].nvc < nvc[1]
                   /\ pc = "drop_table" => nvc[3] = nvc[1]
    /\ ~rollback => /\ ram.swap = tabFile[ram.active].swap
                    /\ \/ Inexact
                       \/ tabFile[ram.active].swap = NextSwapCount(tabFile[scratch].swap)
    /\ Change => /\ tabFile[scratch].state = "full" /\ tabFile[scratch].db = op.backup
                 /\ Readable(objFile, op.backup)

SteadyInv ==
  Steady =>
    /\ tabFile[ram.active].state = "full" /\ tabFile[ram.active].db = Base
    /\ Readable(objFile, ram.db) /\ Readable(objFile, Base)
    /\ tabFile[scratch].state = "full" =>
         /\ pc \notin {"align", "finish_table"}
         /\ rollback => tabFile[scratch].nvc < nvc[3]
         /\ ~rollback => tabFile[ram.active].swap = NextSwapCount(tabFile[scratch].swap)
    /\ rollback /\ pc # "align" => tabFile[ram.active].nvc <= nvc[3]
    /\ rollback /\ pc \in {"write_table", "finish_table"} => nvc[3] < nvc[1]
    /\ ~rollback =>
         \/ Inexact
         \/ ram.swap = IF pc \in {"write_table", "finish_table"}
                       THEN NextSwapCount(tabFile[ram.active].swap)
                       ELSE tabFile[ram.active].swap

\* A new object has an index of its own, and leaves one free.
CreateInv ==
  Creating =>
    /\ op.uid \in Uids /\ op.obj \in Objects /\ op.backup = ram.db
    /\ op.new \in Idx /\ ram.db[op.new].uid = NoUid
    /\ pc # "undo" =>
         /\ op.old # NoIdx => op.old \in Idx /\ ram.db[op.old].uid = op.uid
         /\ op.old = NoIdx => /\ \A i \in Idx : ram.db[i].uid # op.uid
                              /\ \E k \in Idx : k # op.new /\ ram.db[k].uid = NoUid

\* The table in RAM says what the request asked for.
Achieved ==
  /\ op.uid \in Uids
  /\ op.kind = "set" => op.new \in Idx /\ ram.db[op.new] = [uid |-> op.uid, tag |-> op.obj]
  /\ op.kind = "remove" => op.obj = NoObject /\ \A i \in Idx : ram.db[i].uid # op.uid

ChangeInv ==
  /\ Change /\ (Saving \/ Saved \/ pc = "drop_object") =>
       /\ Achieved
       /\ op.kind = "set" /\ Saving => op.backup[op.new].uid = NoUid
       /\ op.old # NoIdx => /\ op.old \in Idx /\ ram.db[op.old].uid = NoUid
                            /\ objFile[op.old] \in Objects
  /\ pc = "drop_object" => op.old # NoIdx /\ (rollback => tabFile[ram.active].nvc = nvc[1])
  /\ pc = "idle" /\ res = "ok" /\ Change =>
       Achieved /\ (rollback => tabFile[ram.active].nvc = nvc[1])

\* Without roll-back protection a retry of a failed write skips a swap count, and a
\* boot may then prefer the older table, if its removal fails too.
\* The theorems need that such a build meets one error at most, or that only writes
\* or only removals fail.
SwapSafe == FALSE \in Builds => \/ MaxErrors <= 1
                                \/ "write" \notin Faults \/ "remove" \notin Faults

PsInv ==
  /\ rollback \in Builds /\ TypeOK /\ KindInv /\ TablesInv /\ CountersInv /\ BootInv /\ WipeInv
  /\ SavedInv /\ SteadyInv /\ CreateInv /\ ChangeInv

-----------------------------------------------------------------------------
(* Indices and tables.                                                     *)

\* The least of some indices is one of them.
LEMMA LeastIdx ==
  ASSUME NEW S, S \subseteq Idx, S # {}
  PROVE  Min(S) \in S
<1> DEFINE R == {ss \in Nat \X Nat : ss[1] < ss[2]}
<1>1. S \subseteq Nat
  BY PsAssumption DEF Idx
<1>2. IsWellFoundedOn(R, Nat)
  BY NatLessThanWellFounded, Zenon DEF OpToRel
<1> HIDE DEF R
<1>3. PICK i \in S : \A j \in S : ~ (<<j, i>> \in R)
  BY <1>1, <1>2, WFMin
<1>4. ASSUME NEW j \in S PROVE i <= j
  <2> SUFFICES ASSUME j < i PROVE FALSE
    BY <1>1
  <2> DEFINE p == <<j, i>>
  <2>1. p \in Nat \X Nat /\ p[1] < p[2]
    BY <1>1
  <2> HIDE DEF p
  <2>2. p \in R
    BY <2>1 DEF R
  <2> QED
    BY <1>3, <2>2 DEF p
<1> QED
  BY <1>4 DEF Min

\* The entry of a uid.
LEMMA EntryIdx ==
  ASSUME NEW db, NEW u
  PROVE  LET i == ps_get_object_entry_idx(db, u)
         IN  /\ i \in 0 .. NumEntries
             /\ i # NoIdx => i \in Idx /\ db[i].uid = u
             /\ i = NoIdx => \A j \in Idx : db[j].uid # u
<1> DEFINE found == {i \in Idx : db[i].uid = u}
<1>1. found \subseteq Idx /\ NoIdx \notin Idx /\ Idx \subseteq 0 .. NumEntries
         /\ NoIdx \in 0 .. NumEntries
  BY PsAssumption DEF Idx, NoIdx
<1>2. ps_get_object_entry_idx(db, u) = IF found = {} THEN NoIdx ELSE Min(found)
  BY DEF ps_get_object_entry_idx
<1>3. found # {} => Min(found) \in found
  BY <1>1, LeastIdx
<1> HIDE DEF found
<1>4. CASE found = {}
  BY <1>1, <1>2, <1>4 DEF found
<1>5. CASE found # {}
  BY <1>1, <1>2, <1>3, <1>5 DEF found
<1> QED
  BY <1>4, <1>5

\* A free index, and if the second is asked for there is another one.
LEMMA FreeIdxOf ==
  ASSUME NEW db, NEW num \in {1, 2}
  PROVE  LET i == ps_table_free_idx(db, num)
         IN  /\ i \in 0 .. NumEntries
             /\ i # NoIdx => i \in Idx /\ db[i].uid = NoUid
             /\ i # NoIdx /\ num = 2 => \E k \in Idx : k # i /\ db[k].uid = NoUid
<1> DEFINE Upto(i) == {j \in FreeIdx(db) : j <= i}
           enough == {i \in FreeIdx(db) : Cardinality(Upto(i)) = num}
           n == ps_table_free_idx(db, num)
<1>1. enough \subseteq Idx /\ NoIdx \notin Idx /\ Idx \subseteq 0 .. NumEntries
         /\ NoIdx \in 0 .. NumEntries
  BY PsAssumption DEF Idx, NoIdx, FreeIdx
<1>2. n = IF enough = {} THEN NoIdx ELSE Min(enough)
  BY DEF ps_table_free_idx
<1>3. enough # {} => Min(enough) \in enough
  BY <1>1, LeastIdx
<1> HIDE DEF enough
<1>4. CASE enough = {}
  BY <1>1, <1>2, <1>4
<1>5. CASE enough # {}
  <2> HIDE DEF n, Upto
  <2>1. n \in enough
    BY <1>2, <1>3, <1>5
  <2>2. n \in Idx /\ n \in FreeIdx(db) /\ db[n].uid = NoUid /\ Cardinality(Upto(n)) = num
    BY <2>1, <1>1 DEF enough, FreeIdx
  <2>3. ASSUME num = 2 PROVE \E k \in Idx : k # n /\ db[k].uid = NoUid
    <3>1. Upto(n) # {n}
      <4>1. Cardinality({n}) = 1
        BY FS_Singleton
      <4> QED
        BY <2>2, <2>3, <4>1
    <3>2. n \in Upto(n)
      BY <2>2 DEF Upto, Idx
    <3>3. PICK k \in Upto(n) : k # n
      BY <3>1, <3>2
    <3> QED
      BY <3>3 DEF Upto, FreeIdx
  <2> QED
    BY <2>2, <2>3, <1>1 DEF n
<1> QED
  BY <1>4, <1>5

\* The empty table.
LEMMA EmptyGood ==
  /\ Good(NoEntries) /\ FreeEntry \in [uid : Uids \cup {NoUid}, tag : Files]
  /\ NoTable.db = NoEntries /\ TornTable.db = NoEntries
  /\ \A files : Readable(files, NoEntries)
<1>1. FreeEntry \in [uid : Uids \cup {NoUid}, tag : Files] /\ FreeEntry.uid = NoUid
  BY DEF FreeEntry, Files
<1>2. NoEntries \in Tables /\ \A i \in Idx : NoEntries[i] = FreeEntry
  BY <1>1 DEF NoEntries, Tables
<1>3. 0 \in Idx
  BY PsAssumption DEF Idx
<1> QED
  BY <1>1, <1>2, <1>3 DEF Good, FreeIdx, Readable, NoTable, TornTable

-----------------------------------------------------------------------------
(* The table that a boot selects.                                          *)

LEMMA SelectedIs == ps_set_active_object_table = Selected(rollback, tabFile, nvc)
<1>1. \A t \in 0 .. 1 : ps_object_table_authenticate(t) # "invalid"
                          <=> Authentic(rollback, tabFile, nvc, t)
  BY DEF ps_object_table_authenticate, Authentic
<1>2. ps_object_table_authenticate(1) = "nvc_1" <=>
        tabFile[1].state = "full" /\ rollback /\ tabFile[1].nvc = nvc[1]
  BY DEF ps_object_table_authenticate
<1> QED
  BY <1>1, <1>2 DEF ps_set_active_object_table, Selected, Authentic, NoActive

\* Only an authentic table is selected, and one is if there is one.
LEMMA SelectedType ==
  ASSUME NEW rb, NEW tab, NEW n
  PROVE  /\ Selected(rb, tab, n) \in 0 .. 2
         /\ \A t \in 0 .. 1 : Selected(rb, tab, n) = t => Authentic(rb, tab, n, t)
         /\ Selected(rb, tab, n) = NoActive <=> \A t \in 0 .. 1 : ~Authentic(rb, tab, n, t)
BY DEF Selected, NoActive

\* If the other table is not authentic.
LEMMA SelectedAlone ==
  ASSUME NEW rb, NEW tab, NEW n, NEW a \in 0 .. 1, ~Authentic(rb, tab, n, 1 - a)
  PROVE  /\ Selected(rb, tab, n) \in {a, NoActive}
         /\ Authentic(rb, tab, n, a) => Selected(rb, tab, n) = a
BY DEF Selected, NoActive

\* With roll-back protection the table bound to counter 1 wins ...
LEMMA SelectedBound ==
  ASSUME NEW tab, NEW n, NEW a \in 0 .. 1,
         tab[a].state = "full", tab[a].nvc = n[1],
         tab[1 - a].state = "full" => tab[1 - a].nvc # n[1]
  PROVE  Selected(TRUE, tab, n) = a
BY DEF Selected, Authentic

\* ... without it the next swap count, also where it wraps.
LEMMA SelectedLater ==
  ASSUME NEW tab, NEW n, NEW a \in 0 .. 1,
         tab[a].state = "full", tab[1 - a].state = "full",
         tab[1 - a].swap \in 0 .. FlashDefault - 1,
         tab[a].swap = NextSwapCount(tab[1 - a].swap)
  PROVE  Selected(FALSE, tab, n) = a
<1>1. ASSUME NEW s \in 0 .. FlashDefault - 1
      PROVE  Later1(s, NextSwapCount(s)) /\ ~Later1(NextSwapCount(s), s)
  BY PsAssumption DEF Later1, NextSwapCount
<1>2. CASE a = 0
  BY <1>1, <1>2 DEF Selected, Authentic
<1>3. CASE a = 1
  BY <1>1, <1>3 DEF Selected, Authentic
<1>4. a = 0 \/ a = 1
  OBVIOUS
<1> QED
  BY <1>2, <1>3, <1>4

-----------------------------------------------------------------------------
(* Types.                                                                  *)

TableFiles == [state : {"none", "torn", "full"}, db : Tables, swap : 0 .. FlashDefault - 1,
               nvc : Nat]

LEMMA Constants ==
  /\ NoEntries \in Tables /\ NoObject \in Files /\ TornObject \in Files /\ FirstObject \in Files
  /\ NoTable \in TableFiles /\ TornTable \in TableFiles
  /\ NoIdx \in 0 .. NumEntries /\ Objects \subseteq Files
  /\ FreeEntry \in [uid : Uids \cup {NoUid}, tag : Files]
<1>1. NoEntries \in Tables /\ FreeEntry \in [uid : Uids \cup {NoUid}, tag : Files]
  BY EmptyGood DEF Good
<1>2. NoTable \in TableFiles /\ TornTable \in TableFiles
  BY <1>1, PsAssumption DEF NoTable, TornTable, TableFiles
<1>3. FirstObject \in Objects
  BY PsAssumption DEF FirstObject, Objects
<1> QED
  BY <1>1, <1>2, <1>3, PsAssumption DEF Files, NoIdx

LEMMA OperationType ==
  ASSUME NEW kind
  PROVE  /\ Operation(kind) = [kind |-> kind, uid |-> NoUid, obj |-> NoObject,
                               old |-> NoIdx, new |-> NoIdx, backup |-> NoEntries]
         /\ Operation(kind).kind = kind /\ Operation(kind).backup = NoEntries
BY DEF Operation

Ops == [kind : {"boot", "again", "wipe", "set", "remove", "query"}, uid : Uids \cup {NoUid},
        obj : Files, old : 0 .. NumEntries, new : 0 .. NumEntries, backup : Tables]

LEMMA OperationIn ==
  ASSUME NEW kind \in {"boot", "again", "wipe", "set", "remove", "query"}
  PROVE  Operation(kind) \in Ops
BY Constants DEF Operation, Ops

\* The type invariant, with the sets of its records named.
LEMMA TypeIs ==
  TypeOK <=>
  /\ harmed \subseteq HarmfulCalls
  /\ rollback \in BOOLEAN /\ objFile \in [Idx -> Files] /\ tabFile \in [0 .. 1 -> TableFiles]
  /\ nvc \in [1 .. 3 -> Nat] /\ ram \in [db : Tables, swap : 0 .. FlashDefault - 1, active : 0 .. 1]
  /\ pc \in Phases /\ op \in Ops /\ res \in {"none", "ok", "error"}
  /\ request \in 0 .. MaxRequests /\ crashes \in 0 .. MaxCrashes /\ errors \in 0 .. MaxErrors
BY DEF TypeOK, TableFiles, Ops

LEMMA FirstType ==
  /\ Good(FirstEntries)
  /\ \A i \in Idx : FirstEntries[i].tag \in Files
<1> DEFINE new == ps_table_free_idx(NoEntries, 2)
           u == CHOOSE v \in Uids : TRUE
<1>1. /\ new \in 0 .. NumEntries
      /\ new # NoIdx => new \in Idx /\ \E k \in Idx : k # new /\ NoEntries[k].uid = NoUid
  BY FreeIdxOf
<1>2. u \in Uids
  BY PsAssumption
<1>3. FirstEntries = [NoEntries EXCEPT ![new] = [uid |-> u, tag |-> FirstObject]]
  BY DEF FirstEntries
<1> HIDE DEF new, u
<1>4. FirstObject \in Objects /\ Objects \subseteq Files /\ NoIdx \notin Idx
  BY PsAssumption DEF FirstObject, Objects, Files, NoIdx, Idx
<1>5. Good(NoEntries) /\ \A i \in Idx : NoEntries[i] = FreeEntry
  BY EmptyGood DEF NoEntries
<1>6. FreeEntry.uid = NoUid
  BY DEF FreeEntry
<1>7. CASE new \notin Idx
  <2>1. FirstEntries = NoEntries
    BY <1>3, <1>7, <1>5 DEF Good, Tables
  <2> QED
    BY <2>1, <1>5 DEF Good, Tables
<1>8. CASE new \in Idx
  <2>1. /\ FirstEntries \in Tables /\ FirstEntries[new] = [uid |-> u, tag |-> FirstObject]
        /\ \A i \in Idx : i # new => FirstEntries[i] = FreeEntry
    BY <1>2, <1>3, <1>4, <1>5, <1>8 DEF Good, Tables
  <2>2. \E k \in Idx : k # new
    BY <1>1, <1>4, <1>8
  <2> QED
    BY <2>1, <2>2, <1>2, <1>4, <1>6, <1>8, PsAssumption DEF Good, Tables, FreeIdx
<1> QED
  BY <1>7, <1>8

LEMMA TypeInit == Init => TypeOK
<1> SUFFICES ASSUME Init PROVE TypeOK
  OBVIOUS
<1>1. NoRam \in [db : Tables, swap : 0 .. FlashDefault - 1, active : 0 .. 1]
  BY Constants, PsAssumption DEF NoRam
<1>2. /\ rollback \in BOOLEAN /\ ram = NoRam /\ pc \in Phases /\ op \in Ops /\ res = "none"
      /\ request \in 0 .. MaxRequests /\ crashes \in 0 .. MaxCrashes /\ errors \in 0 .. MaxErrors
  BY PsAssumption, OperationIn DEF Init, Phases
<1>3. objFile \in [Idx -> Files] /\ tabFile \in [0 .. 1 -> TableFiles] /\ nvc \in [1 .. 3 -> Nat]
  <2>1. CASE Fresh
    BY <2>1, Constants DEF Fresh
  <2>2. CASE Used
    <3>1. PICK t \in 0 .. 1, swap \in 0 .. FlashDefault - 1 :
            LET n == IF rollback THEN 2 + (1 - t) ELSE 0
            IN  /\ objFile = [i \in Idx |-> FirstEntries[i].tag]
                /\ tabFile = [s \in 0 .. 1 |-> IF s = t
                       THEN [state |-> "full", db |-> FirstEntries, swap |-> swap, nvc |-> n]
                       ELSE NoTable]
                /\ nvc = <<n, n, n>>
      BY <2>2 DEF Used
    <3> DEFINE n == IF rollback THEN 2 + (1 - t) ELSE 0
    <3>2. n \in Nat
      OBVIOUS
    <3> HIDE DEF n
    <3>3. [state |-> "full", db |-> FirstEntries, swap |-> swap, nvc |-> n] \in TableFiles
      BY <3>2, FirstType DEF TableFiles, Good
    <3> QED
      BY <3>1, <3>2, <3>3, FirstType, Constants DEF n
  <2> QED
    BY <2>1, <2>2 DEF Init
<1>4. harmed \subseteq HarmfulCalls
  BY DEF Init
<1> QED
  BY <1>1, <1>2, <1>3, <1>4, TypeIs

\* The failures after which the service gives up what it had; all other steps leave
\* harmed alone.
Harmful == StartFails \/ AlignFails \/ \E t \in 0 .. 1 : TableUnreadable(t)

LEMMA HarmfulSteps ==
  ASSUME [Next]_vars
  PROVE  /\ Harmful => \E call \in HarmfulCalls : harmed' = harmed \cup {call}
         /\ ~Harmful => harmed' = harmed
<1>1. Harmful => \E call \in HarmfulCalls : harmed' = harmed \cup {call}
  BY DEF Harmful, StartFails, AlignFails, TableUnreadable, HarmfulFault, HarmfulCalls
<1>2. ~Harmful => harmed' = harmed
  <2>1. CASE UNCHANGED vars
    BY <2>1 DEF vars
  <2>2. CASE Prepare \/ DropScratch \/ ps_object_table_create \/ StartSave \/ IncrementFails
             \/ WriteTable \/ FinishTable \/ WriteTableFails \/ AlignStep \/ AlignDone
    BY <2>2 DEF Prepare, DropScratch, ps_object_table_create, StartSave, IncrementFails,
       WriteTable, FinishTable, WriteTableFails, AlignStep, AlignDone
  <2>3. CASE ps_object_table_get_free_fid \/ FreeFidFails \/ WriteObject \/ WriteObjectFails
             \/ FinishObject \/ UndoSet \/ DropTable \/ DropObject \/ DropFails \/ Panic \/ Crash
    BY <2>3 DEF ps_object_table_get_free_fid, FreeFidFails, WriteObject, WriteObjectFails,
       FinishObject, UndoSet, DropTable, DropObject, DropFails, Panic, Crash, Restart
  <2>4. ASSUME NEW u \in Uids, \/ \E once \in BOOLEAN : ps_object_create(u, once)
                               \/ ps_object_delete(u) \/ ps_object_read(u) \/ Refuse(u)
        PROVE  harmed' = harmed
    BY <2>4 DEF ps_object_create, ps_object_delete, ps_object_read, Refuse
  <2> QED
    BY <2>1, <2>2, <2>3, <2>4 DEF Next, Step, Harmful
<1> QED
  BY <1>1, <1>2

\* Harm is not undone, and an unharmed store has seen no harmful step.
LEMMA Unharmed ==
  ASSUME [Next]_vars, harmed' = {}
  PROVE  harmed = {} /\ ~Harmful
BY HarmfulSteps

LEMMA TypeStep == TypeOK /\ [Next]_vars => TypeOK'
<1> SUFFICES ASSUME TypeOK, [Next]_vars PROVE TypeOK'
  OBVIOUS
<1>0. /\ rollback \in BOOLEAN /\ objFile \in [Idx -> Files] /\ tabFile \in [0 .. 1 -> TableFiles]
      /\ nvc \in [1 .. 3 -> Nat]
      /\ ram \in [db : Tables, swap : 0 .. FlashDefault - 1, active : 0 .. 1]
      /\ pc \in Phases /\ op \in Ops /\ res \in {"none", "ok", "error"}
      /\ request \in 0 .. MaxRequests /\ crashes \in 0 .. MaxCrashes /\ errors \in 0 .. MaxErrors
  BY TypeIs
<1>h. harmed' \subseteq HarmfulCalls
  BY HarmfulSteps DEF TypeOK
<1> SUFFICES
      /\ rollback' \in BOOLEAN /\ objFile' \in [Idx -> Files] /\ tabFile' \in [0 .. 1 -> TableFiles]
      /\ nvc' \in [1 .. 3 -> Nat]
      /\ ram' \in [db : Tables, swap : 0 .. FlashDefault - 1, active : 0 .. 1]
      /\ pc' \in Phases /\ op' \in Ops /\ res' \in {"none", "ok", "error"}
      /\ request' \in 0 .. MaxRequests /\ crashes' \in 0 .. MaxCrashes /\ errors' \in 0 .. MaxErrors
  BY <1>h DEF TypeOK, TableFiles, Ops
<1>a. ram.active \in 0 .. 1 /\ scratch \in 0 .. 1 /\ ram.db \in Tables /\ op.backup \in Tables
  BY <1>0 DEF scratch, Other, Ops
<1>b. /\ Operation("boot") \in Ops /\ Operation("again") \in Ops /\ Operation("wipe") \in Ops
      /\ Operation("query") \in Ops /\ Operation("remove") \in Ops
  BY OperationIn
<1>c. NoRam \in [db : Tables, swap : 0 .. FlashDefault - 1, active : 0 .. 1]
  BY Constants, PsAssumption DEF NoRam
<1> USE DEF persistent, Phases
<1>1. CASE Prepare
  <2>1. ps_set_active_object_table # NoActive => ps_set_active_object_table \in 0 .. 1
    BY SelectedIs, SelectedType DEF NoActive
  <2>2. \A t \in 0 .. 1 : [db |-> tabFile[t].db, swap |-> tabFile[t].swap, active |-> t]
                            \in [db : Tables, swap : 0 .. FlashDefault - 1, active : 0 .. 1]
    BY <1>0 DEF TableFiles
  <2> QED
    BY <1>0, <1>1, <1>b, <2>1, <2>2 DEF Prepare, PrepareFails
<1>2. CASE DropScratch
  BY <1>0, <1>2, Constants DEF DropScratch, Reply
<1>3. CASE ps_object_table_create
  BY <1>0, <1>3, Constants, PsAssumption DEF ps_object_table_create
<1>4. CASE StartSave
  <2>1. NextSwapCount(ram.swap) \in 0 .. FlashDefault - 1
    BY <1>0, PsAssumption DEF NextSwapCount
  <2> QED
    BY <1>0, <1>4, <2>1 DEF StartSave
<1>5. CASE IncrementFails
  BY <1>0, <1>a, <1>5, PsAssumption DEF IncrementFails, Fault, SaveFails, Reply
<1>6. CASE WriteTable
  BY <1>0, <1>6, Constants DEF WriteTable
<1>7. CASE FinishTable
  <2>1. [state |-> "full", db |-> ram.db, swap |-> ram.swap,
         nvc |-> IF rollback THEN nvc[1] ELSE 0] \in TableFiles
    BY <1>0 DEF TableFiles
  <2> QED
    BY <1>0, <1>7, <1>a, <1>b, <2>1 DEF FinishTable, SaveDone
<1>8. CASE WriteTableFails
  BY <1>0, <1>a, <1>8, PsAssumption DEF WriteTableFails, Fault, SaveFails, Reply
<1>9. CASE AlignStep
  BY <1>0, <1>9 DEF AlignStep, ToAlign
<1>10. CASE AlignDone
  BY <1>0, <1>b, <1>10 DEF AlignDone, SaveDone, Reply
<1>11. CASE ps_object_table_get_free_fid
  BY <1>0, <1>11, Constants DEF ps_object_table_get_free_fid
<1>12. CASE FreeFidFails \/ WriteObjectFails \/ DropFails
  BY <1>0, <1>12, PsAssumption DEF FreeFidFails, WriteObjectFails, DropFails, Fault, Reply
<1>13. CASE WriteObject
  BY <1>0, <1>13, Constants DEF WriteObject
<1>14. CASE FinishObject
  <2>1. op.obj \in Files /\ op.uid \in Uids \cup {NoUid}
    BY <1>0 DEF Ops
  <2>2. Replaced(ram.db, op.uid, op.new, op.obj) \in Tables
    BY <1>a, <2>1, Constants DEF Replaced, Tables
  <2> QED
    BY <1>0, <1>14, <2>1, <2>2 DEF FinishObject
<1>15. CASE UndoSet
  BY <1>0, <1>15, Constants DEF UndoSet, Reply
<1>16. CASE DropTable
  BY <1>0, <1>16, Constants DEF DropTable, Reply
<1>17. CASE DropObject
  BY <1>0, <1>17, Constants DEF DropObject, Reply
<1>18. CASE Panic \/ Crash
  BY <1>0, <1>b, <1>c, <1>18, PsAssumption DEF Panic, Crash, Restart
<1>19. ASSUME NEW u \in Uids, NEW once \in BOOLEAN, ps_object_create(u, once)
       PROVE  /\ request' \in 0 .. MaxRequests /\ op' \in Ops /\ pc' \in Phases
              /\ UNCHANGED <<rollback, persistent, ram, res, crashes, errors>>
  <2>1. [data |-> request + 1, once |-> once] \in Files /\ request' \in 0 .. MaxRequests
    BY <1>0, <1>19, PsAssumption DEF Files, Objects, ps_object_create
  <2>2. ps_get_object_entry_idx(ram.db, u) \in 0 .. NumEntries /\ NewIdx(u) \in 0 .. NumEntries
    BY EntryIdx, FreeIdxOf DEF NewIdx
  <2>3. op' \in Ops
    BY <1>19, <1>a, <2>1, <2>2 DEF Ops, ps_object_create
  <2> QED
    BY <1>19, <2>1, <2>3 DEF ps_object_create
<1>20. ASSUME NEW u \in Uids, ps_object_delete(u)
       PROVE  /\ request' \in 0 .. MaxRequests /\ op' \in Ops /\ pc' \in Phases
              /\ ram' \in [db : Tables, swap : 0 .. FlashDefault - 1, active : 0 .. 1]
              /\ UNCHANGED <<rollback, persistent, res, crashes, errors>>
  <2>1. ps_get_object_entry_idx(ram.db, u) \in 0 .. NumEntries
    BY EntryIdx
  <2>2. request' \in 0 .. MaxRequests
    BY <1>0, <1>20, PsAssumption DEF ps_object_delete
  <2>3. op' \in Ops
    BY <1>20, <1>a, <1>b, <2>1 DEF Ops, ps_object_delete
  <2>4. ram' \in [db : Tables, swap : 0 .. FlashDefault - 1, active : 0 .. 1]
    BY <1>0, <1>20, Constants DEF Tables, ps_object_delete
  <2> QED
    BY <1>20, <2>2, <2>3, <2>4 DEF ps_object_delete
<1>21. ASSUME NEW u \in Uids, ps_object_read(u) \/ Refuse(u)
       PROVE  /\ op' \in Ops /\ res' \in {"none", "ok", "error"}
              /\ UNCHANGED <<rollback, persistent, ram, pc, request, crashes, errors>>
  BY <1>21, <1>b DEF ps_object_read, Refuse
<1>22. CASE UNCHANGED vars
  BY <1>0, <1>22 DEF vars
<1>23. CASE StartFails
  BY <1>0, <1>b, <1>23, PsAssumption DEF StartFails, HarmfulFault, Fault, PrepareFails
<1>24. CASE AlignFails
  BY <1>0, <1>a, <1>24, PsAssumption DEF AlignFails, HarmfulFault, Fault, SaveFails, Reply
<1>25. ASSUME NEW t \in 0 .. 1, TableUnreadable(t)
       PROVE  /\ ram' \in [db : Tables, swap : 0 .. FlashDefault - 1, active : 0 .. 1]
              /\ pc' \in Phases /\ errors' \in 0 .. MaxErrors
              /\ UNCHANGED <<rollback, persistent, op, res, request, crashes>>
  <2>1. Other(t) \in 0 .. 1
    BY DEF Other
  <2>2. [db |-> tabFile[Other(t)].db, swap |-> tabFile[Other(t)].swap, active |-> Other(t)]
          \in [db : Tables, swap : 0 .. FlashDefault - 1, active : 0 .. 1]
    BY <1>0, <2>1 DEF TableFiles
  <2> QED
    BY <1>0, <1>25, <2>2, PsAssumption DEF TableUnreadable, HarmfulFault, Fault
<1> QED
  BY <1>0, <1>1, <1>2, <1>3, <1>4, <1>5, <1>6, <1>7, <1>8, <1>9, <1>10, <1>11, <1>12, <1>13,
     <1>14, <1>15, <1>16, <1>17, <1>18, <1>19, <1>20, <1>21, <1>22, <1>23, <1>24, <1>25
     DEF Next, Step

\* The files, the counters, the table in RAM and the operation have their types,
\* and no table is ever given the swap count of erased flash.
THEOREM TypeCorrect == Spec => []TypeOK
BY TypeInit, TypeStep, PTL DEF Spec

-----------------------------------------------------------------------------
(* The invariant.                                                          *)

\* Where the tables are.
LEMMA Sides ==
  TypeOK => /\ ram.active \in 0 .. 1 /\ scratch \in 0 .. 1 /\ scratch = 1 - ram.active
            /\ scratch # ram.active /\ 1 - scratch = ram.active
BY TypeIs DEF scratch, Other

\* In the steady phases a boot would load the table that the service works with, or
\* none.
LEMMA SteadyChosen ==
  ASSUME PsInv, Steady
  PROVE  Chosen(ram.active) \/ Chosen(NoActive)
<1>1. /\ ram.active \in 0 .. 1 /\ scratch \in 0 .. 1 /\ scratch = 1 - ram.active
      /\ tabFile \in [0 .. 1 -> TableFiles] /\ nvc \in [1 .. 3 -> Nat] /\ rollback \in BOOLEAN
  BY Sides, TypeIs DEF PsInv
<1>2. /\ tabFile[ram.active].state = "full"
      /\ tabFile[scratch].state = "full" =>
           /\ rollback => tabFile[scratch].nvc < nvc[3]
           /\ ~rollback => tabFile[ram.active].swap = NextSwapCount(tabFile[scratch].swap)
      /\ nvc[3] <= nvc[1]
      /\ tabFile[scratch].swap \in 0 .. FlashDefault - 1 /\ tabFile[scratch].nvc \in Nat
      /\ nvc[1] \in Nat /\ nvc[3] \in Nat /\ nvc[2] \in Nat
  BY <1>1 DEF PsInv, SteadyInv, CountersInv, TableFiles
<1>3. CASE ~rollback /\ tabFile[scratch].state = "full"
  <2>1. Selected(FALSE, tabFile, nvc) = ram.active
    BY <1>1, <1>2, <1>3, SelectedLater
  <2> QED
    BY <2>1, <1>1, <1>3 DEF Chosen
<1>4. CASE rollback \/ tabFile[scratch].state # "full"
  <2>1. ~Authentic(rollback, tabFile, nvc, scratch)
    BY <1>2, <1>4 DEF Authentic
  <2>2. ~Authentic(rollback, tabFile, nvc, 1 - ram.active)
    BY <2>1, <1>1
  <2>3. Selected(rollback, tabFile, nvc) \in {ram.active, NoActive}
    BY <1>1, <2>2, SelectedAlone
  <2> QED
    BY <2>3 DEF Chosen
<1> QED
  BY <1>3, <1>4

\* With a saved table and roll-back protection it is the new one.
LEMMA SavedChosen ==
  ASSUME PsInv, Saved, rollback
  PROVE  Chosen(ram.active)
<1>1. /\ ram.active \in 0 .. 1 /\ scratch \in 0 .. 1 /\ scratch = 1 - ram.active
      /\ tabFile \in [0 .. 1 -> TableFiles] /\ nvc \in [1 .. 3 -> Nat] /\ rollback \in BOOLEAN
  BY Sides, TypeIs DEF PsInv
<1>2. /\ tabFile[ram.active].state = "full" /\ tabFile[ram.active].nvc = nvc[1]
      /\ tabFile[scratch].state = "full" => tabFile[scratch].nvc < nvc[1]
      /\ nvc[1] \in Nat /\ tabFile[scratch].nvc \in Nat
  BY <1>1 DEF PsInv, SavedInv, TableFiles
<1>3. tabFile[1 - ram.active].state = "full" => tabFile[1 - ram.active].nvc # nvc[1]
  BY <1>1, <1>2
<1>4. Selected(TRUE, tabFile, nvc) = ram.active
  BY <1>1, <1>2, <1>3, SelectedBound
<1> QED
  BY <1>1, <1>4 DEF Chosen

\* Whenever power fails, a boot can read every object of the table it loads.
LEMMA PowerFailSafe == PsInv => ChosenReadable
<1> SUFFICES ASSUME PsInv PROVE ChosenReadable
  OBVIOUS
<1>1. pc \in Phases /\ op \in Ops /\ rollback \in BOOLEAN /\ ram.active \in 0 .. 1
        /\ scratch \in 0 .. 1 /\ scratch = 1 - ram.active
  BY Sides, TypeIs DEF PsInv
<1>2. CASE pc = "prepare"
  BY <1>2 DEF PsInv, BootInv
<1>3. CASE pc = "drop_scratch"
  BY <1>3 DEF PsInv, BootInv, ChosenReadable, Chosen
<1>4. CASE Wiping
  BY <1>4 DEF PsInv, WipeInv, ChosenReadable, Chosen, NoActive
<1>5. CASE Steady
  <2>1. Chosen(ram.active) \/ Chosen(NoActive)
    BY <1>5, SteadyChosen
  <2>2. Readable(objFile, tabFile[ram.active].db)
    BY <1>5 DEF PsInv, SteadyInv
  <2> QED
    BY <2>1, <2>2, <1>1 DEF ChosenReadable, Chosen, NoActive
<1>6. CASE Saved
  <2>1. Readable(objFile, tabFile[ram.active].db)
    BY <1>6 DEF PsInv, SavedInv
  <2>2. CASE rollback
    BY <2>1, <2>2, <1>6, SavedChosen DEF ChosenReadable, Chosen
  <2>3. CASE ~rollback
    <3>1. Readable(objFile, tabFile[scratch].db)
      BY <1>6, <2>3 DEF PsInv, SavedInv, KindInv, Saved
    <3>2. \A t \in 0 .. 1 : t = ram.active \/ t = scratch
      BY <1>1
    <3> QED
      BY <2>1, <3>1, <3>2 DEF ChosenReadable
  <2> QED
    BY <2>2, <2>3
<1> QED
  <2>1. \/ pc = "prepare" \/ pc = "drop_scratch" \/ Wiping \/ Steady \/ Saved
    BY <1>1 DEF PsInv, KindInv, Phases, Ops, Wiping, Steady, Saved, Saving, Creating
  <2> QED
    BY <2>1, <1>2, <1>3, <1>4, <1>5, <1>6

-----------------------------------------------------------------------------
(* Start-up and saving a table.                                            *)

Typed ==
  /\ rollback \in BOOLEAN /\ rollback \in Builds
  /\ objFile \in [Idx -> Files] /\ tabFile \in [0 .. 1 -> TableFiles]
  /\ nvc \in [1 .. 3 -> Nat] /\ nvc[1] \in Nat /\ nvc[2] \in Nat /\ nvc[3] \in Nat
  /\ ram \in [db : Tables, swap : 0 .. FlashDefault - 1, active : 0 .. 1]
  /\ pc \in Phases /\ op \in Ops /\ res \in {"none", "ok", "error"} /\ errors \in Nat
  /\ ram.active \in 0 .. 1 /\ scratch \in 0 .. 1 /\ scratch = 1 - ram.active
  /\ scratch # ram.active /\ 1 - scratch = ram.active
  /\ \A t \in 0 .. 1 : /\ tabFile[t].nvc \in Nat /\ tabFile[t].swap \in 0 .. FlashDefault - 1
                       /\ t = ram.active \/ t = scratch

LEMMA TypedFacts == PsInv => Typed
<1> SUFFICES ASSUME PsInv PROVE Typed
  OBVIOUS
<1>1. TypeOK /\ rollback \in Builds
  BY DEF PsInv
<1>2. /\ rollback \in BOOLEAN /\ objFile \in [Idx -> Files] /\ tabFile \in [0 .. 1 -> TableFiles]
      /\ nvc \in [1 .. 3 -> Nat]
      /\ ram \in [db : Tables, swap : 0 .. FlashDefault - 1, active : 0 .. 1]
      /\ pc \in Phases /\ op \in Ops /\ res \in {"none", "ok", "error"} /\ errors \in Nat
  BY <1>1, TypeIs, PsAssumption
<1> QED
  BY <1>1, <1>2, Sides DEF Typed, TableFiles

\* A table file is removed or torn.
LEMMA Removal ==
  ASSUME PsInv, NEW X \in {NoTable, TornTable},
         tabFile' = [tabFile EXCEPT ![scratch] = X], UNCHANGED <<rollback, nvc, ram>>
  PROVE  /\ tabFile'[ram.active] = tabFile[ram.active] /\ tabFile'[scratch] = X
         /\ scratch' = scratch /\ X.state # "full"
         /\ \A t \in 0 .. 1 : Good(tabFile'[t].db)
         /\ CountersInv'
         /\ \/ Selected(rollback, tabFile', nvc) = ram.active
            \/ Selected(rollback, tabFile', nvc) = NoActive
         /\ Chosen(ram.active) => Selected(rollback, tabFile', nvc) = ram.active
         /\ Chosen(NoActive) => Selected(rollback, tabFile', nvc) = NoActive
<1>1. Typed
  BY TypedFacts
<1>2. /\ tabFile'[ram.active] = tabFile[ram.active] /\ tabFile'[scratch] = X
      /\ scratch' = scratch /\ X.state # "full" /\ X.db = NoEntries
  BY <1>1 DEF Typed, scratch, Other, NoTable, TornTable
<1>3. \A t \in 0 .. 1 : Good(tabFile'[t].db)
  BY <1>1, <1>2, EmptyGood DEF PsInv, TablesInv, Typed
<1>4. CountersInv'
  BY <1>1, <1>2 DEF PsInv, CountersInv, Typed
<1>5. ~Authentic(rollback, tabFile', nvc, scratch)
  BY <1>2 DEF Authentic
<1>6. ~Authentic(rollback, tabFile', nvc, 1 - ram.active)
  BY <1>1, <1>5 DEF Typed
<1>7. /\ Selected(rollback, tabFile', nvc) \in {ram.active, NoActive}
      /\ Authentic(rollback, tabFile', nvc, ram.active)
           => Selected(rollback, tabFile', nvc) = ram.active
  BY <1>1, <1>6, SelectedAlone DEF Typed
<1>8. Authentic(rollback, tabFile', nvc, ram.active) <=> Authentic(rollback, tabFile, nvc, ram.active)
  BY <1>2 DEF Authentic
<1>9. Chosen(ram.active) => Authentic(rollback, tabFile, nvc, ram.active)
  BY <1>1, SelectedType DEF Chosen, Typed
<1>10. Chosen(NoActive) => ~Authentic(rollback, tabFile, nvc, ram.active)
  BY <1>1, SelectedType DEF Chosen, Typed
<1>11. Chosen(NoActive) => Selected(rollback, tabFile', nvc) # ram.active
  BY <1>1, <1>8, <1>10, SelectedType DEF Typed
<1> QED
  BY <1>2, <1>3, <1>4, <1>7, <1>8, <1>9, <1>11

LEMMA KeepDropScratch ==
  ASSUME PsInv, DropScratch, TypeOK'
  PROVE  PsInv'
<1>1. Typed
  BY TypedFacts
<1>2. /\ pc = "drop_scratch" /\ UNCHANGED <<rollback, objFile, nvc, ram, op, errors>>
      /\ pc' = IF rollback THEN "align" ELSE "idle"
      /\ ~rollback => res' = "none"
      /\ tabFile' = [tabFile EXCEPT ![scratch] = NoTable]
      /\ op.kind \in {"boot", "again"}
  BY DEF DropScratch, Reply, PsInv, KindInv
<1>3. /\ tabFile'[ram.active] = tabFile[ram.active] /\ tabFile'[scratch] = NoTable
      /\ scratch' = scratch /\ NoTable.state # "full"
      /\ \A t \in 0 .. 1 : Good(tabFile'[t].db)
      /\ CountersInv'
  BY <1>2, Removal
<1>4. Authentic(rollback, tabFile, nvc, ram.active)
  BY <1>1, <1>2, SelectedType DEF PsInv, BootInv, Chosen, Typed
<1> USE DEF Saving, Wiping, Change, Saved, Creating, Steady, Base
<1>5. KindInv' /\ TablesInv' /\ BootInv' /\ WipeInv' /\ SavedInv' /\ CreateInv' /\ ChangeInv'
  BY <1>2, <1>3 DEF PsInv, KindInv, TablesInv, BootInv, WipeInv, SavedInv, CreateInv, ChangeInv
<1>6. SteadyInv'
  BY <1>1, <1>2, <1>3, <1>4 DEF PsInv, BootInv, SteadyInv, Authentic
<1> QED
  BY <1>1, <1>2, <1>3, <1>5, <1>6 DEF PsInv, Typed

LEMMA KeepCreateTable ==
  ASSUME PsInv, ps_object_table_create, TypeOK'
  PROVE  PsInv'
<1>1. Typed
  BY TypedFacts
<1>2. /\ pc = "create" /\ pc' = "save" /\ op.kind = "wipe"
      /\ UNCHANGED <<rollback, objFile, tabFile, nvc, op, errors>>
      /\ ram'.db = NoEntries
  BY DEF ps_object_table_create, PsInv, KindInv, persistent
<1> USE DEF Saving, Wiping, Change, Saved, Creating, Steady, Base
<1>3. /\ KindInv' /\ TablesInv' /\ CountersInv' /\ BootInv' /\ SavedInv' /\ SteadyInv'
      /\ CreateInv' /\ ChangeInv'
  BY <1>2, EmptyGood DEF PsInv, KindInv, TablesInv, CountersInv, BootInv, SavedInv, SteadyInv,
     CreateInv, ChangeInv
<1>4. WipeInv'
  BY <1>2 DEF PsInv, WipeInv, Chosen
<1> QED
  BY <1>1, <1>2, <1>3, <1>4 DEF PsInv, Typed

\* Counter 1 moves ahead of both tables; no table becomes authentic.
LEMMA KeepStartSave ==
  ASSUME PsInv, StartSave, TypeOK'
  PROVE  PsInv'
<1>1. Typed
  BY TypedFacts
<1>2. /\ pc = "save" /\ pc' = "write_table" /\ op.kind \in {"set", "remove", "wipe"}
      /\ UNCHANGED <<rollback, objFile, tabFile, op, res, errors>>
  BY DEF StartSave, PsInv, KindInv, Saving
<1>3. /\ ram'.db = ram.db /\ ram'.active = ram.active
      /\ ~rollback => ram'.swap = NextSwapCount(ram.swap) /\ nvc' = nvc
  BY <1>1 DEF StartSave, Typed
<1>4. /\ scratch' = scratch
      /\ nvc'[3] = nvc[3] /\ nvc'[2] = nvc[2] /\ nvc[1] <= nvc'[1] /\ nvc'[1] \in Nat
      /\ rollback => nvc'[1] = nvc[1] + 1
  BY <1>1, <1>3 DEF StartSave, Typed, scratch, Other
<1> USE DEF Saving, Wiping, Change, Saved, Creating, Steady, Base
<1>5. nvc[3] <= nvc[2] /\ nvc[2] <= nvc[1]
  BY DEF PsInv, CountersInv
<1>6. rollback => \A t \in 0 .. 1 : tabFile[t].state = "full" => tabFile[t].nvc <= nvc[3]
  <2>1. CASE op.kind = "wipe"
    <3>1. \A t \in 0 .. 1 : ~Authentic(rollback, tabFile, nvc, t)
      BY <2>1, <1>2, SelectedType DEF PsInv, WipeInv, Chosen
    <3> QED
      BY <3>1 DEF PsInv, CountersInv, Authentic
  <2>2. CASE op.kind # "wipe"
    <3>1. rollback => /\ tabFile[ram.active].nvc <= nvc[3]
                      /\ tabFile[scratch].state = "full" => tabFile[scratch].nvc < nvc[3]
      BY <2>2, <1>2 DEF PsInv, SteadyInv
    <3> QED
      BY <3>1, <1>1 DEF Typed
  <2> QED
    BY <2>1, <2>2
<1>7. CountersInv'
  BY <1>1, <1>2, <1>4, <1>5, <1>6 DEF CountersInv, Typed
<1>8. WipeInv'
  <2> SUFFICES ASSUME op.kind = "wipe" PROVE Chosen(NoActive)' /\ ram'.db = NoEntries
    BY <1>2 DEF WipeInv
  <2>1. ram.db = NoEntries /\ Chosen(NoActive)
    BY <1>2 DEF PsInv, WipeInv
  <2>2. \A t \in 0 .. 1 : ~Authentic(rollback, tabFile, nvc, t)
    BY <2>1, SelectedType DEF Chosen
  <2>3. \A t \in 0 .. 1 : ~Authentic(rollback, tabFile, nvc', t)
    BY <2>2, <1>1, <1>4, <1>5, <1>6 DEF Authentic, Typed
  <2>4. Selected(rollback, tabFile, nvc') = NoActive
    BY <2>3, SelectedType
  <2> QED
    BY <2>1, <2>4, <1>2, <1>3 DEF Chosen
<1>9. SteadyInv'
  <2> SUFFICES ASSUME op.kind # "wipe" PROVE SteadyInv'
    BY <1>2 DEF SteadyInv
  <2>1. /\ tabFile[ram.active].state = "full" /\ tabFile[ram.active].db = op.backup
        /\ Readable(objFile, ram.db) /\ Readable(objFile, op.backup)
        /\ tabFile[scratch].state = "full" =>
             /\ rollback => tabFile[scratch].nvc < nvc[3]
             /\ ~rollback => tabFile[ram.active].swap = NextSwapCount(tabFile[scratch].swap)
        /\ rollback => tabFile[ram.active].nvc <= nvc[3]
        /\ ~rollback => Inexact \/ ram.swap = tabFile[ram.active].swap
    BY <1>2 DEF PsInv, SteadyInv
  <2>2. Inexact' <=> Inexact
    BY <1>2 DEF Inexact
  <2> QED
    BY <2>1, <2>2, <1>1, <1>2, <1>3, <1>4, <1>5 DEF SteadyInv, Typed
<1>10. KindInv' /\ TablesInv' /\ BootInv' /\ SavedInv' /\ CreateInv'
  BY <1>2, <1>3 DEF PsInv, KindInv, TablesInv, BootInv, SavedInv, CreateInv
<1>11. ChangeInv'
  BY <1>2, <1>3 DEF PsInv, ChangeInv, Achieved
<1> QED
  BY <1>1, <1>2, <1>7, <1>8, <1>9, <1>10, <1>11 DEF PsInv, Typed

\* A failed save takes the table in RAM back; only the swap count stays ahead.
LEMMA KeepSaveFails ==
  ASSUME PsInv, IncrementFails \/ WriteTableFails, TypeOK'
  PROVE  PsInv'
<1>1. Typed
  BY TypedFacts
<1> USE DEF Saving, Wiping, Change, Saved, Creating, Steady, Base
<1>2. /\ Saving /\ op.kind \in {"set", "remove", "wipe"}
      /\ UNCHANGED <<rollback, objFile, tabFile, nvc, op>>
      /\ errors' = errors + 1
      /\ rollback \/ "write" \in Faults
      /\ op.kind = "wipe" => pc' = "panic" /\ ram' = ram
      /\ op.kind = "set" => pc' = "undo"
      /\ op.kind = "remove" => pc' = "idle" /\ res' = "error"
  BY DEF IncrementFails, WriteTableFails, SaveFails, Reply, Fault, persistent, PsInv, KindInv
<1>3. op.kind # "wipe" => ram'.db = op.backup /\ ram'.active = ram.active
  BY <1>1 DEF IncrementFails, WriteTableFails, SaveFails, Typed
<1>4. scratch' = scratch /\ ram'.active = ram.active
  BY <1>2, <1>3 DEF scratch, Other
<1>5. ~rollback => Inexact'
  BY <1>1, <1>2 DEF Inexact, Typed
<1>6. SteadyInv'
  <2> SUFFICES ASSUME op.kind # "wipe" PROVE SteadyInv'
    BY <1>2 DEF SteadyInv
  <2>1. /\ tabFile[ram.active].state = "full" /\ tabFile[ram.active].db = op.backup
        /\ Readable(objFile, op.backup)
        /\ tabFile[scratch].state = "full" =>
             /\ rollback => tabFile[scratch].nvc < nvc[3]
             /\ ~rollback => tabFile[ram.active].swap = NextSwapCount(tabFile[scratch].swap)
        /\ rollback => tabFile[ram.active].nvc <= nvc[3]
    BY <1>2 DEF PsInv, SteadyInv
  <2> QED
    BY <2>1, <1>2, <1>3, <1>4, <1>5 DEF SteadyInv
<1>7. CreateInv'
  <2> SUFFICES ASSUME op.kind = "set" PROVE CreateInv'
    BY <1>2 DEF CreateInv
  <2>1. /\ op.uid \in Uids /\ op.new \in Idx /\ ram.db[op.new] = [uid |-> op.uid, tag |-> op.obj]
        /\ op.backup[op.new].uid = NoUid
    BY <1>2 DEF PsInv, ChangeInv, Achieved
  <2>2. op.obj \in Objects
    BY <2>1, PsAssumption DEF PsInv, TablesInv, Good
  <2> QED
    BY <2>1, <2>2, <1>2, <1>3 DEF CreateInv
<1>8. TablesInv' /\ CountersInv'
  BY <1>2, <1>3 DEF PsInv, TablesInv, CountersInv
<1>9. KindInv' /\ BootInv' /\ SavedInv' /\ ChangeInv'
  BY <1>2 DEF KindInv, BootInv, SavedInv, ChangeInv
<1>10. WipeInv'
  BY <1>2 DEF PsInv, WipeInv, Chosen
<1> QED
  BY <1>1, <1>2, <1>6, <1>7, <1>8, <1>9, <1>10 DEF PsInv, Typed

LEMMA KeepWriteTable ==
  ASSUME PsInv, WriteTable, TypeOK'
  PROVE  PsInv'
<1>1. Typed
  BY TypedFacts
<1> USE DEF Saving, Wiping, Change, Saved, Creating, Steady, Base
<1>2. /\ pc = "write_table" /\ pc' = "finish_table" /\ op.kind \in {"set", "remove", "wipe"}
      /\ tabFile' = [tabFile EXCEPT ![scratch] = TornTable]
      /\ UNCHANGED <<rollback, objFile, nvc, ram, op, res, errors>>
  BY DEF WriteTable, PsInv, KindInv
<1>3. /\ tabFile'[ram.active] = tabFile[ram.active] /\ tabFile'[scratch] = TornTable
      /\ scratch' = scratch /\ TornTable.state # "full"
      /\ \A t \in 0 .. 1 : Good(tabFile'[t].db)
      /\ CountersInv'
      /\ Chosen(NoActive) => Selected(rollback, tabFile', nvc) = NoActive
  BY <1>2, Removal
<1>4. SteadyInv'
  <2> SUFFICES ASSUME op.kind # "wipe" PROVE SteadyInv'
    BY <1>2 DEF SteadyInv
  <2>1. /\ tabFile[ram.active].state = "full" /\ tabFile[ram.active].db = op.backup
        /\ Readable(objFile, ram.db) /\ Readable(objFile, op.backup)
        /\ rollback => tabFile[ram.active].nvc <= nvc[3] /\ nvc[3] < nvc[1]
        /\ ~rollback => Inexact \/ ram.swap = NextSwapCount(tabFile[ram.active].swap)
    BY <1>2 DEF PsInv, SteadyInv
  <2>2. Inexact' <=> Inexact
    BY <1>2 DEF Inexact
  <2> QED
    BY <2>1, <2>2, <1>2, <1>3 DEF SteadyInv
<1>5. KindInv' /\ TablesInv' /\ BootInv' /\ SavedInv' /\ CreateInv'
  BY <1>2, <1>3 DEF PsInv, KindInv, TablesInv, BootInv, SavedInv, CreateInv
<1>6. WipeInv'
  BY <1>2, <1>3 DEF PsInv, WipeInv, Chosen
<1>7. ChangeInv'
  BY <1>2 DEF PsInv, ChangeInv, Achieved
<1> QED
  BY <1>1, <1>2, <1>3, <1>4, <1>5, <1>6, <1>7 DEF PsInv, Typed

\* The new table is complete: it is the one that a boot would load, unless the swap
\* counts have a gap.
LEMMA KeepFinishTable ==
  ASSUME PsInv, FinishTable, TypeOK'
  PROVE  PsInv'
<1>1. Typed
  BY TypedFacts
<1> USE DEF Saving, Wiping, Change, Saved, Creating, Steady, Base
<1>2. PICK a \in 0 .. 1, b \in 0 .. 1 :
        a = ram.active /\ b = scratch /\ b = 1 - a /\ a = 1 - b /\ a # b
  BY <1>1 DEF Typed
<1> DEFINE new == [state |-> "full", db |-> ram.db, swap |-> ram.swap,
                   nvc |-> IF rollback THEN nvc[1] ELSE 0]
<1>3. /\ pc = "finish_table" /\ op.kind \in {"set", "remove", "wipe"}
      /\ tabFile' = [tabFile EXCEPT ![b] = new]
      /\ UNCHANGED <<rollback, objFile, nvc, res, errors>>
      /\ rollback => pc' = "align" /\ op' = op
      /\ ~rollback /\ op.kind = "wipe" => pc' = "prepare" /\ op' = Operation("again")
      /\ ~rollback /\ op.kind # "wipe" => pc' = "drop_table" /\ op' = op
  BY <1>2 DEF FinishTable, SaveDone, PsInv, KindInv
<1>4. ram'.db = ram.db /\ ram'.swap = ram.swap /\ ram'.active = b /\ scratch' = a
  BY <1>1, <1>2 DEF FinishTable, Typed, scratch, Other
<1>5. /\ tabFile'[b].state = "full" /\ tabFile'[b].db = ram.db /\ tabFile'[b].swap = ram.swap
      /\ rollback => tabFile'[b].nvc = nvc[1]
      /\ tabFile'[a] = tabFile[a]
      /\ \A t \in 0 .. 1 : t = a \/ t = b
  BY <1>1, <1>2, <1>3 DEF Typed
<1> HIDE DEF new
<1>6. /\ op'.kind = (IF ~rollback /\ op.kind = "wipe" THEN "again" ELSE op.kind)
      /\ op'.backup = (IF ~rollback /\ op.kind = "wipe" THEN NoEntries ELSE op.backup)
  BY <1>3, OperationType
<1>7. TablesInv'
  BY <1>4, <1>5, <1>6, EmptyGood DEF PsInv, TablesInv
<1>8. CountersInv'
  BY <1>1, <1>3, <1>5 DEF PsInv, CountersInv, Typed
<1>9. KindInv'
  BY <1>3, <1>6 DEF KindInv
<1>10. WipeInv' /\ SteadyInv' /\ CreateInv'
  BY <1>3, <1>6 DEF WipeInv, SteadyInv, CreateInv
<1>11. ASSUME op.kind = "wipe"
       PROVE  /\ ram.db = NoEntries
              /\ ~Authentic(rollback, tabFile, nvc, a)
  BY <1>2, <1>3, <1>11, SelectedType DEF PsInv, WipeInv, Chosen
<1>12. BootInv'
  <2> SUFFICES ASSUME ~rollback, op.kind = "wipe" PROVE ChosenReadable'
    BY <1>3, <1>6 DEF BootInv
  <2>1. ~Authentic(rollback, tabFile', nvc, 1 - b)
    BY <1>2, <1>5, <1>11 DEF Authentic
  <2>2. Selected(rollback, tabFile', nvc) \in {b, NoActive}
    BY <2>1, SelectedAlone
  <2>3. tabFile'[b].db = NoEntries
    BY <1>5, <1>11
  <2>4. Readable(objFile', tabFile'[b].db)
    BY <2>3, EmptyGood
  <2>5. \A t \in 0 .. 1 : Selected(rollback', tabFile', nvc') = t => t = b
    BY <2>2, <1>3 DEF NoActive
  <2> QED
    BY <2>4, <2>5 DEF ChosenReadable, Chosen
<1>13. SavedInv'
  <2> SUFFICES ASSUME rollback \/ op.kind # "wipe" PROVE SavedInv'
    BY <1>3, <1>6 DEF SavedInv
  <2>0. op' = op
    BY <1>3
  <2>1. CASE op.kind = "wipe"
    <3>1. tabFile[a].state = "full" => tabFile[a].nvc < nvc[1]
      BY <2>1, <1>1, <1>11 DEF PsInv, CountersInv, Authentic, Typed
    <3>2. Readable(objFile, ram.db)
      BY <2>1, <1>11, EmptyGood
    <3> QED
      BY <2>0, <2>1, <3>1, <3>2, <1>3, <1>4, <1>5 DEF SavedInv
  <2>2. CASE op.kind # "wipe"
    <3>1. /\ tabFile[a].state = "full" /\ tabFile[a].db = op.backup
          /\ Readable(objFile, ram.db) /\ Readable(objFile, op.backup)
          /\ rollback => tabFile[a].nvc <= nvc[3] /\ nvc[3] < nvc[1]
          /\ ~rollback => Inexact \/ ram.swap = NextSwapCount(tabFile[a].swap)
      BY <2>2, <1>2, <1>3 DEF PsInv, SteadyInv
    <3>2. rollback => tabFile[a].nvc < nvc[1]
      BY <3>1, <1>1 DEF Typed
    <3>3. Inexact' <=> Inexact
      BY <1>3 DEF Inexact
    <3> QED
      BY <2>0, <2>2, <3>1, <3>2, <3>3, <1>3, <1>4, <1>5 DEF SavedInv
  <2> QED
    BY <2>1, <2>2
<1>14. ChangeInv'
  <2> SUFFICES ASSUME op.kind # "wipe" PROVE ChangeInv'
    BY <1>3, <1>6 DEF ChangeInv
  <2>0. op' = op
    BY <1>3
  <2>1. /\ Achieved
        /\ op.old # NoIdx => /\ op.old \in Idx /\ ram.db[op.old].uid = NoUid
                             /\ objFile[op.old] \in Objects
    BY <1>3 DEF PsInv, ChangeInv
  <2> QED
    BY <2>0, <2>1, <1>3, <1>4 DEF ChangeInv, Achieved
<1> QED
  BY <1>1, <1>3, <1>7, <1>8, <1>9, <1>10, <1>12, <1>13, <1>14 DEF PsInv, Typed

LEMMA KeepPrepare ==
  ASSUME PsInv, Prepare, TypeOK'
  PROVE  PsInv'
<1>1. Typed
  BY TypedFacts
<1> USE DEF Saving, Wiping, Change, Saved, Creating, Steady, Base
<1>2. /\ pc = "prepare" /\ UNCHANGED <<rollback, objFile, tabFile, nvc, res, errors>>
      /\ op.kind \in {"boot", "again"}
  BY DEF Prepare, PrepareFails, persistent, PsInv, KindInv
<1>3. PICK t \in 0 .. 2 : t = Selected(rollback, tabFile, nvc)
  BY SelectedType
<1>4. ps_set_active_object_table = t
  BY <1>3, SelectedIs
<1>5. CASE t = NoActive
  <2>1. /\ ram' = ram
        /\ op.kind = "boot" => op' = Operation("wipe") /\ pc' = "create"
        /\ op.kind = "again" => op' = op /\ pc' = "panic"
    BY <1>2, <1>4, <1>5 DEF Prepare, PrepareFails
  <2>2. op'.kind = (IF op.kind = "boot" THEN "wipe" ELSE op.kind) /\ Good(op'.backup)
    BY <2>1, <1>2, OperationType, EmptyGood DEF PsInv, TablesInv
  <2>3. KindInv' /\ TablesInv' /\ CountersInv' /\ BootInv' /\ SavedInv' /\ SteadyInv' /\ CreateInv'
          /\ ChangeInv'
    BY <2>1, <2>2, <1>2 DEF PsInv, KindInv, TablesInv, CountersInv, BootInv, SavedInv, SteadyInv,
       CreateInv, ChangeInv
  <2>4. WipeInv'
    BY <2>1, <1>2, <1>3, <1>5 DEF WipeInv, Chosen
  <2> QED
    BY <1>1, <1>2, <2>3, <2>4 DEF PsInv, Typed
<1>6. CASE t # NoActive
  <2>1. t \in 0 .. 1
    BY <1>6 DEF NoActive
  <2>2. /\ ram' = [db |-> tabFile[t].db, swap |-> tabFile[t].swap, active |-> t]
        /\ pc' = "drop_scratch" /\ op' = op
    BY <1>4, <1>6 DEF Prepare
  <2>3. Readable(objFile, tabFile[t].db)
    BY <2>1, <1>2, <1>3 DEF PsInv, BootInv, ChosenReadable, Chosen
  <2>4. KindInv' /\ TablesInv' /\ CountersInv' /\ WipeInv' /\ SavedInv' /\ SteadyInv' /\ CreateInv'
          /\ ChangeInv'
    BY <2>1, <2>2, <1>2 DEF PsInv, KindInv, TablesInv, CountersInv, WipeInv, SavedInv, SteadyInv,
       CreateInv, ChangeInv
  <2>5. BootInv'
    BY <2>1, <2>2, <2>3, <1>2, <1>3 DEF BootInv, Chosen
  <2> QED
    BY <1>1, <1>2, <2>4, <2>5 DEF PsInv, Typed
<1> QED
  BY <1>5, <1>6

\* The counters follow counter 1; a table that was not authentic does not become so.
LEMMA KeepAlignStep ==
  ASSUME PsInv, AlignStep, TypeOK'
  PROVE  PsInv'
<1>1. Typed
  BY TypedFacts
<1> USE DEF Saving, Wiping, Change, Saved, Creating, Steady, Base
<1>2. /\ pc = "align" /\ pc' = pc /\ ToAlign # 0
      /\ nvc' = [nvc EXCEPT ![ToAlign] = @ + 1]
      /\ UNCHANGED <<rollback, objFile, tabFile, ram, op, res, errors>>
  BY DEF AlignStep
<1>3. /\ nvc'[1] = nvc[1] /\ nvc[3] <= nvc'[3] /\ nvc'[3] \in Nat /\ nvc'[2] \in Nat
      /\ nvc'[3] <= nvc'[2] /\ nvc'[2] <= nvc'[1]
  BY <1>1, <1>2 DEF ToAlign, Typed, PsInv, CountersInv
<1>4. scratch' = scratch
  BY <1>2 DEF scratch, Other
<1>5. CountersInv'
  BY <1>1, <1>2, <1>3 DEF PsInv, CountersInv, Typed
<1>6. SavedInv' /\ SteadyInv'
  <2>1. Inexact' <=> Inexact
    BY <1>2 DEF Inexact
  <2> QED
    BY <2>1, <1>2, <1>3, <1>4 DEF PsInv, SavedInv, SteadyInv
<1>7. KindInv' /\ TablesInv' /\ BootInv' /\ WipeInv' /\ CreateInv' /\ ChangeInv'
  BY <1>2, <1>3 DEF PsInv, KindInv, TablesInv, BootInv, WipeInv, CreateInv, ChangeInv, Achieved
<1> QED
  BY <1>1, <1>2, <1>5, <1>6, <1>7 DEF PsInv, Typed

LEMMA KeepAlignDone ==
  ASSUME PsInv, AlignDone, TypeOK'
  PROVE  PsInv'
<1>1. Typed
  BY TypedFacts
<1> USE DEF Saving, Wiping, Change, Saved, Creating, Steady, Base
<1>2. /\ pc = "align" /\ op.kind \in {"boot", "again", "wipe", "set", "remove"} /\ rollback
      /\ UNCHANGED <<rollback, objFile, tabFile, nvc, ram, errors>>
      /\ op.kind \in {"boot", "again"} => pc' = "idle" /\ res' = "none" /\ op' = op
      /\ op.kind = "wipe" => op' = Operation("again") /\ pc' = "prepare"
      /\ Change => op' = op /\ pc' = "drop_table"
  BY <1>1 DEF AlignDone, Reply, SaveDone, persistent, PsInv, KindInv, Typed, Ops
<1>3. nvc[2] = nvc[1] /\ nvc[3] = nvc[1]
  BY <1>1 DEF AlignDone, ToAlign, PsInv, CountersInv, Typed
<1>4. scratch' = scratch
  BY <1>2 DEF scratch, Other
<1>5. op.kind = "wipe" => op'.kind = "again" /\ op'.backup = NoEntries
  BY <1>2, OperationType
<1>6. KindInv' /\ TablesInv' /\ CountersInv' /\ WipeInv' /\ CreateInv'
  BY <1>2, <1>5, EmptyGood DEF PsInv, KindInv, TablesInv, CountersInv, WipeInv, CreateInv
<1>7. SavedInv'
  <2> SUFFICES ASSUME Change PROVE SavedInv'
    BY <1>2, <1>5 DEF SavedInv
  <2> QED
    BY <1>2, <1>3, <1>4 DEF PsInv, SavedInv
<1>8. SteadyInv'
  <2> SUFFICES ASSUME op.kind \in {"boot", "again"} PROVE SteadyInv'
    BY <1>2, <1>5 DEF SteadyInv
  <2>1. /\ tabFile[ram.active].state = "full" /\ tabFile[ram.active].db = ram.db
        /\ Readable(objFile, ram.db) /\ tabFile[scratch].state # "full"
    BY <1>2 DEF PsInv, SteadyInv
  <2>2. tabFile[ram.active].nvc <= nvc[3]
    BY <2>1, <1>1, <1>2, <1>3 DEF PsInv, CountersInv, Typed
  <2> QED
    BY <2>1, <2>2, <1>2, <1>4 DEF SteadyInv
<1>9. BootInv'
  <2> SUFFICES ASSUME op.kind = "wipe" PROVE ChosenReadable'
    BY <1>2 DEF BootInv
  <2> QED
    BY <1>2, PowerFailSafe DEF ChosenReadable, Chosen
<1>10. ChangeInv'
  <2> SUFFICES ASSUME Change PROVE ChangeInv'
    BY <1>2, <1>5 DEF ChangeInv
  <2> QED
    BY <1>2 DEF PsInv, ChangeInv, Achieved
<1> QED
  BY <1>1, <1>2, <1>6, <1>7, <1>8, <1>9, <1>10 DEF PsInv, Typed

\* After a power failure or a panic.
LEMMA KeepRestart ==
  ASSUME PsInv, Crash \/ Panic, TypeOK'
  PROVE  PsInv'
<1>1. Typed
  BY TypedFacts
<1> USE DEF Saving, Wiping, Change, Saved, Creating, Steady, Base
<1>2. /\ pc' = "prepare" /\ op' = Operation("boot") /\ ram' = NoRam
      /\ UNCHANGED <<rollback, objFile, tabFile, nvc>>
  BY DEF Crash, Panic, Restart, persistent
<1>3. op'.kind = "boot" /\ op'.backup = NoEntries /\ ram'.db = NoEntries
  BY <1>2, OperationType DEF NoRam
<1>4. ChosenReadable'
  BY <1>2, PowerFailSafe DEF ChosenReadable, Chosen
<1>5. /\ KindInv' /\ TablesInv' /\ CountersInv' /\ BootInv' /\ WipeInv' /\ SavedInv' /\ SteadyInv'
      /\ CreateInv' /\ ChangeInv'
  BY <1>2, <1>3, <1>4, EmptyGood DEF PsInv, KindInv, TablesInv, CountersInv, BootInv, WipeInv,
     SavedInv, SteadyInv, CreateInv, ChangeInv
<1> QED
  BY <1>1, <1>2, <1>5 DEF PsInv, Typed

-----------------------------------------------------------------------------
(* Requests.                                                               *)

\* The file of an index that is free in a table holds no object of it.
LEMMA OtherFile ==
  ASSUME NEW files \in [Idx -> Files], NEW db, NEW i, NEW x, Readable(files, db),
         db[i].uid = NoUid
  PROVE  Readable([files EXCEPT ![i] = x], db)
BY DEF Readable

\* A request changes no file: an index is chosen, or a request refused.
LEMMA KeepCreate ==
  ASSUME PsInv, NEW u \in Uids, NEW once \in BOOLEAN, ps_object_create(u, once), TypeOK'
  PROVE  PsInv'
<1>1. Typed
  BY TypedFacts
<1> USE DEF Saving, Wiping, Change, Saved, Creating, Steady, Base
<1> DEFINE i == ps_get_object_entry_idx(ram.db, u)
           n == NewIdx(u)
           obj == [data |-> request + 1, once |-> once]
<1>2. /\ pc = "idle" /\ pc' = "free_fid" /\ n # NoIdx
      /\ op' = [kind |-> "set", uid |-> u, obj |-> obj, old |-> i, new |-> n, backup |-> ram.db]
      /\ UNCHANGED <<rollback, objFile, tabFile, nvc, ram, res, errors>>
  BY DEF ps_object_create, CanSet, persistent
<1>3. obj \in Objects
  BY PsAssumption DEF ps_object_create, Objects, PsInv, TypeOK
<1>4. /\ i # NoIdx => i \in Idx /\ ram.db[i].uid = u
      /\ i = NoIdx => \A j \in Idx : ram.db[j].uid # u
  BY EntryIdx
<1>5. /\ n \in Idx /\ ram.db[n].uid = NoUid
      /\ i = NoIdx => \E k \in Idx : k # n /\ ram.db[k].uid = NoUid
  <2>1. CASE i = NoIdx
    BY <2>1, <1>2, FreeIdxOf DEF NewIdx
  <2>2. CASE i # NoIdx
    BY <2>2, <1>2, FreeIdxOf DEF NewIdx
  <2> QED
    BY <2>1, <2>2
<1> HIDE DEF i, n, obj
<1>6. /\ op'.kind = "set" /\ op'.uid = u /\ op'.obj = obj /\ op'.old = i /\ op'.new = n
      /\ op'.backup = ram.db
  BY <1>2
<1>7. scratch' = scratch /\ (Inexact' <=> Inexact)
  BY <1>2 DEF scratch, Other, Inexact
<1>8. SteadyInv'
  BY <1>2, <1>6, <1>7 DEF PsInv, SteadyInv
<1>9. CreateInv'
  BY <1>2, <1>3, <1>4, <1>5, <1>6 DEF CreateInv
<1>10. KindInv' /\ TablesInv' /\ CountersInv' /\ BootInv' /\ WipeInv' /\ SavedInv' /\ ChangeInv'
  BY <1>2, <1>6 DEF PsInv, KindInv, TablesInv, CountersInv, BootInv, WipeInv, SavedInv, ChangeInv
<1> QED
  BY <1>1, <1>2, <1>8, <1>9, <1>10 DEF PsInv, Typed

\* The entry is taken out of the table in RAM.
LEMMA KeepDelete ==
  ASSUME PsInv, NEW u \in Uids, ps_object_delete(u), TypeOK'
  PROVE  PsInv'
<1>1. Typed
  BY TypedFacts
<1> USE DEF Saving, Wiping, Change, Saved, Creating, Steady, Base
<1>2. PICK i \in Idx : /\ i = ps_get_object_entry_idx(ram.db, u) /\ ram.db[i].uid = u
                       /\ i # NoIdx
  BY EntryIdx DEF ps_object_delete, CanRemove
<1>3. /\ pc = "idle" /\ pc' = "save"
      /\ op' = [Operation("remove") EXCEPT !.uid = u, !.old = i, !.backup = ram.db]
      /\ UNCHANGED <<rollback, objFile, tabFile, nvc, res, errors>>
      /\ ram' = [ram EXCEPT !.db[i] = FreeEntry]
  BY <1>2 DEF ps_object_delete, persistent
<1>4. /\ op'.kind = "remove" /\ op'.uid = u /\ op'.old = i /\ op'.backup = ram.db
      /\ op'.obj = NoObject
  BY <1>3 DEF Operation
<1>5. /\ ram'.active = ram.active /\ ram'.swap = ram.swap
      /\ ram'.db = [ram.db EXCEPT ![i] = FreeEntry]
  BY <1>1, <1>3 DEF Typed
<1>6. scratch' = scratch /\ (Inexact' <=> Inexact)
  BY <1>3, <1>5 DEF scratch, Other, Inexact
<1>7. Good(ram.db) /\ Readable(objFile, ram.db) /\ ram.db \in Tables
  BY <1>3 DEF PsInv, TablesInv, SteadyInv, Good
<1>8. /\ ram'.db[i].uid = NoUid
      /\ \A j \in Idx : j # i => ram'.db[j] = ram.db[j]
  BY <1>5, <1>7 DEF Tables, FreeEntry
<1>9. ram'.db \in Tables
  BY <1>5, <1>7, Constants DEF Tables
<1>10. Good(ram'.db) /\ Readable(objFile, ram'.db)
  BY <1>2, <1>7, <1>8, <1>9 DEF Good, FreeIdx, Readable
<1>11. SteadyInv'
  BY <1>3, <1>4, <1>5, <1>6, <1>7, <1>10 DEF PsInv, SteadyInv
<1>12. Achieved'
  <2>1. \A j \in Idx : ram'.db[j].uid # u
    BY <1>2, <1>7, <1>8, PsAssumption DEF Good
  <2> QED
    BY <2>1, <1>4 DEF Achieved
<1>13. objFile[i] \in Objects
  BY <1>2, <1>7, PsAssumption DEF Good, Readable
<1>14. ChangeInv'
  BY <1>2, <1>3, <1>4, <1>8, <1>12, <1>13 DEF ChangeInv
<1>15. TablesInv'
  BY <1>3, <1>4, <1>7, <1>10 DEF PsInv, TablesInv
<1>16. KindInv' /\ CountersInv' /\ BootInv' /\ WipeInv' /\ SavedInv' /\ CreateInv'
  BY <1>3, <1>4 DEF PsInv, KindInv, CountersInv, BootInv, WipeInv, SavedInv, CreateInv
<1> QED
  BY <1>1, <1>3, <1>11, <1>14, <1>15, <1>16 DEF PsInv, Typed

LEMMA KeepQuery ==
  ASSUME PsInv, NEW u \in Uids, ps_object_read(u) \/ Refuse(u), TypeOK'
  PROVE  PsInv'
<1>1. Typed
  BY TypedFacts
<1> USE DEF Saving, Wiping, Change, Saved, Creating, Steady, Base
<1>2. /\ pc = "idle" /\ pc' = "idle" /\ op' = Operation("query")
      /\ UNCHANGED <<rollback, objFile, tabFile, nvc, ram, errors>>
  BY DEF ps_object_read, Refuse, persistent
<1>3. op'.kind = "query" /\ Good(op'.backup)
  BY <1>2, OperationType, EmptyGood
<1>4. scratch' = scratch /\ (Inexact' <=> Inexact)
  BY <1>2 DEF scratch, Other, Inexact
<1>5. /\ KindInv' /\ TablesInv' /\ CountersInv' /\ BootInv' /\ WipeInv' /\ SavedInv'
      /\ CreateInv' /\ ChangeInv'
  BY <1>2, <1>3 DEF PsInv, KindInv, TablesInv, CountersInv, BootInv, WipeInv, SavedInv,
     CreateInv, ChangeInv
<1>6. SteadyInv'
  BY <1>2, <1>4 DEF PsInv, SteadyInv
<1> QED
  BY <1>1, <1>2, <1>5, <1>6 DEF PsInv, Typed

\* The file of the new index is written, or removed when the request fails.
LEMMA KeepObjectFile ==
  ASSUME PsInv, ps_object_table_get_free_fid \/ WriteObject \/ UndoSet, TypeOK'
  PROVE  PsInv'
<1>1. Typed
  BY TypedFacts
<1> USE DEF Saving, Wiping, Change, Saved, Creating, Steady, Base
<1>2. /\ pc \in {"free_fid", "write_object", "undo"} /\ op.kind = "set"
      /\ UNCHANGED <<rollback, tabFile, nvc, ram, op, errors>>
      /\ pc' = CASE pc = "free_fid" -> "write_object" [] pc = "write_object" -> "finish_object"
                 [] OTHER -> "idle"
      /\ pc = "undo" => res' = "error"
      /\ objFile' = objFile \/ \E x : objFile' = [objFile EXCEPT ![op.new] = x]
  BY DEF ps_object_table_get_free_fid, WriteObject, UndoSet, Reply, PsInv, KindInv
<1>3. Readable(objFile, ram.db) /\ ram.db[op.new].uid = NoUid /\ objFile \in [Idx -> Files]
  BY <1>1, <1>2 DEF PsInv, SteadyInv, CreateInv, Typed
<1>4. Readable(objFile', ram.db)
  <2>1. CASE objFile' = objFile
    BY <2>1, <1>3
  <2>2. ASSUME NEW x, objFile' = [objFile EXCEPT ![op.new] = x] PROVE Readable(objFile', ram.db)
    BY <2>2, <1>3, OtherFile
  <2> QED
    BY <2>1, <2>2, <1>2
<1>5. scratch' = scratch /\ (Inexact' <=> Inexact)
  BY <1>2 DEF scratch, Other, Inexact
<1>6. SteadyInv'
  BY <1>2, <1>4, <1>5 DEF PsInv, SteadyInv
<1>7. KindInv' /\ TablesInv' /\ CountersInv' /\ BootInv' /\ WipeInv' /\ SavedInv'
  BY <1>2 DEF PsInv, KindInv, TablesInv, CountersInv, BootInv, WipeInv, SavedInv
<1>8. CreateInv' /\ ChangeInv'
  BY <1>2 DEF PsInv, CreateInv, ChangeInv
<1> QED
  BY <1>1, <1>2, <1>6, <1>7, <1>8 DEF PsInv, Typed

\* The new object is complete and enters the table in RAM.
LEMMA KeepFinishObject ==
  ASSUME PsInv, FinishObject, TypeOK'
  PROVE  PsInv'
<1>1. Typed
  BY TypedFacts
<1> USE DEF Saving, Wiping, Change, Saved, Creating, Steady, Base
<1>2. PICK db : db = Replaced(ram.db, op.uid, op.new, op.obj)
  OBVIOUS
<1>3. /\ pc = "finish_object" /\ pc' = "save" /\ op.kind = "set"
      /\ objFile' = [objFile EXCEPT ![op.new] = op.obj]
      /\ ram' = [ram EXCEPT !.db = db]
      /\ UNCHANGED <<rollback, tabFile, nvc, op, res, errors>>
  BY <1>2 DEF FinishObject, PsInv, KindInv
<1>4. ram'.active = ram.active /\ ram'.swap = ram.swap /\ ram'.db = db
  BY <1>1, <1>3 DEF Typed
<1>5. /\ op.uid \in Uids /\ op.obj \in Objects /\ op.backup = ram.db
      /\ op.new \in Idx /\ ram.db[op.new].uid = NoUid
      /\ op.old # NoIdx => op.old \in Idx /\ ram.db[op.old].uid = op.uid
      /\ op.old = NoIdx => \E k \in Idx : k # op.new /\ ram.db[k].uid = NoUid
  BY <1>3 DEF PsInv, CreateInv
<1>6. Good(ram.db) /\ Readable(objFile, ram.db) /\ objFile \in [Idx -> Files]
        /\ op.uid # NoUid
  BY <1>1, <1>3, <1>5, PsAssumption DEF PsInv, TablesInv, SteadyInv, Typed
<1>7. /\ db[op.new] = [uid |-> op.uid, tag |-> op.obj]
      /\ \A j \in Idx : j # op.new =>
           db[j] = IF ram.db[j].uid = op.uid THEN FreeEntry ELSE ram.db[j]
      /\ FreeEntry.uid = NoUid
  BY <1>2, <1>5 DEF Replaced, FreeEntry
<1>8. db \in Tables
  BY <1>4 DEF TypeOK
<1>9. FreeIdx(db) # {}
  BY <1>5, <1>6, <1>7 DEF FreeIdx
<1>10. Good(db)
  BY <1>5, <1>6, <1>7, <1>8, <1>9 DEF Good
<1>11. Readable(objFile', ram.db)
  BY <1>3, <1>5, <1>6, OtherFile
<1>12. Readable(objFile', db)
  BY <1>3, <1>5, <1>6, <1>7 DEF Readable
<1>13. scratch' = scratch /\ (Inexact' <=> Inexact)
  BY <1>3, <1>4 DEF scratch, Other, Inexact
<1>14. SteadyInv'
  BY <1>3, <1>4, <1>5, <1>11, <1>12, <1>13 DEF PsInv, SteadyInv
<1>15. op.old # NoIdx => /\ op.old \in Idx /\ db[op.old].uid = NoUid
                         /\ objFile'[op.old] \in Objects
  BY <1>3, <1>5, <1>6, <1>7 DEF Good, Readable
<1>16. ChangeInv'
  BY <1>3, <1>4, <1>5, <1>7, <1>15 DEF ChangeInv, Achieved
<1>17. TablesInv'
  BY <1>3, <1>4, <1>10 DEF PsInv, TablesInv
<1>18. KindInv' /\ CountersInv' /\ BootInv' /\ WipeInv' /\ SavedInv' /\ CreateInv'
  BY <1>3 DEF PsInv, KindInv, CountersInv, BootInv, WipeInv, SavedInv, CreateInv
<1> QED
  BY <1>1, <1>3, <1>14, <1>16, <1>17, <1>18 DEF PsInv, Typed

\* The old table goes, then the old object.
LEMMA KeepDropTable ==
  ASSUME PsInv, DropTable, TypeOK'
  PROVE  PsInv'
<1>1. Typed
  BY TypedFacts
<1> USE DEF Saving, Wiping, Change, Saved, Creating, Steady, Base
<1>2. /\ pc = "drop_table" /\ op.kind \in {"set", "remove"}
      /\ tabFile' = [tabFile EXCEPT ![scratch] = NoTable]
      /\ UNCHANGED <<rollback, objFile, nvc, ram, op, errors>>
  BY DEF DropTable, PsInv, KindInv
<1>3. tabFile[scratch].state = "full" /\ tabFile[scratch] # NoTable
  BY <1>2 DEF PsInv, SavedInv, NoTable
<1>4. /\ op.old = NoIdx => pc' = "idle"
      /\ op.old # NoIdx => pc' = "drop_object"
  BY <1>3 DEF DropTable, Reply
<1>5. /\ tabFile'[ram.active] = tabFile[ram.active] /\ tabFile'[scratch] = NoTable
      /\ scratch' = scratch /\ NoTable.state # "full"
      /\ \A t \in 0 .. 1 : Good(tabFile'[t].db)
      /\ CountersInv'
  BY <1>2, Removal
<1>6. /\ tabFile[ram.active].state = "full" /\ tabFile[ram.active].db = ram.db
      /\ Readable(objFile, ram.db)
      /\ rollback => tabFile[ram.active].nvc = nvc[1] /\ nvc[3] = nvc[1]
      /\ ~rollback => ram.swap = tabFile[ram.active].swap
  BY <1>2 DEF PsInv, SavedInv
<1>7. SteadyInv'
  BY <1>1, <1>2, <1>4, <1>5, <1>6 DEF SteadyInv, Typed
<1>8. ChangeInv'
  BY <1>2, <1>4, <1>5, <1>6 DEF PsInv, ChangeInv, Achieved
<1>9. KindInv' /\ TablesInv' /\ BootInv' /\ WipeInv' /\ SavedInv' /\ CreateInv'
  BY <1>2, <1>4, <1>5 DEF PsInv, KindInv, TablesInv, BootInv, WipeInv, SavedInv, CreateInv
<1> QED
  BY <1>1, <1>2, <1>5, <1>7, <1>8, <1>9 DEF PsInv, Typed

LEMMA KeepDropObject ==
  ASSUME PsInv, DropObject, TypeOK'
  PROVE  PsInv'
<1>1. Typed
  BY TypedFacts
<1> USE DEF Saving, Wiping, Change, Saved, Creating, Steady, Base
<1>2. /\ pc = "drop_object" /\ pc' = "idle" /\ op.kind \in {"set", "remove"}
      /\ objFile' = [objFile EXCEPT ![op.old] = NoObject]
      /\ UNCHANGED <<rollback, tabFile, nvc, ram, op, errors>>
  BY DEF DropObject, Reply, PsInv, KindInv
<1>3. /\ Readable(objFile, ram.db) /\ ram.db[op.old].uid = NoUid /\ objFile \in [Idx -> Files]
      /\ Achieved /\ (rollback => tabFile[ram.active].nvc = nvc[1])
  BY <1>1, <1>2 DEF PsInv, SteadyInv, ChangeInv, Typed
<1>4. Readable(objFile', ram.db)
  BY <1>2, <1>3, OtherFile
<1>5. scratch' = scratch /\ (Inexact' <=> Inexact)
  BY <1>2 DEF scratch, Other, Inexact
<1>6. SteadyInv'
  BY <1>2, <1>4, <1>5 DEF PsInv, SteadyInv
<1>7. ChangeInv'
  BY <1>2, <1>3 DEF ChangeInv, Achieved
<1>8. KindInv' /\ TablesInv' /\ CountersInv' /\ BootInv' /\ WipeInv' /\ SavedInv' /\ CreateInv'
  BY <1>2 DEF PsInv, KindInv, TablesInv, CountersInv, BootInv, WipeInv, SavedInv, CreateInv
<1> QED
  BY <1>1, <1>2, <1>6, <1>7, <1>8 DEF PsInv, Typed

\* A failing call ends the request.  If the old table stays, it is older for the boot
\* code too.
LEMMA KeepFails ==
  ASSUME SwapSafe, PsInv, FreeFidFails \/ WriteObjectFails \/ DropFails, TypeOK'
  PROVE  PsInv'
<1>1. Typed
  BY TypedFacts
<1> USE DEF Saving, Wiping, Change, Saved, Creating, Steady, Base
<1>2. /\ pc \in {"free_fid", "write_object", "finish_object", "drop_table", "drop_object"}
      /\ pc' = "idle" /\ res' = "error" /\ op.kind \in {"set", "remove"}
      /\ UNCHANGED <<rollback, objFile, tabFile, nvc, ram, op>>
      /\ errors' = errors + 1 /\ errors < MaxErrors
      /\ pc = "drop_table" => "remove" \in Faults
  BY DEF FreeFidFails, WriteObjectFails, DropFails, Fault, Reply, persistent, PsInv, KindInv
<1>3. scratch' = scratch /\ (Inexact => Inexact')
  BY <1>1, <1>2 DEF scratch, Other, Inexact, Typed
<1>4. SteadyInv'
  <2>1. CASE pc = "drop_table"
    <3>1. /\ tabFile[ram.active].state = "full" /\ tabFile[ram.active].db = ram.db
          /\ Readable(objFile, ram.db)
          /\ rollback => /\ tabFile[ram.active].nvc = nvc[1]
                         /\ tabFile[scratch].state = "full" => tabFile[scratch].nvc < nvc[1]
                         /\ nvc[3] = nvc[1]
          /\ ~rollback => /\ ram.swap = tabFile[ram.active].swap
                          /\ \/ Inexact
                             \/ tabFile[ram.active].swap = NextSwapCount(tabFile[scratch].swap)
      BY <2>1 DEF PsInv, SavedInv
    <3>2. ~(~rollback /\ Inexact)
      <4>1. SUFFICES ASSUME ~rollback, Inexact PROVE FALSE
        OBVIOUS
      <4>2. rollback \in BOOLEAN /\ rollback \in Builds
        BY <1>1 DEF Typed
      <4>3. rollback = FALSE
        BY <4>1, <4>2, Zenon
      <4>4. FALSE \in Builds
        BY <4>2, <4>3, Zenon
      <4>5. "write" \in Faults /\ "remove" \in Faults
        BY <2>1, <4>1, <1>2 DEF Inexact
      <4>6. MaxErrors <= 1
        BY <4>4, <4>5 DEF SwapSafe
      <4> QED
        BY <4>1, <4>6, <1>1, <1>2, PsAssumption DEF Inexact, Typed
    <3> QED
      BY <3>1, <3>2, <1>1, <1>2, <1>3 DEF SteadyInv, Typed
  <2>2. CASE pc # "drop_table"
    BY <2>2, <1>2, <1>3 DEF PsInv, SteadyInv
  <2> QED
    BY <2>1, <2>2
<1>5. /\ KindInv' /\ TablesInv' /\ CountersInv' /\ BootInv' /\ WipeInv' /\ SavedInv'
      /\ CreateInv' /\ ChangeInv'
  BY <1>2 DEF PsInv, KindInv, TablesInv, CountersInv, BootInv, WipeInv, SavedInv, CreateInv,
     ChangeInv
<1> QED
  BY <1>1, <1>2, <1>4, <1>5 DEF PsInv, Typed

-----------------------------------------------------------------------------
(* Theorems.                                                               *)

LEMMA InvInit == Init => PsInv
<1> SUFFICES ASSUME Init PROVE PsInv
  OBVIOUS
<1>1. TypeOK
  BY TypeInit
<1>2. /\ pc = "prepare" /\ op = Operation("boot") /\ ram = NoRam /\ rollback \in Builds
      /\ rollback \in BOOLEAN
  BY PsAssumption DEF Init
<1>3. op.kind = "boot" /\ op.backup = NoEntries /\ ram.db = NoEntries
  BY <1>2, OperationType DEF NoRam
<1> USE DEF Saving, Wiping, Change, Saved, Creating, Steady, Base
<1>4. (\A t \in 0 .. 1 : Good(tabFile[t].db)) /\ CountersInv /\ ChosenReadable
  <2>1. CASE Fresh
    <3>1. /\ tabFile = [t \in 0 .. 1 |-> NoTable] /\ nvc = <<0, 0, 0>>
          /\ NoTable.state = "none" /\ NoTable.db = NoEntries
      BY <2>1 DEF Fresh, NoTable
    <3>2. \A t \in 0 .. 1 : tabFile[t].db = NoEntries /\ tabFile[t].state = "none"
      BY <3>1
    <3> QED
      BY <3>1, <3>2, EmptyGood DEF CountersInv, ChosenReadable
  <2>2. CASE Used
    <3>1. PICK t \in 0 .. 1, swap \in 0 .. FlashDefault - 1 :
            LET n == IF rollback THEN 2 + (1 - t) ELSE 0
            IN  /\ objFile = [i \in Idx |-> FirstEntries[i].tag]
                /\ tabFile = [s \in 0 .. 1 |-> IF s = t
                       THEN [state |-> "full", db |-> FirstEntries, swap |-> swap, nvc |-> n]
                       ELSE NoTable]
                /\ nvc = <<n, n, n>>
      BY <2>2 DEF Used
    <3>2. \A s \in 0 .. 1 : /\ s = t => tabFile[s].db = FirstEntries /\ tabFile[s].nvc = nvc[1]
                            /\ s # t => tabFile[s].db = NoEntries
      BY <3>1 DEF NoTable
    <3>3. nvc[1] = nvc[2] /\ nvc[2] = nvc[3] /\ nvc[1] \in Nat
      BY <3>1
    <3>4. Readable(objFile, FirstEntries)
      BY <3>1 DEF Readable
    <3>5. \A s \in 0 .. 1 : s # t => tabFile[s].state # "full"
      BY <3>1 DEF NoTable
    <3> QED
      BY <3>2, <3>3, <3>4, <3>5, FirstType, EmptyGood DEF CountersInv, ChosenReadable
  <2> QED
    BY <2>1, <2>2 DEF Init
<1> QED
  BY <1>1, <1>2, <1>3, <1>4, EmptyGood DEF PsInv, KindInv, TablesInv, BootInv, WipeInv, SavedInv,
     SteadyInv, CreateInv, ChangeInv

LEMMA InvStep == SwapSafe /\ PsInv /\ [Next]_vars /\ harmed' = {} => PsInv'
<1> SUFFICES ASSUME SwapSafe, PsInv, [Next]_vars, harmed' = {} PROVE PsInv'
  OBVIOUS
<1>0. ~Harmful
  BY Unharmed
<1>1. TypeOK'
  BY TypeStep DEF PsInv
<1>2. CASE UNCHANGED vars
  BY <1>1, <1>2 DEF vars, PsInv, KindInv, TablesInv, CountersInv, BootInv, WipeInv, SavedInv,
     SteadyInv, CreateInv, ChangeInv, Achieved, Saving, Wiping, Change, Saved, Creating, Steady,
     Base, Inexact, Chosen, ChosenReadable, scratch, Other
<1> QED
  BY <1>0, <1>1, <1>2, KeepPrepare, KeepDropScratch, KeepCreateTable, KeepStartSave, KeepSaveFails,
     KeepWriteTable, KeepFinishTable, KeepAlignStep, KeepAlignDone, KeepObjectFile, KeepFails,
     KeepFinishObject, KeepDropTable, KeepDropObject, KeepRestart, KeepCreate, KeepDelete,
     KeepQuery DEF Next, Step, Harmful

\* The inductive invariant holds as long as the store is not harmed.
THEOREM InvariantHolds ==
  ASSUME SwapSafe
  PROVE  Spec => [](harmed = {} => PsInv)
<1>1. (harmed = {} => PsInv) /\ [Next]_vars => (harmed = {} => PsInv)'
  BY InvStep, Unharmed
<1> QED
  BY <1>1, InvInit, PTL DEF Spec

\* Objects of the selected table are those of CommittedTable.
LEMMA StoreIs == store = [u \in Uids |-> ObjectIn(CommittedTable, u)]
BY DEF store

\* The index of an entry.
LEMMA UniqueIdx ==
  ASSUME NEW db, Good(db), NEW i \in Idx, db[i].uid # NoUid
  PROVE  ps_get_object_entry_idx(db, db[i].uid) = i
<1>1. NoIdx \notin Idx
  BY PsAssumption DEF Idx, NoIdx
<1> QED
  BY <1>1, EntryIdx DEF Good

\* At rest, what is committed is the table in RAM, whether or not a boot would load it.
LEMMA RestCommitted ==
  PsInv /\ pc = "idle" => CommittedTable = ram.db /\ Good(ram.db) /\ Readable(objFile, ram.db)
<1> SUFFICES ASSUME PsInv, pc = "idle"
             PROVE  CommittedTable = ram.db /\ Good(ram.db) /\ Readable(objFile, ram.db)
  OBVIOUS
<1>1. Steady /\ ~Saving /\ op.kind # "wipe" /\ Base = ram.db
  BY DEF Steady, Saving, Base, PsInv, KindInv
<1>2. tabFile[ram.active].db = ram.db /\ Readable(objFile, ram.db) /\ Good(ram.db)
  BY <1>1 DEF PsInv, SteadyInv, TablesInv
<1>3. ps_set_active_object_table = ram.active \/ ps_set_active_object_table = NoActive
  BY <1>1, SteadyChosen, SelectedIs DEF Chosen
<1>4. ram.active # NoActive
  BY TypedFacts DEF Typed, NoActive
<1> QED
  BY <1>1, <1>2, <1>3, <1>4 DEF CommittedTable, Running

\* An object of a readable table can be read.
LEMMA ObjectReadable ==
  ASSUME NEW db, Good(db), Readable(objFile, db), NEW u \in Uids
  PROVE  ObjectIn(db, u) # TornObject
<1>1. ps_get_object_entry_idx(db, u) # NoIdx =>
        /\ ps_get_object_entry_idx(db, u) \in Idx
        /\ db[ps_get_object_entry_idx(db, u)].uid = u
  BY EntryIdx
<1>2. NoObject # TornObject /\ TornObject \notin Objects
  BY DEF NoObject, TornObject, Objects
<1> QED
  BY <1>1, <1>2, PsAssumption DEF ObjectIn, ps_encrypted_object_read, Good, Readable

\* At rest, after any power failures and any failing writes, removals of requests and
\* increments of counter 1 (everything but an alignment or a call of start-up that
\* failed), get and get_info answer from a table that agrees with what a boot would
\* find, every object can be read and no uid has two entries.
THEOREM ReadsHold ==
  ASSUME SwapSafe
  PROVE  Spec => [](harmed = {} => ReadsCommitted)
<1>1. PsInv => ReadsCommitted
  <2> SUFFICES ASSUME PsInv, pc = "idle"
               PROVE  /\ \A u \in Uids : ObjectIn(ram.db, u) = store[u] /\ store[u] # TornObject
                      /\ \A i, j \in Idx : ram.db[i].uid = ram.db[j].uid /\ ram.db[i].uid # NoUid
                                             => i = j
    BY DEF ReadsCommitted
  <2>1. CommittedTable = ram.db /\ Good(ram.db) /\ Readable(objFile, ram.db)
    BY RestCommitted
  <2>2. \A u \in Uids : store[u] = ObjectIn(ram.db, u)
    BY <2>1, StoreIs
  <2> QED
    BY <2>1, <2>2, ObjectReadable DEF Good
<1> QED
  BY <1>1, InvariantHolds, PTL

\* A set or a remove that reported success survives a power failure: the table with
\* it is the one a boot loads, bound to the counters.
THEOREM SuccessHolds ==
  ASSUME SwapSafe
  PROVE  Spec => [](harmed = {} => SuccessIsDurable)
<1>1. PsInv => SuccessIsDurable
  <2> SUFFICES ASSUME PsInv, pc = "idle", res = "ok", op.kind \in {"set", "remove"}
               PROVE  /\ store[op.uid] = op.obj
                      /\ ~loose /\ ps_set_active_object_table # NoActive
    BY DEF SuccessIsDurable
  <2>1. CommittedTable = ram.db /\ Good(ram.db) /\ Readable(objFile, ram.db)
    BY RestCommitted
  <2>2. Achieved /\ (rollback => tabFile[ram.active].nvc = nvc[1])
    BY DEF PsInv, ChangeInv, Change
  <2>3. store[op.uid] = ObjectIn(ram.db, op.uid)
    BY <2>1, <2>2, StoreIs DEF Achieved
  <2>4. ObjectIn(ram.db, op.uid) = op.obj
    <3>0. NoIdx \notin Idx
      BY PsAssumption DEF NoIdx, Idx
    <3>1. CASE op.kind = "set"
      <4>1. /\ op.uid \in Uids /\ op.new \in Idx /\ op.uid # NoUid
            /\ ram.db[op.new].uid = op.uid /\ ram.db[op.new].tag = op.obj
        BY <2>2, <3>1, PsAssumption DEF Achieved
      <4>2. ps_get_object_entry_idx(ram.db, op.uid) = op.new
        BY <4>1, <2>1, UniqueIdx
      <4> QED
        BY <4>1, <4>2, <2>1, <3>0 DEF ObjectIn, ps_encrypted_object_read, Readable
    <3>2. CASE op.kind = "remove"
      <4>1. op.obj = NoObject /\ \A i \in Idx : ram.db[i].uid # op.uid
        BY <2>2, <3>2 DEF Achieved
      <4>2. ps_get_object_entry_idx(ram.db, op.uid) = NoIdx
        BY <4>1, EntryIdx
      <4> QED
        BY <4>1, <4>2 DEF ObjectIn
    <3> QED
      BY <3>1, <3>2
  <2>5. Steady /\ Typed
    BY TypedFacts DEF Steady
  <2>6. tabFile[ram.active].state = "full"
    BY <2>5 DEF PsInv, SteadyInv
  <2>7. Authentic(rollback, tabFile, nvc, ram.active)
    BY <2>2, <2>6 DEF Authentic
  <2>8. ps_set_active_object_table # NoActive
    BY <2>5, <2>7, SelectedType, SelectedIs DEF Typed
  <2>9. rollback => ps_object_table_authenticate(ram.active) = "nvc_1"
    BY <2>2, <2>6 DEF ps_object_table_authenticate
  <2> QED
    BY <2>3, <2>4, <2>5, <2>8, <2>9 DEF loose, Typed
<1> QED
  BY <1>1, InvariantHolds, PTL

\* An index is free at rest, so that an object can always be replaced.
THEOREM SpareHolds ==
  ASSUME SwapSafe
  PROVE  Spec => [](harmed = {} => SpareIndex)
<1>1. PsInv => SpareIndex
  BY DEF PsInv, TablesInv, Good, SpareIndex
<1> QED
  BY <1>1, InvariantHolds, PTL

\* The removal of the old table and of the old object finds them.
THEOREM OldDataHolds ==
  ASSUME SwapSafe
  PROVE  Spec => [](harmed = {} => OldDataPresent)
<1>1. PsInv => OldDataPresent
  <2>1. NoObject \notin Objects
    BY DEF NoObject, Objects
  <2> QED
    BY <2>1 DEF PsInv, KindInv, SavedInv, ChangeInv, Saved, Change, OldDataPresent
<1> QED
  BY <1>1, InvariantHolds, PTL
=============================================================================
