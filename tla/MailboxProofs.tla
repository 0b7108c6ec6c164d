---------------------------- MODULE MailboxProofs ----------------------------
(***************************************************************************)
(* Proofs about the dual-core mailbox of Mailbox, for every number of      *)
(* threads and of slots.                                                   *)
(***************************************************************************)
EXTENDS Mailbox, FiniteSetTheorems, WellFoundedInduction, TLAPS

\* The lowest set bit of a bitmask of slots is one of its bits.
LEMMA LowestIn ==
  ASSUME NEW S, S \subseteq Slots, S # {}
  PROVE  Lowest(S) \in S
<1>1. S \subseteq Nat
  BY SlotsAssumption DEF Slots
<1> DEFINE R == {ss \in Nat \X Nat : ss[1] < ss[2]}
<1>2. IsWellFoundedOn(R, Nat)
  BY NatLessThanWellFounded, Zenon DEF OpToRel
<1> HIDE DEF R
<1>3. PICK i \in S : \A j \in S : ~ (<<j, i>> \in R)
  BY <1>1, <1>2, WFMin
<1>4. \A j \in S : i <= j
  <2> SUFFICES ASSUME NEW j \in S, j < i PROVE FALSE
    BY <1>1
  <2> DEFINE p == <<j, i>>
  <2>1. p \in Nat \X Nat /\ p[1] < p[2]
    BY <1>1
  <2> HIDE DEF p
  <2>2. p \in R
    BY <2>1 DEF R
  <2> QED
    BY <1>3, <2>2 DEF p
<1> QED
  BY <1>4 DEF Lowest

\* The calls under way and the slots can be counted.
LEMMA ActiveFinite == IsFiniteSet(Active) /\ Cardinality(Active) \in Nat
<1>1. Active \in SUBSET Threads
  BY DEF Active
<1>2. IsFiniteSet(Active)
  BY <1>1, FS_Subset, ClientsAssumption
<1> QED
  BY <1>2, FS_CardinalityType

\* So can the slots of the build, which are among the slots that any build has.
LEMMA QueueSlotsCount ==
  ASSUME TypeOK
  PROVE  /\ num_slots \in Nat /\ 1 <= num_slots /\ num_slots <= NumSlots
         /\ QueueSlots \subseteq Slots
         /\ IsFiniteSet(QueueSlots) /\ Cardinality(QueueSlots) = num_slots
<1>1. /\ num_slots \in Nat /\ 1 <= num_slots /\ num_slots <= NumSlots
      /\ QueueSlots \subseteq Slots
  BY SlotsAssumption DEF TypeOK, QueueSlots, Slots
<1>2. /\ IsFiniteSet(0 .. num_slots - 1)
      /\ Cardinality(0 .. num_slots - 1)
           = IF 0 > num_slots - 1 THEN 0 ELSE (num_slots - 1) - 0 + 1
  <2>1. 0 \in Int /\ num_slots - 1 \in Int
    BY <1>1
  <2> QED
    BY <2>1, FS_Interval
<1> QED
  BY <1>1, <1>2 DEF QueueSlots

\* A thread that starts a call adds one to the calls under way, ...
LEMMA ActiveGrows ==
  ASSUME TypeOK, NEW t \in Threads, Goto(t, "idle", "acquire")
  PROVE  Cardinality(Active') = Cardinality(Active) + 1
<1>1. Active' = Active \cup {t} /\ t \notin Active
  BY DEF TypeOK, Active, Goto
<1> QED
  BY <1>1, ActiveFinite, FS_AddElement

\* ... and one that ends it takes one away.
LEMMA ActiveShrinks ==
  ASSUME TypeOK, NEW t \in Threads, Goto(t, "unlock", "idle")
  PROVE  Cardinality(Active') = Cardinality(Active) - 1
<1>1. Active' = Active \ {t} /\ t \in Active
  BY DEF TypeOK, Active, Goto
<1> QED
  BY <1>1, ActiveFinite, FS_RemoveElement

\* A thread that holds the semaphore finds an empty slot: the other calls under way
\* are fewer than the slots, and every slot that is not empty belongs to one of them.
LEMMA EmptySlotLeft ==
  ASSUME IInv
  PROVE  QueueNeverFull
<1> SUFFICES ASSUME NEW t \in Threads, pc[t] = "acquire", empty_slots = {}
             PROVE  FALSE
  BY DEF QueueNeverFull
<1> DEFINE O == {u \in Threads : slot[u] \in QueueSlots}
           f == [u \in O |-> slot[u]]
<1>1. f \in Surjection(O, QueueSlots)
  <2>1. f \in [O -> QueueSlots]
    OBVIOUS
  <2>2. \A i \in QueueSlots : \E u \in O : f[u] = i
    BY DEF IInv, OwnershipInv
  <2> QED
    BY <2>1, <2>2 DEF Surjection
<1>2. O \subseteq Active \ {t} /\ t \in Active
  <2>1. NoSlot \notin QueueSlots
    BY QueueSlotsCount, SlotsAssumption DEF IInv, QueueSlots, NoSlot
  <2> QED
    BY <2>1 DEF IInv, TypeOK, OwnershipInv, Active, Owning
<1>3. /\ IsFiniteSet(Active \ {t}) /\ Cardinality(Active \ {t}) = Cardinality(Active) - 1
  BY <1>2, ActiveFinite, FS_RemoveElement
<1>4. /\ IsFiniteSet(O) /\ Cardinality(O) \in Nat /\ Cardinality(O) <= Cardinality(Active) - 1
  BY <1>2, <1>3, FS_Subset, FS_CardinalityType
<1>5. num_slots <= Cardinality(O)
  <2> HIDE DEF O, f
  <2> QED BY <1>1, <1>4, FS_Surjection, QueueSlotsCount DEF IInv
<1>6. Cardinality(Active) <= num_slots
  BY ActiveFinite, QueueSlotsCount DEF IInv, SemInv, TypeOK
<1> QED
  BY <1>4, <1>5, <1>6, ActiveFinite, QueueSlotsCount DEF IInv

\* Facts used again and again: whoever owns a slot has a real one, ...
LEMMA OwnSlot ==
  ASSUME IInv, NEW t \in Threads, pc[t] \in Owning
  PROVE  slot[t] \in Slots
  BY DEF IInv, TypeOK, OwnershipInv

\* ... and only the threads that wait have their slot in flight.
LEMMA NotInFlight ==
  ASSUME IInv, NEW t \in Threads, pc[t] \in {"fill", "pend", "rx"}
  PROVE  slot[t] \notin InFlight
  BY DEF IInv, OwnershipInv, QueueSlots, SlotExclusive, OwnerInv, Owning, Waiting

\* The number of a request stays in its range.
LEMMA NextRequest ==
  ASSUME NEW r \in Requests
  PROVE  [r EXCEPT ![2] = (@ + 1) % NumSeqs] \in Requests
<1>1. PICK u \in Threads, n \in 0 .. NumSeqs - 1 : r = <<u, n>>
  BY DEF Requests
<1>2. (n + 1) % NumSeqs \in 0 .. NumSeqs - 1
  BY SlotsAssumption
<1>3. [r EXCEPT ![2] = (@ + 1) % NumSeqs] = <<u, (n + 1) % NumSeqs>>
  BY <1>1
<1> QED
  BY <1>2, <1>3 DEF Requests

\* With a single slot only one call is under way.
LEMMA SingleCall ==
  ASSUME IInv, NumSlots = 1, NEW t \in Active, NEW u \in Active
  PROVE  t = u
<1>1. Cardinality(Active) = 0 \/ Cardinality(Active) = 1
  BY ActiveFinite, QueueSlotsCount DEF IInv, SemInv, TypeOK
<1> QED
  BY <1>1, ActiveFinite, FS_EmptySet, FS_Singleton

\* The initial state.
LEMMA InitInv == Init => IInv
<1> SUFFICES ASSUME Init PROVE IInv
  OBVIOUS
<1>1. TypeOK
  <2>1. /\ \A t \in Threads : <<t, 0>> \in Requests
        /\ NoMessage \in Messages
    BY SlotsAssumption DEF Requests, NoRequest, Messages, NoMessage, CallKinds
  <2> HIDE DEF NoRequest
  <2>2. /\ msg \in [Slots -> Messages]
        /\ req \in [Threads -> Requests]
    BY <2>1 DEF Init
  <2>3. /\ return_val \in [Slots -> Requests \cup {NoRequest}]
        /\ spe_msg \in [Slots -> Requests \cup {NoRequest}]
    BY DEF Init
  <2>4. /\ owner \in [Slots -> Threads \cup {NoThread}]
        /\ slot \in [Threads -> Slots \cup {NoSlot}]
    BY DEF Init
  <2>5. /\ status \in [Threads -> SUBSET Slots]
        /\ is_woken \in [Slots -> BOOLEAN]
        /\ flag \in [Threads -> BOOLEAN]
    BY DEF Init
  <2>6. sem \in 0 .. NumSlots /\ empty_slots \subseteq Slots
    BY SlotsAssumption DEF Init, QueueSlots, Slots
  <2> QED
    BY <2>2, <2>3, <2>4, <2>5, <2>6 DEF Init, TypeOK
<1>2. SemInv
  <2>1. Active = {}
    BY DEF Init, Active
  <2> QED
    BY <2>1, FS_EmptySet, SlotsAssumption DEF Init, SemInv
<1>3. OwnershipInv
  BY SlotsAssumption DEF Init, OwnershipInv, SlotExclusive, Owning, Slots, NoSlot
<1>4. Woken = {} /\ Answered = {} /\ InFlight = {}
  BY DEF Init, Woken, Answered, InFlight
<1>5. StageInv /\ OwnerInv /\ ContentInv /\ ControlInv /\ NoLostRequest /\ NoLostSignal
  BY <1>4 DEF Init, StageInv, OwnerInv, ContentInv, ControlInv, NoLostRequest, NoLostSignal,
     Owning, Waiting, ReplyMatches
<1> QED
  BY <1>1, <1>2, <1>3, <1>5 DEF IInv

\* A call takes the semaphore.
LEMMA ClientCallInv ==
  ASSUME IInv, NEW t \in Threads, ClientCall(t)
  PROVE  IInv'
<1>1. TypeOK' /\ SemInv'
  <2>1. SemInv'
    BY ActiveGrows, ActiveFinite DEF IInv, TypeOK, SemInv, ClientCall
  <2>2. sem' \in 0 .. NumSlots
    BY SlotsAssumption DEF IInv, TypeOK, ClientCall
  <2>3. req' \in [Threads -> Requests]
    BY NextRequest DEF IInv, TypeOK, ClientCall
  <2>4. TypeOK'
    BY <2>2, <2>3 DEF IInv, TypeOK, ClientCall, Goto, queue, nisr, spe
  <2> QED
    BY <2>1, <2>4
<1>2. StageInv' /\ ControlInv'
  BY DEF IInv, StageInv, Answered, Woken, ControlInv, ClientCall, Goto, queue, nisr, spe
<1>3. OwnershipInv'
  BY DEF IInv, OwnershipInv, QueueSlots, SlotExclusive, Owning, ClientCall, Goto, queue, nisr, spe
<1>4. OwnerInv'
  BY DEF IInv, OwnerInv, InFlight, Answered, Woken, Waiting, Owning, ClientCall, Goto,
    queue, nisr, spe
<1>5. ContentInv'
  BY DEF IInv, OwnerInv, ContentInv, ReplyMatches, Answered, Woken, InFlight, Waiting,
    Owning, ClientCall, Goto, queue, nisr, spe
<1>6. NoLostRequest'
  BY DEF IInv, NoLostRequest, InFlight, Answered, Woken, Waiting, ClientCall, Goto, queue,
    nisr, spe
<1>7. NoLostSignal'
  BY DEF IInv, NoLostSignal, Woken, ClientCall, Goto, queue, nisr, spe
<1> QED
  BY <1>1, <1>2, <1>3, <1>4, <1>5, <1>6, <1>7 DEF IInv

\* The snapshot of the empty slots: no other thread is about to claim one.
LEMMA ReadEmptySlotsInv ==
  ASSUME AcquireIsSafe, IInv, NEW t \in Threads, ReadEmptySlots(t)
  PROVE  IInv'
<1>1. OwnershipInv'
  <2>1. \A u \in Threads : pc[u] = "claim" => u = t
    <3>1. CASE ~Preempt
      BY <3>1 DEF ReadEmptySlots, Goto, Runs
    <3>2. CASE NumSlots = 1
      BY <3>2, SingleCall DEF ReadEmptySlots, Goto, Active
    <3> QED
      BY <3>1, <3>2 DEF AcquireIsSafe
  <2> QED
    BY <2>1 DEF IInv, TypeOK, OwnershipInv, QueueSlots, SlotExclusive, Owning, ReadEmptySlots, Goto, queue
<1>2. TypeOK'
  BY DEF IInv, TypeOK, ReadEmptySlots, Goto, queue, nisr, spe
<1>3. StageInv' /\ ControlInv'
  BY DEF IInv, StageInv, Answered, Woken, ControlInv, ReadEmptySlots, Goto, queue, nisr,
    spe
<1>4. SemInv'
  BY DEF IInv, SemInv, Active, ReadEmptySlots, Goto, queue, nisr, spe
<1>5. OwnerInv'
  BY DEF IInv, OwnerInv, InFlight, Answered, Woken, Waiting, Owning, ReadEmptySlots, Goto,
    queue, nisr, spe
<1>6. ContentInv'
  BY DEF IInv, ContentInv, ReplyMatches, Answered, Woken, ReadEmptySlots, Goto, queue,
    nisr, spe
<1>7. NoLostRequest'
  BY DEF IInv, NoLostRequest, InFlight, Answered, Woken, Waiting, ReadEmptySlots, Goto,
    queue, nisr, spe
<1>8. NoLostSignal'
  BY DEF IInv, NoLostSignal, Woken, ReadEmptySlots, Goto, queue, nisr, spe
<1> QED
  BY <1>1, <1>2, <1>3, <1>4, <1>5, <1>6, <1>7, <1>8 DEF IInv

\* The slot that is claimed was still empty.
LEMMA ClaimSlotInv ==
  ASSUME IInv, NEW t \in Threads, ClaimSlot(t)
  PROVE  IInv'
<1>1. TypeOK' /\ OwnershipInv'
  <2> DEFINE i == Lowest(status[t])
  <2>1. i \in status[t] /\ status[t] \subseteq empty_slots /\ status[t] \subseteq Slots
    BY LowestIn DEF IInv, TypeOK, OwnershipInv, ClaimSlot, Goto
  <2>2. i \in Slots /\ i # NoSlot /\ i \in empty_slots
    BY <2>1, SlotsAssumption DEF IInv, TypeOK, Slots, NoSlot
  <2>3. /\ slot' = [slot EXCEPT ![t] = i] /\ empty_slots' = empty_slots \ {i}
        /\ status' = [status EXCEPT ![t] = {}]
        /\ pc[t] = "claim" /\ pc' = [pc EXCEPT ![t] = "fill"]
    BY DEF ClaimSlot, Goto
  <2> HIDE DEF i
  <2>4. TypeOK'
    BY <2>2, <2>3 DEF IInv, TypeOK, ClaimSlot, nisr, spe
  <2>5. /\ \A u \in Threads : u # t => pc'[u] = pc[u] /\ slot'[u] = slot[u] /\ status'[u] = status[u]
        /\ pc'[t] = "fill" /\ slot'[t] = i /\ status'[t] = {}
    BY <2>3 DEF IInv, TypeOK
  <2>6. OwnershipInv'
    <3>1. \A u \in Threads : pc'[u] \in Owning <=> slot'[u] # NoSlot
      BY <2>2, <2>5 DEF IInv, OwnershipInv, Owning
    <3>2. \A u \in Threads : pc'[u] \in Owning => slot'[u] \notin empty_slots'
      BY <2>2, <2>3, <2>5 DEF IInv, OwnershipInv
    <3>3. \A j \in QueueSlots' \ empty_slots' : \E u \in Threads : slot'[u] = j
      <4> SUFFICES ASSUME NEW j \in QueueSlots' \ empty_slots', j # i
                   PROVE  \E u \in Threads : slot'[u] = j
        BY <2>5
      <4>1. PICK u \in Threads : slot[u] = j
        BY <2>3 DEF IInv, OwnershipInv, QueueSlots, ClaimSlot
      <4>2. j # NoSlot
        BY QueueSlotsCount, SlotsAssumption DEF IInv, QueueSlots, NoSlot, ClaimSlot
      <4>3. u # t
        BY <2>3, <4>1, <4>2 DEF IInv, OwnershipInv, Owning
      <4> QED
        BY <2>5, <4>1, <4>3
    <3>4. SlotExclusive'
      BY <2>2, <2>5 DEF IInv, OwnershipInv, SlotExclusive, Owning
    <3>5. \A u \in Threads : pc'[u] # "claim"
      BY <2>3, <2>5 DEF IInv, OwnershipInv
    <3> QED
      BY <3>1, <3>2, <3>3, <3>4, <3>5 DEF OwnershipInv
  <2> QED
    BY <2>4, <2>6
<1>2. StageInv' /\ ControlInv'
  BY DEF IInv, StageInv, Answered, Woken, ControlInv, ClaimSlot, Goto, nisr, spe
<1>3. SemInv'
  BY DEF IInv, SemInv, Active, ClaimSlot, Goto, nisr, spe
<1>4. OwnerInv'
  BY DEF IInv, OwnerInv, InFlight, Answered, Woken, Waiting, Owning, ClaimSlot, Goto, nisr,
    spe
<1>5. ContentInv'
  BY DEF IInv, ContentInv, ReplyMatches, Answered, Woken, ClaimSlot, Goto, nisr, spe
<1>6. NoLostRequest'
  BY DEF IInv, NoLostRequest, InFlight, Answered, Woken, Waiting, ClaimSlot, Goto, nisr,
    spe
<1>7. NoLostSignal'
  BY DEF IInv, NoLostSignal, Woken, ClaimSlot, Goto, nisr, spe
<1> QED
  BY <1>1, <1>2, <1>3, <1>4, <1>5, <1>6, <1>7 DEF IInv

\* The message goes into a slot that nobody else uses.
LEMMA FillMsgInv ==
  ASSUME IInv, NEW t \in Threads, NEW c \in Calls, FillMsg(t, c)
  PROVE  IInv'
<1>1. TypeOK'
  <2>1. [req |-> req[t], call |-> c] \in Messages
    BY ClientsAssumption DEF IInv, TypeOK, Messages
  <2> QED
    BY <2>1 DEF IInv, TypeOK, FillMsg, Goto, nisr, spe
<1>2. StageInv'
  BY DEF IInv, StageInv, Answered, Woken, FillMsg, Goto, nisr, spe
<1>3. SemInv'
  <2>1. Active' = Active
    BY DEF IInv, TypeOK, Active, FillMsg, Goto
  <2> QED
    BY <2>1 DEF IInv, SemInv, FillMsg
<1>4. OwnershipInv'
  BY DEF IInv, OwnershipInv, QueueSlots, SlotExclusive, Owning, FillMsg, Goto, nisr, spe
<1>5. OwnerInv'
  BY DEF IInv, TypeOK, OwnershipInv, OwnerInv, InFlight, Answered, Woken, Waiting, Owning,
    SlotExclusive, FillMsg, Goto, nisr, spe
<1>6. ContentInv'
  BY DEF IInv, TypeOK, OwnershipInv, OwnerInv, ContentInv, ReplyMatches, Answered, Woken,
    SlotExclusive, Owning, InFlight, Waiting, FillMsg, Goto, nisr, spe
<1>7. ControlInv'
  BY DEF IInv, TypeOK, OwnershipInv, StageInv, OwnerInv, ControlInv, Answered, Woken,
    SlotExclusive, Owning, InFlight, Waiting, FillMsg, Goto, nisr, spe
<1>8. NoLostRequest'
  BY DEF IInv, OwnershipInv, NoLostRequest, InFlight, Answered, Woken, Waiting,
    SlotExclusive, Owning, FillMsg, Goto, nisr, spe
<1>9. NoLostSignal'
  BY DEF IInv, TypeOK, OwnershipInv, OwnerInv, NoLostSignal, Woken, SlotExclusive, Owning,
    InFlight, Answered, Waiting, FillMsg, Goto, nisr, spe
<1> QED
  BY <1>1, <1>2, <1>3, <1>4, <1>5, <1>6, <1>7, <1>8, <1>9 DEF IInv

\* The slot becomes pending, and is in no later stage.
LEMMA SetPendInv ==
  ASSUME IInv, NEW t \in Threads, SetPend(t)
  PROVE  IInv'
<1>1. TypeOK'
  BY OwnSlot DEF IInv, TypeOK, SetPend, Goto, Owning, nisr, spe
<1>2. ControlInv'
  BY DEF IInv, ControlInv, Answered, Woken, SetPend, Goto, nisr, spe
<1>3. SemInv'
  BY DEF IInv, SemInv, Active, SetPend, Goto, nisr, spe
<1>4. OwnershipInv'
  BY DEF IInv, OwnershipInv, QueueSlots, SlotExclusive, Owning, SetPend, Goto, nisr, spe
<1>5. StageInv'
  BY DEF IInv, OwnerInv, StageInv, Answered, Woken, InFlight, Waiting, Owning, SetPend,
    Goto, nisr, spe
<1>6. OwnerInv'
  BY DEF IInv, TypeOK, OwnerInv, InFlight, Answered, Woken, Waiting, Owning, SetPend, Goto,
    nisr, spe
<1>7. ContentInv'
  BY DEF IInv, OwnerInv, ContentInv, ReplyMatches, Answered, Woken, InFlight, Waiting,
    Owning, SetPend, Goto, nisr, spe
<1>8. NoLostRequest'
  BY DEF IInv, NoLostRequest, InFlight, Answered, Woken, Waiting, SetPend, Goto, nisr, spe
<1>9. NoLostSignal'
  BY DEF IInv, TypeOK, NoLostSignal, Woken, SetPend, Goto, nisr, spe
<1> QED
  BY <1>1, <1>2, <1>3, <1>4, <1>5, <1>6, <1>7, <1>8, <1>9 DEF IInv

\* After the notification the channel is busy, dropped or not.
LEMMA NotifyPeerInv ==
  ASSUME IInv, NEW t \in Threads, NotifyPeer(t)
  PROVE  IInv'
<1>1. TypeOK' /\ NoLostSignal'
  <2>1. call_chan' \in {"sent", "taken"}
    BY DEF IInv, TypeOK, NotifyPeer, Notified
  <2>2. TypeOK'
    BY <2>1 DEF IInv, TypeOK, NotifyPeer, Goto, queue, nisr, spe
  <2>3. NoLostSignal'
    BY <2>1 DEF IInv, TypeOK, NoLostSignal, Woken, NotifyPeer, Goto, queue, nisr, spe
  <2> QED
    BY <2>2, <2>3
<1>2. StageInv' /\ ControlInv'
  BY DEF IInv, StageInv, Answered, Woken, ControlInv, NotifyPeer, Goto, queue, nisr, spe
<1>3. SemInv'
  BY DEF IInv, SemInv, Active, NotifyPeer, Goto, queue, nisr, spe
<1>4. OwnershipInv'
  BY DEF IInv, OwnershipInv, QueueSlots, SlotExclusive, Owning, NotifyPeer, Goto, queue, nisr, spe
<1>5. OwnerInv'
  BY DEF IInv, OwnerInv, InFlight, Answered, Woken, Waiting, Owning, NotifyPeer, Goto,
    queue, nisr, spe
<1>6. ContentInv'
  BY DEF IInv, ContentInv, ReplyMatches, Answered, Woken, NotifyPeer, Goto, queue, nisr,
    spe
<1>7. NoLostRequest'
  BY DEF IInv, NoLostRequest, InFlight, Answered, Woken, Waiting, NotifyPeer, Goto, queue,
    nisr, spe
<1> QED
  BY <1>1, <1>2, <1>3, <1>4, <1>5, <1>6, <1>7 DEF IInv

\* The thread that consumes its flag is about to look at its slot.
LEMMA WaitReplyInv ==
  ASSUME IInv, NEW t \in Threads, WaitReply(t)
  PROVE  IInv'
<1>1. TypeOK'
  BY DEF IInv, TypeOK, WaitReply, Goto, queue, nisr, spe
<1>2. StageInv' /\ ControlInv'
  BY DEF IInv, StageInv, Answered, Woken, ControlInv, WaitReply, Goto, queue, nisr, spe
<1>3. SemInv'
  BY DEF IInv, SemInv, Active, WaitReply, Goto, queue, nisr, spe
<1>4. OwnershipInv'
  BY DEF IInv, OwnershipInv, QueueSlots, SlotExclusive, Owning, WaitReply, Goto, queue, nisr, spe
<1>5. OwnerInv'
  BY DEF IInv, OwnerInv, InFlight, Answered, Woken, Waiting, Owning, WaitReply, Goto,
    queue, nisr, spe
<1>6. ContentInv'
  BY DEF IInv, ContentInv, ReplyMatches, Answered, Woken, WaitReply, Goto, queue, nisr, spe
<1>7. NoLostRequest'
  BY DEF IInv, NoLostRequest, InFlight, Answered, Woken, Waiting, WaitReply, Goto, queue,
    nisr, spe
<1>8. NoLostSignal'
  BY DEF IInv, TypeOK, NoLostSignal, Woken, WaitReply, Goto, queue, nisr, spe
<1> QED
  BY <1>1, <1>2, <1>3, <1>4, <1>5, <1>6, <1>7, <1>8 DEF IInv

\* A woken thread has its reply.
LEMMA WaitReplySignalInv ==
  ASSUME IInv, NEW t \in Threads, WaitReplySignal(t)
  PROVE  IInv'
<1>1. TypeOK'
  BY DEF IInv, TypeOK, WaitReplySignal, Goto, nisr, spe
<1>2. SemInv'
  BY DEF IInv, SemInv, Active, WaitReplySignal, Goto, nisr, spe
<1>3. OwnershipInv'
  BY DEF IInv, OwnershipInv, QueueSlots, SlotExclusive, Owning, WaitReplySignal, Goto, nisr, spe
<1>4. StageInv'
  BY DEF IInv, StageInv, Answered, Woken, WaitReplySignal, Goto, nisr, spe
<1>5. OwnerInv'
  BY DEF IInv, TypeOK, StageInv, OwnerInv, InFlight, Answered, Woken, Waiting, Owning,
    WaitReplySignal, Goto, nisr, spe
<1>6. ContentInv'
  BY DEF IInv, TypeOK, OwnershipInv, OwnerInv, ContentInv, ReplyMatches, Answered, Woken,
    SlotExclusive, Owning, InFlight, Waiting, WaitReplySignal, Goto, nisr, spe
<1>7. ControlInv'
  BY DEF IInv, StageInv, ControlInv, Answered, Woken, WaitReplySignal, Goto, nisr, spe
<1>8. NoLostRequest'
  BY DEF IInv, TypeOK, OwnershipInv, NoLostRequest, InFlight, Answered, Woken, Waiting,
    SlotExclusive, Owning, WaitReplySignal, Goto, nisr, spe
<1>9. NoLostSignal'
  BY DEF IInv, TypeOK, OwnerInv, NoLostSignal, Woken, InFlight, Answered, Waiting, Owning,
    WaitReplySignal, Goto, nisr, spe
<1> QED
  BY <1>1, <1>2, <1>3, <1>4, <1>5, <1>6, <1>7, <1>8, <1>9 DEF IInv

\* The slot is given back.
LEMMA RxReplyInv ==
  ASSUME IInv, NEW t \in Threads, RxReply(t)
  PROVE  IInv'
<1>1. TypeOK'
  BY OwnSlot DEF IInv, TypeOK, RxReply, Goto, Owning, nisr, spe
<1>2. SemInv'
  BY DEF IInv, SemInv, Active, RxReply, Goto, nisr, spe
<1>3. OwnershipInv'
  BY DEF IInv, TypeOK, OwnershipInv, QueueSlots, SlotExclusive, Owning, RxReply, Goto, nisr, spe
<1>4. StageInv'
  BY DEF IInv, StageInv, Answered, Woken, RxReply, Goto, nisr, spe
<1>5. OwnerInv'
  BY DEF IInv, TypeOK, OwnerInv, InFlight, Answered, Woken, Waiting, Owning, RxReply, Goto,
    nisr, spe
<1>6. ContentInv'
  BY DEF IInv, TypeOK, OwnerInv, ContentInv, ReplyMatches, Answered, Woken, InFlight,
    Waiting, Owning, RxReply, Goto, nisr, spe
<1>7. ControlInv'
  BY DEF IInv, StageInv, ControlInv, Answered, Woken, RxReply, Goto, nisr, spe
<1>8. NoLostRequest'
  BY DEF IInv, OwnershipInv, NoLostRequest, InFlight, Answered, Woken, Waiting,
    SlotExclusive, Owning, RxReply, Goto, nisr, spe
<1>9. NoLostSignal'
  BY DEF IInv, TypeOK, NoLostSignal, Woken, RxReply, Goto, nisr, spe
<1> QED
  BY <1>1, <1>2, <1>3, <1>4, <1>5, <1>6, <1>7, <1>8, <1>9 DEF IInv

\* The semaphore is given back.
LEMMA UnlockInv ==
  ASSUME IInv, NEW t \in Threads, Unlock(t)
  PROVE  IInv'
<1>1. TypeOK' /\ SemInv'
  <2>1. SemInv'
    BY ActiveShrinks, ActiveFinite, SlotsAssumption DEF IInv, TypeOK, SemInv, Unlock
  <2>2. Cardinality(Active') \in Nat
    <3>1. Active' \in SUBSET Threads
      BY DEF Active
    <3> QED
      BY <3>1, FS_Subset, FS_CardinalityType, ClientsAssumption
  <2>3. sem' \in 0 .. NumSlots
    BY <2>1, <2>2, SlotsAssumption DEF IInv, TypeOK, SemInv, Unlock
  <2>4. TypeOK'
    BY <2>3 DEF IInv, TypeOK, Unlock, Goto, queue, nisr, spe
  <2> QED
    BY <2>1, <2>4
<1>2. StageInv' /\ ControlInv'
  BY DEF IInv, StageInv, Answered, Woken, ControlInv, Unlock, Goto, queue, nisr, spe
<1>3. OwnershipInv'
  BY DEF IInv, OwnershipInv, QueueSlots, SlotExclusive, Owning, Unlock, Goto, queue, nisr, spe
<1>4. OwnerInv'
  BY DEF IInv, OwnerInv, InFlight, Answered, Woken, Waiting, Owning, Unlock, Goto, queue,
    nisr, spe
<1>5. ContentInv'
  BY DEF IInv, ContentInv, ReplyMatches, Answered, Woken, Unlock, Goto, queue, nisr, spe
<1>6. NoLostRequest'
  BY DEF IInv, NoLostRequest, InFlight, Answered, Woken, Waiting, Unlock, Goto, queue,
    nisr, spe
<1>7. NoLostSignal'
  BY DEF IInv, NoLostSignal, Woken, Unlock, Goto, queue, nisr, spe
<1> QED
  BY <1>1, <1>2, <1>3, <1>4, <1>5, <1>6, <1>7 DEF IInv

\* The reply interrupt starts.
LEMMA ReplyIrqInv ==
  ASSUME IInv, ReplyIrq
  PROVE  IInv'
<1>1. TypeOK'
  BY DEF IInv, TypeOK, ReplyIrq, queue, threads, spe
<1>2. SemInv' /\ OwnershipInv' /\ StageInv' /\ OwnerInv' /\ ContentInv' /\ NoLostRequest'
  BY DEF IInv, SemInv, Active, OwnershipInv, QueueSlots, SlotExclusive, Owning, StageInv, Answered,
    Woken, OwnerInv, InFlight, Waiting, ContentInv, ReplyMatches, NoLostRequest, ReplyIrq,
    queue, threads, spe
<1>3. ControlInv'
  BY DEF IInv, ControlInv, Answered, Woken, ReplyIrq, queue, threads, spe
<1>4. NoLostSignal'
  BY DEF IInv, NoLostSignal, Woken, ReplyIrq, queue, threads, spe
<1> QED
  BY <1>1, <1>2, <1>3, <1>4 DEF IInv

\* It releases the channel before it reads the status.
LEMMA FetchReplyInv ==
  ASSUME IInv, FetchReply
  PROVE  IInv'
<1>1. TypeOK'
  BY DEF IInv, TypeOK, FetchReply, queue, threads, spe
<1>2. SemInv' /\ OwnershipInv' /\ StageInv' /\ OwnerInv' /\ ContentInv' /\ NoLostRequest'
  BY DEF IInv, SemInv, Active, OwnershipInv, QueueSlots, SlotExclusive, Owning, StageInv, Answered,
    Woken, OwnerInv, InFlight, Waiting, ContentInv, ReplyMatches, NoLostRequest,
    FetchReply, queue, threads, spe
<1>3. ControlInv'
  BY DEF IInv, ControlInv, Answered, Woken, FetchReply, queue, threads, spe
<1>4. NoLostSignal'
  BY DEF IInv, NoLostSignal, Woken, FetchReply, queue, threads, spe
<1> QED
  BY <1>1, <1>2, <1>3, <1>4 DEF IInv

\* It takes over all replied slots.
LEMMA TakeRepliedInv ==
  ASSUME IInv, TakeReplied
  PROVE  IInv'
<1>1. TypeOK'
  BY DEF IInv, TypeOK, TakeReplied, threads, spe
<1>2. SemInv' /\ OwnershipInv'
  BY DEF IInv, SemInv, Active, OwnershipInv, QueueSlots, SlotExclusive, Owning, TakeReplied, threads,
    spe
<1>3. StageInv'
  BY DEF IInv, StageInv, Answered, Woken, TakeReplied, threads, spe
<1>4. OwnerInv'
  BY DEF IInv, OwnerInv, InFlight, Answered, Woken, Waiting, Owning, TakeReplied, threads,
    spe
<1>5. ContentInv'
  BY DEF IInv, ContentInv, ReplyMatches, Answered, Woken, TakeReplied, threads, spe
<1>6. ControlInv'
  BY DEF IInv, ControlInv, Answered, Woken, TakeReplied, threads, spe
<1>7. NoLostRequest'
  BY DEF IInv, ControlInv, NoLostRequest, InFlight, Answered, Woken, Waiting, TakeReplied,
    threads, spe
<1>8. NoLostSignal'
  BY DEF IInv, NoLostSignal, Woken, TakeReplied, threads, spe
<1> QED
  BY <1>1, <1>2, <1>3, <1>4, <1>5, <1>6, <1>7, <1>8 DEF IInv

\* It wakes the owner of one of them.
LEMMA WakeOwnerInv ==
  ASSUME IInv, WakeOwner
  PROVE  IInv'
<1>1. StageInv' /\ OwnerInv' /\ ContentInv' /\ NoLostSignal'
  <2> DEFINE i == Lowest(n_slots)
  <2>1. i \in n_slots /\ n_slots \subseteq Slots
    BY LowestIn DEF IInv, TypeOK, ControlInv, WakeOwner
  <2>2. owner[i] \in Threads
    BY <2>1 DEF IInv, OwnerInv, InFlight, Answered
  <2>3. /\ is_woken' = [is_woken EXCEPT ![i] = TRUE] /\ n_slots' = n_slots \ {i}
        /\ flag' = [flag EXCEPT ![owner[i]] = TRUE]
    BY DEF WakeOwner
  <2> HIDE DEF i
  <2>4. Woken' = Woken \cup {i}
    BY <2>1, <2>3 DEF IInv, TypeOK, Woken
  <2>5. Answered' = Answered
    BY <2>1, <2>3, <2>4 DEF WakeOwner, Answered, spe
  <2>6. InFlight' = InFlight
    BY <2>5 DEF WakeOwner, InFlight, spe
  <2>7. StageInv'
    BY <2>1, <2>3, <2>4, <2>5 DEF IInv, StageInv, WakeOwner, spe
  <2>8. OwnerInv'
    BY <2>6 DEF IInv, OwnerInv, WakeOwner, threads
  <2>9. ContentInv'
    BY <2>5 DEF IInv, ContentInv, ReplyMatches, WakeOwner, threads, spe
  <2>10. NoLostSignal'
    BY <2>2, <2>3, <2>4 DEF IInv, TypeOK, NoLostSignal, ControlInv, WakeOwner, threads, spe
  <2> QED
    BY <2>7, <2>8, <2>9, <2>10
<1>2. TypeOK'
  BY DEF IInv, TypeOK, WakeOwner, threads, spe
<1>3. SemInv' /\ OwnershipInv'
  BY DEF IInv, SemInv, Active, OwnershipInv, QueueSlots, SlotExclusive, Owning, WakeOwner, threads, spe
<1>4. ControlInv'
  BY DEF IInv, TypeOK, ControlInv, Answered, Woken, WakeOwner, threads, spe
<1>5. NoLostRequest'
  BY DEF IInv, TypeOK, NoLostRequest, InFlight, Answered, Woken, Waiting, WakeOwner,
    threads, spe
<1> QED
  BY <1>1, <1>2, <1>3, <1>4, <1>5 DEF IInv

\* The request interrupt starts.
LEMMA CallIrqInv ==
  ASSUME IInv, CallIrq
  PROVE  IInv'
<1>1. TypeOK'
  BY DEF IInv, TypeOK, CallIrq, queue, threads, nisr, spe
<1>2. SemInv' /\ OwnershipInv' /\ StageInv' /\ OwnerInv' /\ ContentInv' /\ ControlInv' /\ NoLostRequest'
  BY DEF IInv, SemInv, Active, OwnershipInv, QueueSlots, SlotExclusive, Owning, StageInv, Answered,
    Woken, OwnerInv, InFlight, Waiting, ContentInv, ReplyMatches, ControlInv,
    NoLostRequest, CallIrq, queue, threads, nisr, spe
<1>3. NoLostSignal'
  BY DEF IInv, NoLostSignal, Woken, CallIrq, queue, threads, nisr, spe
<1> QED
  BY <1>1, <1>2, <1>3 DEF IInv

\* It releases the channel and triggers PendSV.
LEMMA FetchCallInv ==
  ASSUME IInv, FetchCall
  PROVE  IInv'
<1>1. TypeOK'
  BY DEF IInv, TypeOK, FetchCall, queue, threads, nisr, spe
<1>2. SemInv' /\ OwnershipInv' /\ StageInv' /\ OwnerInv' /\ ContentInv' /\ ControlInv' /\ NoLostRequest'
  BY DEF IInv, SemInv, Active, OwnershipInv, QueueSlots, SlotExclusive, Owning, StageInv, Answered,
    Woken, OwnerInv, InFlight, Waiting, ContentInv, ReplyMatches, ControlInv,
    NoLostRequest, FetchCall, queue, threads, nisr, spe
<1>3. NoLostSignal'
  BY DEF IInv, NoLostSignal, Woken, FetchCall, queue, threads, nisr, spe
<1> QED
  BY <1>1, <1>2, <1>3 DEF IInv

\* PendSV takes a snapshot of the pending slots.
LEMMA PendSVInv ==
  ASSUME IInv, PendSV
  PROVE  IInv'
<1>1. TypeOK'
  BY DEF IInv, TypeOK, PendSV, queue, threads, nisr
<1>2. SemInv' /\ OwnershipInv' /\ OwnerInv' /\ ContentInv' /\ NoLostRequest'
  BY DEF IInv, SemInv, Active, OwnershipInv, QueueSlots, SlotExclusive, Owning, OwnerInv, InFlight,
    Answered, Woken, Waiting, ContentInv, ReplyMatches, NoLostRequest, PendSV, queue,
    threads, nisr
<1>3. StageInv'
  BY DEF IInv, ControlInv, StageInv, Answered, Woken, PendSV, queue, threads, nisr
<1>4. ControlInv'
  BY DEF IInv, ControlInv, Answered, Woken, PendSV, queue, threads, nisr
<1>5. NoLostSignal'
  BY DEF IInv, NoLostSignal, Woken, PendSV, queue, threads, nisr
<1> QED
  BY <1>1, <1>2, <1>3, <1>4, <1>5 DEF IInv

\* A slot of the snapshot is answered, delivered or, for the null handle, dropped.
LEMMA HandleSlotInv ==
  ASSUME IInv, HandleSlot
  PROVE  IInv'
<1> DEFINE i == Lowest(s_todo)
<1>1. i \in s_todo /\ i \in Slots
  BY LowestIn DEF IInv, TypeOK, ControlInv, HandleSlot
<1>2. /\ i \in pend_slots /\ i \in s_pend /\ i \notin delivered \cup Answered
      /\ msg[i].req = req[owner[i]] /\ i \in InFlight
  BY <1>1 DEF IInv, StageInv, ContentInv, InFlight
<1>3. PICK o \in Outcomes(msg[i].call) :
       /\ return_val' = IF o = "answer" THEN [return_val EXCEPT ![i] = msg[i].req]
                                        ELSE return_val
       /\ s_reply' = IF o = "answer" THEN s_reply \cup {i} ELSE s_reply
       /\ spe_msg' = [spe_msg EXCEPT ![i] = IF o = "answer" THEN NoRequest ELSE msg[i].req]
       /\ delivered' = IF o = "deliver" THEN delivered \cup {i} ELSE delivered
  BY DEF HandleSlot
<1>4. o \in {"answer", "deliver", "nothing"} /\ (msg[i].call = "request" => o # "nothing")
  BY DEF Outcomes
<1>5. s_todo' = s_todo \ {i} /\ s_pc' = IF s_todo = {i} THEN "finish" ELSE "handle"
  BY DEF HandleSlot
<1> HIDE DEF i
<1>6. msg[i].req \in Requests \cup {NoRequest}
  BY <1>1 DEF IInv, TypeOK, Messages
<1>7. TypeOK'
  BY <1>1, <1>3, <1>5, <1>6 DEF IInv, TypeOK, HandleSlot, threads, nisr
<1>8. Woken' = Woken /\ Answered' = IF o = "answer" THEN Answered \cup {i} ELSE Answered
  BY <1>3 DEF HandleSlot, Woken, Answered, nisr
<1>9. InFlight' = InFlight
  BY <1>2, <1>3, <1>8 DEF HandleSlot, InFlight
<1>10. StageInv'
  <2>1. s_reply' \cap (replied_slots' \cup n_slots' \cup Woken') = {}
    BY <1>2, <1>3, <1>8 DEF IInv, StageInv, Answered, HandleSlot, nisr
  <2>2. delivered' \cap Answered' = {}
    BY <1>2, <1>3, <1>4, <1>8 DEF IInv, StageInv
  <2>3. (delivered' \cup Answered') \cap pend_slots' \subseteq s_pend' \ s_todo'
    BY <1>1, <1>2, <1>3, <1>5, <1>8 DEF IInv, StageInv, HandleSlot
  <2> QED
    BY <1>5, <1>8, <2>1, <2>2, <2>3 DEF IInv, StageInv, HandleSlot, nisr
<1>11. OwnerInv' /\ NoLostRequest'
  BY <1>9 DEF IInv, OwnerInv, NoLostRequest, HandleSlot, threads
<1>12. ContentInv'
  <2>1. \A j \in delivered' : spe_msg'[j] = req[owner[j]]
    BY <1>1, <1>2, <1>3, <1>4 DEF IInv, TypeOK, ContentInv
  <2>2. \A j \in Answered' : return_val'[j] = req[owner[j]]
    BY <1>1, <1>2, <1>3, <1>8 DEF IInv, TypeOK, ContentInv
  <2>3. \A t \in Threads : pc[t] = "rx" => return_val'[slot[t]] = req[t]
    BY <1>2, <1>3, NotInFlight DEF IInv, TypeOK, ContentInv, ReplyMatches
  <2> QED
    BY <2>1, <2>2, <2>3 DEF IInv, ContentInv, ReplyMatches, HandleSlot, threads
<1>13. ControlInv'
  <2>1. \A j \in s_pend' \ s_todo' : msg'[j].call = "request" => j \in delivered' \cup Answered'
    BY <1>3, <1>4, <1>5, <1>8 DEF IInv, ControlInv, HandleSlot
  <2>2. (s_pc' = "handle" <=> s_todo' # {}) /\ s_pc' \in {"handle", "finish"}
    BY <1>1, <1>5
  <2> QED
    BY <2>1, <2>2 DEF IInv, ControlInv, HandleSlot, nisr
<1>14. SemInv' /\ OwnershipInv' /\ NoLostSignal'
  BY <1>2, <1>5 DEF IInv, SemInv, Active, OwnershipInv, QueueSlots, SlotExclusive, NoLostSignal, Woken, HandleSlot, threads, nisr
<1> QED
  BY <1>7, <1>10, <1>11, <1>12, <1>13, <1>14 DEF IInv

\* The snapshot leaves the pending status and the answers become visible.
LEMMA FinishHandleInv ==
  ASSUME IInv, FinishHandle
  PROVE  IInv'
<1>1. TypeOK'
  BY DEF IInv, TypeOK, FinishHandle, threads, nisr
<1>2. SemInv' /\ OwnershipInv'
  BY DEF IInv, SemInv, Active, OwnershipInv, QueueSlots, SlotExclusive, Owning, FinishHandle, threads,
    nisr
<1>3. StageInv'
  BY DEF IInv, ControlInv, StageInv, Answered, Woken, FinishHandle, threads, nisr
<1>4. OwnerInv'
  BY DEF IInv, OwnerInv, InFlight, Answered, Woken, Waiting, Owning, FinishHandle, threads,
    nisr
<1>5. ContentInv'
  BY DEF IInv, ContentInv, ReplyMatches, Answered, Woken, FinishHandle, threads, nisr
<1>6. ControlInv'
  BY DEF IInv, ControlInv, Answered, Woken, FinishHandle, threads, nisr
<1>7. NoLostRequest'
  BY DEF IInv, ControlInv, NoLostRequest, InFlight, Answered, Woken, Waiting, FinishHandle,
    threads, nisr
<1>8. NoLostSignal'
  BY DEF IInv, NoLostSignal, Woken, FinishHandle, threads, nisr
<1> QED
  BY <1>1, <1>2, <1>3, <1>4, <1>5, <1>6, <1>7, <1>8 DEF IInv

\* The other core is notified, unless the channel is busy already.
LEMMA NotifyNsInv ==
  ASSUME IInv, NotifyNs
  PROVE  IInv'
<1>1. TypeOK' /\ ControlInv' /\ NoLostSignal'
  <2>1. /\ reply_chan' \in {"sent", "taken"} /\ (reply_chan' = "taken" <=> reply_chan = "taken")
        /\ s_pc = "notify" /\ s_pc' = "idle"
    BY DEF IInv, TypeOK, NotifyNs, Notified
  <2>2. TypeOK'
    BY <2>1 DEF IInv, TypeOK, NotifyNs, queue, threads, nisr
  <2>3. ControlInv'
    BY <2>1 DEF IInv, ControlInv, Answered, Woken, NotifyNs, queue, nisr
  <2>4. NoLostSignal'
    BY <2>1 DEF IInv, NoLostSignal, Woken, NotifyNs, queue, threads, nisr
  <2> QED
    BY <2>2, <2>3, <2>4

<1>2. SemInv' /\ OwnershipInv' /\ StageInv' /\ OwnerInv' /\ ContentInv' /\ NoLostRequest'
  BY DEF IInv, SemInv, Active, OwnershipInv, QueueSlots, SlotExclusive, Owning, StageInv, Answered,
    Woken, OwnerInv, InFlight, Waiting, ContentInv, ReplyMatches, NoLostRequest, NotifyNs,
    queue, threads, nisr
<1> QED
  BY <1>1, <1>2 DEF IInv

\* A partition replies.
LEMMA ReplyMsgInv ==
  ASSUME IInv, NEW i \in Slots, ReplyMsg(i)
  PROVE  IInv'
<1>1. TypeOK'
  BY DEF IInv, TypeOK, ReplyMsg, threads, nisr
<1>2. SemInv' /\ OwnershipInv'
  BY DEF IInv, SemInv, Active, OwnershipInv, QueueSlots, SlotExclusive, Owning, ReplyMsg, threads, nisr
<1>3. StageInv'
  BY DEF IInv, StageInv, Answered, Woken, ReplyMsg, threads, nisr
<1>4. OwnerInv'
  BY DEF IInv, OwnerInv, InFlight, Answered, Woken, Waiting, Owning, ReplyMsg, threads,
    nisr
<1>5. ContentInv'
  BY DEF IInv, TypeOK, OwnerInv, ContentInv, ReplyMatches, Answered, Woken, InFlight,
    Waiting, Owning, ReplyMsg, threads, nisr
<1>6. ControlInv'
  BY DEF IInv, ControlInv, Answered, Woken, ReplyMsg, threads, nisr
<1>7. NoLostRequest'
  BY DEF IInv, ControlInv, NoLostRequest, InFlight, Answered, Woken, Waiting, ReplyMsg,
    threads, nisr
<1>8. NoLostSignal'
  BY DEF IInv, NoLostSignal, Woken, ReplyMsg, threads, nisr
<1> QED
  BY <1>1, <1>2, <1>3, <1>4, <1>5, <1>6, <1>7, <1>8 DEF IInv

\* The reply becomes visible.
LEMMA SetRepliedInv ==
  ASSUME IInv, SetReplied
  PROVE  IInv'
<1>1. TypeOK'
  BY DEF IInv, TypeOK, SetReplied, threads, nisr
<1>2. SemInv' /\ OwnershipInv'
  BY DEF IInv, SemInv, Active, OwnershipInv, QueueSlots, SlotExclusive, Owning, SetReplied, threads,
    nisr
<1>3. StageInv'
  BY DEF IInv, ControlInv, StageInv, Answered, Woken, SetReplied, threads, nisr
<1>4. OwnerInv'
  BY DEF IInv, OwnerInv, InFlight, Answered, Woken, Waiting, Owning, SetReplied, threads,
    nisr
<1>5. ContentInv'
  BY DEF IInv, ContentInv, ReplyMatches, Answered, Woken, SetReplied, threads, nisr
<1>6. ControlInv'
  BY DEF IInv, ControlInv, Answered, Woken, SetReplied, threads, nisr
<1>7. NoLostRequest'
  BY DEF IInv, NoLostRequest, InFlight, Answered, Woken, Waiting, SetReplied, threads, nisr
<1>8. NoLostSignal'
  BY DEF IInv, NoLostSignal, Woken, SetReplied, threads, nisr
<1> QED
  BY <1>1, <1>2, <1>3, <1>4, <1>5, <1>6, <1>7, <1>8 DEF IInv

\* Every step preserves the invariant.
LEMMA NextInv ==
  ASSUME AcquireIsSafe, IInv, [Next]_vars
  PROVE  IInv'
<1>1. ASSUME NEW t \in Threads, ClientCall(t) \/ ThreadStep(t)
      PROVE  IInv'
  BY <1>1, ClientCallInv, ReadEmptySlotsInv, ClaimSlotInv, FillMsgInv, SetPendInv, NotifyPeerInv,
     WaitReplyInv, WaitReplySignalInv, RxReplyInv, UnlockInv DEF ThreadStep
<1>2. CASE ReplyIrqStep
  BY <1>2, ReplyIrqInv, FetchReplyInv, TakeRepliedInv, WakeOwnerInv DEF ReplyIrqStep
<1>3. CASE CallIrqStep
  BY <1>3, CallIrqInv, FetchCallInv DEF CallIrqStep
<1>4. CASE HandlerStep \/ PendSV
  BY <1>4, PendSVInv, HandleSlotInv, FinishHandleInv, NotifyNsInv, SetRepliedInv DEF HandlerStep
<1>5. ASSUME NEW i \in Slots, ReplyMsg(i)
      PROVE  IInv'
  BY <1>5, ReplyMsgInv
<1>6. CASE UNCHANGED vars
  BY <1>6 DEF vars, queue, threads, nisr, spe, IInv, TypeOK, SemInv, Active, OwnershipInv, QueueSlots,
     SlotExclusive, StageInv, OwnerInv, ContentInv, ReplyMatches, ControlInv, NoLostRequest,
     NoLostSignal, InFlight, Answered, Woken
<1> QED
  BY <1>1, <1>2, <1>3, <1>4, <1>5, <1>6 DEF Next

\* The inductive invariant: as long as a thread is not preempted inside
\* acquire_empty_slot(), or there is one slot, the mailbox keeps slots, owners,
\* stages and notifications consistent for any number of threads and slots.
THEOREM MailboxInvariant ==
  ASSUME AcquireIsSafe
  PROVE  Spec => []IInv
<1>1. Init => IInv
  BY InitInv
<1>2. IInv /\ [Next]_vars => IInv'
  BY NextInv
<1> QED
  BY <1>1, <1>2, PTL DEF Spec

\* acquire_empty_slot() never returns MAILBOX_QUEUE_FULL to a thread that holds
\* the semaphore.
THEOREM QueueNeverFullHolds ==
  ASSUME AcquireIsSafe
  PROVE  Spec => []QueueNeverFull
  BY MailboxInvariant, EmptySlotLeft, PTL

\* A slot serves one call at a time, and a call gets the answer to its own request.
THEOREM ReplyMatchesHolds ==
  ASSUME AcquireIsSafe
  PROVE  Spec => [](SlotExclusive /\ ReplyMatches)
<1>1. IInv => SlotExclusive /\ ReplyMatches
  BY DEF IInv, OwnershipInv, ContentInv
<1> QED
  BY <1>1, MailboxInvariant, PTL

\* tfm_ns_mailbox_wake_reply_owner_isr() wakes a thread that waits for that slot.
THEOREM WakesOwnerHolds ==
  ASSUME AcquireIsSafe
  PROVE  Spec => []WakesOwner
<1>1. IInv => WakesOwner
  BY ClientsAssumption DEF IInv, OwnerInv, InFlight, Answered, Waiting, WakesOwner
<1> QED
  BY <1>1, MailboxInvariant, PTL

\* No request is dropped between its pending status and its caller.
THEOREM NoLostRequestHolds ==
  ASSUME AcquireIsSafe
  PROVE  Spec => []NoLostRequest
<1>1. IInv => NoLostRequest
  BY DEF IInv
<1> QED
  BY <1>1, MailboxInvariant, PTL

\* No notification is lost when a busy channel makes the code drop it.
THEOREM NoLostSignalHolds ==
  ASSUME AcquireIsSafe
  PROVE  Spec => []NoLostSignal
<1>1. IInv => NoLostSignal
  BY DEF IInv
<1> QED
  BY <1>1, MailboxInvariant, PTL

=============================================================================
