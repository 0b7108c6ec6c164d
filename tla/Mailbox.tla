------------------------------- MODULE Mailbox -------------------------------
(***************************************************************************)
(* The mailbox through which non-secure threads on one core call the       *)
(* secure services on the other one: tfm_ns_mailbox.c with the RTOS calls  *)
(* of tfm_ns_mailbox_rtos_api.c, tfm_spe_mailbox.c, and the inter-core     *)
(* interrupts of the PSoC 64 port (platform_ns_mailbox.c,                  *)
(* platform_spe_mailbox.c, mailbox_ipc_intr.c).                            *)
(*                                                                         *)
(* A step is one critical section, or the unprotected code between two of  *)
(* them when it only touches memory of its own slot.  On the non-secure    *)
(* core the threads interleave with each other and with the reply          *)
(* interrupt.  On the secure core PendSV, which handles requests, and the  *)
(* SVC by which a partition replies exclude each other, and both can be    *)
(* interrupted by the request interrupt.  The two cores run concurrently.  *)
(* Requests are identified by their thread and by a number that changes    *)
(* from one call of the thread to the next; a reply is the identity of the *)
(* request that it answers.                                                *)
(***************************************************************************)
EXTENDS Naturals, FiniteSets

CONSTANTS
  Threads,     \* non-secure threads
  NoThread,    \* a null task handle
  NumSlots,    \* bound: NUM_MAILBOX_QUEUE_SLOT of any build
  Calls,       \* kinds of PSA calls the threads make, of CallKinds
  Numbered,    \* threads that number their requests, the others send equal ones
  NumSeqs,     \* bound: requests are numbered modulo NumSeqs
  Preempt      \* may another thread run between the two critical sections of
               \* acquire_empty_slot()?

\* "request" stands for psa_framework_version(), psa_version(), psa_connect(),
\* psa_call() and psa_close() of a connection; "close_null" for psa_close() of the
\* null handle.
CallKinds == {"request", "close_null"}

ASSUME SlotsAssumption == NumSlots \in Nat \ {0} /\ NumSeqs \in Nat \ {0}
ASSUME ClientsAssumption ==
  /\ NoThread \notin Threads /\ IsFiniteSet(Threads) /\ Numbered \subseteq Threads
  /\ Calls \subseteq CallKinds /\ Preempt \in BOOLEAN

Slots == 0 .. NumSlots - 1
NoSlot == NumSlots              \* above every index, as in the code

Requests == Threads \X (0 .. NumSeqs - 1)
NoRequest == <<NoThread, 0>>
Messages == [req : Requests \cup {NoRequest}, call : CallKinds]
NoMessage == [req |-> NoRequest, call |-> "request"]

VARIABLES
  num_slots,    \* NUM_MAILBOX_QUEUE_SLOT of this build
  \* struct ns_mailbox_queue_t, in memory shared by the cores
  empty_slots, pend_slots, replied_slots, msg, return_val, owner, is_woken,
  \* non-secure threads: program counter, request, snapshot of empty_slots, slot
  pc, req, status, slot,
  sem,          \* the semaphore of tfm_ns_mailbox_os_lock_acquire()
  flag,         \* MAILBOX_THREAD_FLAG of each thread
  \* the reply interrupt of the non-secure core: progress, replied_status
  n_isr, n_slots,
  \* the two IPC channels: "free", "sent" (locked, interrupt pending), "taken"
  \* (locked, interrupt cleared)
  call_chan, reply_chan,
  \* secure core: PendSV pending, progress, pend_slots, slots still to handle,
  \* reply_slots, SPE mailbox queue, slots whose message is with a partition
  pendsv, s_pc, s_pend, s_todo, s_reply, spe_msg, delivered

queue == <<empty_slots, pend_slots, replied_slots, msg, return_val, owner, is_woken>>
threads == <<pc, req, status, slot, sem>>
nisr == <<n_isr, n_slots>>
spe == <<s_pc, s_pend, s_todo, s_reply, spe_msg, delivered>>
vars == <<num_slots, queue, threads, flag, nisr, call_chan, reply_chan, pendsv, spe>>

QueueSlots == 0 .. num_slots - 1

\* tfm_ns_mailbox_init(), tfm_mailbox_init()
Init ==
  /\ num_slots \in 1 .. NumSlots
  /\ empty_slots = QueueSlots /\ pend_slots = {} /\ replied_slots = {}
  /\ msg = [i \in Slots |-> NoMessage]
  /\ return_val = [i \in Slots |-> NoRequest]
  /\ owner = [i \in Slots |-> NoThread]
  /\ is_woken = [i \in Slots |-> FALSE]
  /\ pc = [t \in Threads |-> "idle"]
  /\ req = [t \in Threads |-> <<t, 0>>]
  /\ status = [t \in Threads |-> {}]
  /\ slot = [t \in Threads |-> NoSlot]
  /\ sem = num_slots
  /\ flag = [t \in Threads |-> FALSE]
  /\ n_isr = "idle" /\ n_slots = {}
  /\ call_chan = "free" /\ reply_chan = "free"
  /\ pendsv = FALSE
  /\ s_pc = "idle" /\ s_pend = {} /\ s_todo = {} /\ s_reply = {}
  /\ spe_msg = [i \in Slots |-> NoRequest]
  /\ delivered = {}

Lowest(S) == CHOOSE i \in S : \A j \in S : i <= j

-----------------------------------------------------------------------------
(* tfm_ns_mailbox_client_call(), in a non-secure thread.                   *)

\* A thread runs when the reply interrupt does not, and, unless Preempt, when no
\* other thread is between the two critical sections of acquire_empty_slot().
Runs(t) ==
  /\ n_isr = "idle"
  /\ Preempt \/ \A u \in Threads \ {t} : pc[u] # "claim"

Goto(t, from, to) == Runs(t) /\ pc[t] = from /\ pc' = [pc EXCEPT ![t] = to]

\* tfm_ns_mailbox_os_lock_acquire()
ClientCall(t) ==
  /\ Goto(t, "idle", "acquire")
  /\ sem > 0
  /\ sem' = sem - 1
  /\ req' = IF t \in Numbered THEN [req EXCEPT ![t][2] = (@ + 1) % NumSeqs] ELSE req
  /\ UNCHANGED <<num_slots, queue, status, slot, flag, nisr, call_chan, reply_chan,
                 pendsv, spe>>

\* acquire_empty_slot(): a slot is chosen from a snapshot of the bitmask ...
ReadEmptySlots(t) ==
  /\ Goto(t, "acquire", IF empty_slots = {} THEN "unlock" ELSE "claim")
  /\ status' = [status EXCEPT ![t] = empty_slots]
  /\ UNCHANGED <<num_slots, queue, req, slot, sem, flag, nisr, call_chan, reply_chan,
                 pendsv, spe>>

\* Mutant: the slot is not taken out of the bitmask.
MutClaimNoClear(t) ==
  /\ Goto(t, "claim", "fill")
  /\ slot' = [slot EXCEPT ![t] = Lowest(status[t])]
  /\ status' = [status EXCEPT ![t] = {}]
  /\ UNCHANGED <<num_slots, queue, req, sem, flag, nisr, call_chan, reply_chan,
                 pendsv, spe>>

\* ... and taken in a second critical section.
ClaimSlot(t) ==
  /\ Goto(t, "claim", "fill")
  /\ slot' = [slot EXCEPT ![t] = Lowest(status[t])]
  /\ empty_slots' = empty_slots \ {Lowest(status[t])}
  /\ status' = [status EXCEPT ![t] = {}]
  /\ UNCHANGED <<num_slots, pend_slots, replied_slots, msg, return_val, owner,
                 is_woken, req, sem, flag, nisr, call_chan, reply_chan, pendsv, spe>>

\* mailbox_tx_client_req(): the message and its owner, ...
FillMsg(t, c) ==
  /\ Goto(t, "fill", "pend")
  /\ msg' = [msg EXCEPT ![slot[t]] = [req |-> req[t], call |-> c]]
  /\ owner' = [owner EXCEPT ![slot[t]] = t]
  /\ UNCHANGED <<num_slots, empty_slots, pend_slots, replied_slots, return_val,
                 is_woken, req, status, slot, sem, flag, nisr, call_chan, reply_chan,
                 pendsv, spe>>

\* ... the pending status, ...
SetPend(t) ==
  /\ Goto(t, "pend", "notify")
  /\ pend_slots' = pend_slots \cup {slot[t]}
  /\ UNCHANGED <<num_slots, empty_slots, replied_slots, msg, return_val, owner,
                 is_woken, req, status, slot, sem, flag, nisr, call_chan, reply_chan,
                 pendsv, spe>>

\* ... and the notification, which is dropped when the channel is busy.
Notified(chan) == IF chan = "free" THEN "sent" ELSE chan

NotifyPeer(t) ==
  /\ Goto(t, "notify", "wait")
  /\ call_chan' = Notified(call_chan)
  /\ UNCHANGED <<num_slots, queue, req, status, slot, sem, flag, nisr, reply_chan,
                 pendsv, spe>>

\* mailbox_wait_reply(): sleep until the thread flag is set, ...
WaitReply(t) ==
  /\ Goto(t, "wait", "check")
  /\ flag[t]
  /\ flag' = [flag EXCEPT ![t] = FALSE]
  /\ UNCHANGED <<num_slots, queue, req, status, slot, sem, nisr, call_chan,
                 reply_chan, pendsv, spe>>

\* ... then look whether the reply is the reason.
WaitReplySignal(t) ==
  /\ Goto(t, "check", IF is_woken[slot[t]] THEN "rx" ELSE "wait")
  /\ is_woken' = [is_woken EXCEPT ![slot[t]] = FALSE]
  /\ UNCHANGED <<num_slots, empty_slots, pend_slots, replied_slots, msg, return_val,
                 owner, req, status, slot, sem, flag, nisr, call_chan, reply_chan,
                 pendsv, spe>>

\* Mutant: the semaphore is released here, and again at the end of the call.
MutRxReplyReleases(t) ==
  /\ Goto(t, "rx", "unlock")
  /\ owner' = [owner EXCEPT ![slot[t]] = NoThread]
  /\ is_woken' = [is_woken EXCEPT ![slot[t]] = FALSE]
  /\ empty_slots' = empty_slots \cup {slot[t]}
  /\ slot' = [slot EXCEPT ![t] = NoSlot]
  /\ sem' = sem + 1
  /\ UNCHANGED <<num_slots, pend_slots, replied_slots, msg, return_val, req, status,
                 flag, nisr, call_chan, reply_chan, pendsv, spe>>

\* mailbox_rx_client_reply(): the result is fetched, the owner cleared and the slot
\* given back.
RxReply(t) ==
  /\ Goto(t, "rx", "unlock")
  /\ owner' = [owner EXCEPT ![slot[t]] = NoThread]
  /\ is_woken' = [is_woken EXCEPT ![slot[t]] = FALSE]
  /\ empty_slots' = empty_slots \cup {slot[t]}
  /\ slot' = [slot EXCEPT ![t] = NoSlot]
  /\ UNCHANGED <<num_slots, pend_slots, replied_slots, msg, return_val, req, status,
                 sem, flag, nisr, call_chan, reply_chan, pendsv, spe>>

\* tfm_ns_mailbox_os_lock_release()
Unlock(t) ==
  /\ Goto(t, "unlock", "idle")
  /\ sem' = sem + 1
  /\ UNCHANGED <<num_slots, queue, req, status, slot, flag, nisr, call_chan,
                 reply_chan, pendsv, spe>>

ThreadStep(t) ==
  \/ ReadEmptySlots(t) \/ ClaimSlot(t) \/ (\E c \in Calls : FillMsg(t, c))
  \/ SetPend(t) \/ NotifyPeer(t) \/ WaitReply(t) \/ WaitReplySignal(t) \/ RxReply(t)
  \/ Unlock(t)

-----------------------------------------------------------------------------
(* The reply interrupt of the non-secure core.                             *)

\* cpuss_interrupts_ipc_8_IRQHandler(): the interrupt is cleared, ...
ReplyIrq ==
  /\ n_isr = "idle"
  /\ reply_chan = "sent"
  /\ reply_chan' = "taken"
  /\ n_isr' = "fetch"
  /\ UNCHANGED <<num_slots, queue, threads, flag, n_slots, call_chan, pendsv, spe>>

\* ... platform_mailbox_fetch_msg_data() releases the channel, ...
FetchReply ==
  /\ n_isr = "fetch"
  /\ reply_chan' = "free"
  /\ n_isr' = "status"
  /\ UNCHANGED <<num_slots, queue, threads, flag, n_slots, call_chan, pendsv, spe>>

\* Mutant: the replied status is read and not cleared.
MutTakeRepliedKeeps ==
  /\ n_isr = "status"
  /\ n_slots' = replied_slots
  /\ n_isr' = IF replied_slots = {} THEN "idle" ELSE "wake"
  /\ UNCHANGED <<num_slots, queue, threads, flag, call_chan, reply_chan, pendsv, spe>>

\* ... and tfm_ns_mailbox_wake_reply_owner_isr() takes the replied slots ...
TakeReplied ==
  /\ n_isr = "status"
  /\ n_slots' = replied_slots
  /\ replied_slots' = {}
  /\ n_isr' = IF replied_slots = {} THEN "idle" ELSE "wake"
  /\ UNCHANGED <<num_slots, empty_slots, pend_slots, msg, return_val, owner, is_woken,
                 threads, flag, call_chan, reply_chan, pendsv, spe>>

\* ... and wakes the owner of each.
WakeOwner ==
  LET i == Lowest(n_slots) IN
  /\ n_isr = "wake"
  /\ is_woken' = [is_woken EXCEPT ![i] = TRUE]
  /\ flag' = [flag EXCEPT ![owner[i]] = TRUE]
  /\ n_slots' = n_slots \ {i}
  /\ n_isr' = IF n_slots = {i} THEN "idle" ELSE "wake"
  /\ UNCHANGED <<num_slots, empty_slots, pend_slots, replied_slots, msg, return_val,
                 owner, threads, call_chan, reply_chan, pendsv, spe>>

ReplyIrqStep == ReplyIrq \/ FetchReply \/ TakeReplied \/ WakeOwner

-----------------------------------------------------------------------------
(* The secure core.                                                        *)

\* NvicMux7_IRQHandler(): the interrupt is cleared, ...
CallIrq ==
  /\ call_chan = "sent"
  /\ call_chan' = "taken"
  /\ UNCHANGED <<num_slots, queue, threads, flag, nisr, reply_chan, pendsv, spe>>

\* ... the channel is released and PendSV triggered.
FetchCall ==
  /\ call_chan = "taken"
  /\ call_chan' = "free"
  /\ pendsv' = TRUE
  /\ UNCHANGED <<num_slots, queue, threads, flag, nisr, reply_chan, spe>>

CallIrqStep == CallIrq \/ FetchCall

\* Handler mode code other than the interrupt runs when the interrupt does not.
SpeRuns == call_chan # "taken"

\* tfm_pendsv_do_schedule() handles requests, whether PendSV was triggered by the
\* request interrupt or by the scheduler (the latter is left out when it finds
\* nothing to do).
PendSV ==
  /\ SpeRuns
  /\ s_pc = "idle"
  /\ pendsv \/ pend_slots # {}
  /\ pendsv' = FALSE
  /\ s_pend' = pend_slots
  /\ s_todo' = pend_slots
  /\ s_pc' = IF pend_slots = {} THEN "idle" ELSE "handle"
  /\ UNCHANGED <<num_slots, queue, threads, flag, nisr, call_chan, reply_chan,
                 s_reply, spe_msg, delivered>>

\* tfm_mailbox_dispatch() answers versions and requests that the SPM refuses at
\* once and delivers the others to a partition; the SPM ignores the closing of
\* the null handle, and nobody answers it.
Outcomes(call) == IF call = "request" THEN {"answer", "deliver"} ELSE {"nothing"}

\* tfm_mailbox_handle_msg(), one slot: the message is copied and dispatched.
HandleSlot ==
  LET i == Lowest(s_todo) IN
  /\ SpeRuns
  /\ s_pc = "handle"
  /\ s_todo' = s_todo \ {i}
  /\ s_pc' = IF s_todo = {i} THEN "finish" ELSE "handle"
  /\ \E o \in Outcomes(msg[i].call) :
       /\ return_val' = IF o = "answer" THEN [return_val EXCEPT ![i] = msg[i].req]
                                        ELSE return_val
       /\ s_reply' = IF o = "answer" THEN s_reply \cup {i} ELSE s_reply
       /\ spe_msg' = [spe_msg EXCEPT ![i] = IF o = "answer" THEN NoRequest ELSE msg[i].req]
       /\ delivered' = IF o = "deliver" THEN delivered \cup {i} ELSE delivered
  /\ UNCHANGED <<num_slots, empty_slots, pend_slots, replied_slots, msg, owner,
                 is_woken, threads, flag, nisr, call_chan, reply_chan, pendsv,
                 s_pend>>

\* Mutant: the whole pending status is cleared, not what was read of it.
MutFinishHandleAll ==
  /\ SpeRuns
  /\ s_pc = "finish"
  /\ pend_slots' = {}
  /\ replied_slots' = replied_slots \cup s_reply
  /\ s_pend' = {} /\ s_reply' = {}
  /\ s_pc' = IF s_reply = {} THEN "idle" ELSE "notify"
  /\ UNCHANGED <<num_slots, empty_slots, msg, return_val, owner, is_woken, threads,
                 flag, nisr, call_chan, reply_chan, pendsv, s_todo, spe_msg,
                 delivered>>

\* Mutant: direct replies are not notified.
MutFinishHandleSilent ==
  /\ SpeRuns
  /\ s_pc = "finish"
  /\ pend_slots' = pend_slots \ s_pend
  /\ replied_slots' = replied_slots \cup s_reply
  /\ s_pend' = {} /\ s_reply' = {}
  /\ s_pc' = "idle"
  /\ UNCHANGED <<num_slots, empty_slots, msg, return_val, owner, is_woken, threads,
                 flag, nisr, call_chan, reply_chan, pendsv, s_todo, spe_msg,
                 delivered>>

\* Pending and replied status change in one critical section.
FinishHandle ==
  /\ SpeRuns
  /\ s_pc = "finish"
  /\ pend_slots' = pend_slots \ s_pend
  /\ replied_slots' = replied_slots \cup s_reply
  /\ s_pend' = {} /\ s_reply' = {}
  /\ s_pc' = IF s_reply = {} THEN "idle" ELSE "notify"
  /\ UNCHANGED <<num_slots, empty_slots, msg, return_val, owner, is_woken, threads,
                 flag, nisr, call_chan, reply_chan, pendsv, s_todo, spe_msg,
                 delivered>>

\* tfm_mailbox_hal_notify_peer(), at the end of both handlers.
NotifyNs ==
  /\ SpeRuns
  /\ s_pc = "notify"
  /\ reply_chan' = Notified(reply_chan)
  /\ s_pc' = "idle"
  /\ UNCHANGED <<num_slots, queue, threads, flag, nisr, call_chan, pendsv, s_pend,
                 s_todo, s_reply, spe_msg, delivered>>

\* Mutant: the reply goes to the first slot, as for a null message handle.
MutReplyMsgFirstSlot(i) ==
  /\ SpeRuns
  /\ s_pc = "idle"
  /\ i \in delivered
  /\ return_val' = [return_val EXCEPT ![0] = spe_msg[i]]
  /\ spe_msg' = [spe_msg EXCEPT ![i] = NoRequest]
  /\ delivered' = delivered \ {i}
  /\ s_reply' = {i}
  /\ s_pc' = "replied"
  /\ UNCHANGED <<num_slots, empty_slots, pend_slots, replied_slots, msg, owner,
                 is_woken, threads, flag, nisr, call_chan, reply_chan, pendsv, s_pend,
                 s_todo>>

\* tfm_mailbox_reply_msg(), called by psa_reply(): the result is written and the
\* slot of the SPE queue is cleaned, ...
ReplyMsg(i) ==
  /\ SpeRuns
  /\ s_pc = "idle"
  /\ i \in delivered
  /\ return_val' = [return_val EXCEPT ![i] = spe_msg[i]]
  /\ spe_msg' = [spe_msg EXCEPT ![i] = NoRequest]
  /\ delivered' = delivered \ {i}
  /\ s_reply' = {i}
  /\ s_pc' = "replied"
  /\ UNCHANGED <<num_slots, empty_slots, pend_slots, replied_slots, msg, owner,
                 is_woken, threads, flag, nisr, call_chan, reply_chan, pendsv, s_pend,
                 s_todo>>

\* ... and the replied status is set.
SetReplied ==
  /\ SpeRuns
  /\ s_pc = "replied"
  /\ replied_slots' = replied_slots \cup s_reply
  /\ s_reply' = {}
  /\ s_pc' = "notify"
  /\ UNCHANGED <<num_slots, empty_slots, pend_slots, msg, return_val, owner, is_woken,
                 threads, flag, nisr, call_chan, reply_chan, pendsv, s_pend, s_todo,
                 spe_msg, delivered>>

HandlerStep ==
  \/ pendsv /\ PendSV
  \/ HandleSlot \/ FinishHandle \/ NotifyNs \/ SetReplied

-----------------------------------------------------------------------------
Next ==
  \/ \E t \in Threads : ClientCall(t) \/ ThreadStep(t)
  \/ ReplyIrqStep
  \/ CallIrqStep
  \/ HandlerStep
  \/ PendSV
  \/ \E i \in Slots : ReplyMsg(i)

Spec == Init /\ [][Next]_vars

\* The cores run, interrupts are taken, the RTOS runs every thread that can run,
\* and the partitions reply to what they receive.
FairSpec ==
  /\ Spec
  /\ \A t \in Threads : SF_vars(ThreadStep(t))
  /\ WF_vars(ReplyIrqStep) /\ WF_vars(CallIrqStep)
  /\ SF_vars(HandlerStep)
  /\ \A i \in Slots : SF_vars(ReplyMsg(i))

-----------------------------------------------------------------------------
(* Properties.                                                             *)

TypeOK ==
  /\ num_slots \in 1 .. NumSlots
  /\ empty_slots \subseteq Slots /\ pend_slots \subseteq Slots /\ replied_slots \subseteq Slots
  /\ msg \in [Slots -> Messages]
  /\ return_val \in [Slots -> Requests \cup {NoRequest}]
  /\ owner \in [Slots -> Threads \cup {NoThread}]
  /\ is_woken \in [Slots -> BOOLEAN]
  /\ pc \in [Threads -> {"idle", "acquire", "claim", "fill", "pend", "notify", "wait",
                         "check", "rx", "unlock"}]
  /\ req \in [Threads -> Requests]
  /\ status \in [Threads -> SUBSET Slots]
  /\ slot \in [Threads -> Slots \cup {NoSlot}]
  /\ sem \in 0 .. NumSlots
  /\ flag \in [Threads -> BOOLEAN]
  /\ n_isr \in {"idle", "fetch", "status", "wake"} /\ n_slots \subseteq Slots
  /\ call_chan \in {"free", "sent", "taken"} /\ reply_chan \in {"free", "sent", "taken"}
  /\ pendsv \in BOOLEAN
  /\ s_pc \in {"idle", "handle", "finish", "notify", "replied"}
  /\ s_pend \subseteq Slots /\ s_todo \subseteq Slots /\ s_reply \subseteq Slots
  /\ spe_msg \in [Slots -> Requests \cup {NoRequest}]
  /\ delivered \subseteq Slots

Owning == {"fill", "pend", "notify", "wait", "check", "rx"}

\* A slot serves one call at a time (acquire_empty_slot()).
SlotExclusive ==
  \A t, u \in Threads :
    t # u /\ pc[t] \in Owning /\ pc[u] \in Owning => slot[t] # slot[u]

\* A thread that holds the semaphore finds an empty slot, although slots and
\* semaphore are given back in two steps and threads wait for both:
\* MAILBOX_QUEUE_FULL is never returned (mailbox_tx_client_req()).
QueueNeverFull == \A t \in Threads : pc[t] = "acquire" => empty_slots # {}

\* A call returns the answer to its own request, not to an earlier one and not to
\* one of another thread (mailbox_rx_client_reply()).
ReplyMatches == \A t \in Threads : pc[t] = "rx" => return_val[slot[t]] = req[t]

\* The reply interrupt only wakes threads that are waiting for that slot
\* (tfm_ns_mailbox_wake_reply_owner_isr() uses the owner unchecked).
WakesOwner ==
  \A i \in n_slots \cup replied_slots :
    /\ owner[i] # NoThread
    /\ slot[owner[i]] = i
    /\ pc[owner[i]] \in {"notify", "wait", "check"}

\* The stages of a request between its pending status and the moment its caller
\* sees the reply.
Woken == {i \in Slots : is_woken[i]}
Answered == s_reply \cup replied_slots \cup n_slots \cup Woken
InFlight == pend_slots \cup delivered \cup Answered
Waiting == {"notify", "wait", "check"}

\* A request that its caller waits for is in some stage: requests that arrive while
\* tfm_mailbox_handle_msg() works on a snapshot of pend_slots are not dropped.
NoLostRequest ==
  \A t \in Threads :
    pc[t] \in Waiting /\ msg[slot[t]].call = "request" => slot[t] \in InFlight

\* A notification dropped because the channel is busy is not a lost one: as long
\* as a request is pending or a reply is not taken, the other core is about to
\* look (tfm_ns_mailbox_hal_notify_peer(), tfm_mailbox_hal_notify_peer()); and the
\* owner of a slot that was woken is about to look at it.
NoLostSignal ==
  /\ \A i \in pend_slots \ s_pend :
       \/ call_chan # "free" \/ pendsv
       \/ \E t \in Threads : pc[t] = "notify" /\ slot[t] = i
  /\ \A i \in replied_slots :
       reply_chan # "free" \/ n_isr = "status" \/ s_pc = "notify"
  /\ \A i \in Woken : flag[owner[i]] \/ pc[owner[i]] = "check"

\* Every thread is between two calls again and again: its requests are answered
\* and it returns, whatever the other threads do, unless it closes the null handle.
CallReturns ==
  \A t \in Threads :
    []<>(pc[t] = "idle" \/ (pc[t] \in Waiting /\ msg[slot[t]].call = "close_null"))

\* Every call returns (psa/client.h allows psa_close() of the null handle).
EveryCallReturns == \A t \in Threads : pc[t] = "notify" ~> pc[t] = "idle"

-----------------------------------------------------------------------------
(* The inductive invariant behind the safety properties.  It needs threads *)
(* not to be preempted inside acquire_empty_slot(), or a single slot.      *)

AcquireIsSafe == ~Preempt \/ NumSlots = 1

\* The semaphore counts the calls under way.
Active == {t \in Threads : pc[t] # "idle"}
SemInv == Cardinality(Active) + sem = num_slots

\* Every slot is either empty or held by exactly one thread, and a thread that is
\* about to claim a slot claims one that is still empty.
OwnershipInv ==
  /\ \A t \in Threads : pc[t] \in Owning <=> slot[t] # NoSlot
  /\ \A t \in Threads : pc[t] \in Owning => slot[t] \notin empty_slots
  /\ \A i \in QueueSlots \ empty_slots : \E t \in Threads : slot[t] = i
  /\ SlotExclusive
  /\ \A t \in Threads : pc[t] = "claim" => status[t] # {} /\ status[t] \subseteq empty_slots
  /\ \A t, u \in Threads : pc[t] = "claim" /\ pc[u] = "claim" => t = u

\* A slot is in one stage at a time; only a slot that is being handled is pending
\* and answered or delivered as well.
StageInv ==
  /\ s_todo \subseteq s_pend /\ s_pend \subseteq pend_slots
  /\ (delivered \cup Answered) \cap pend_slots \subseteq s_pend \ s_todo
  /\ delivered \cap Answered = {}
  /\ s_reply \cap (replied_slots \cup n_slots \cup Woken) = {}
  /\ (replied_slots \cup n_slots \cup Woken) \cap pend_slots = {}
  /\ replied_slots \cap (n_slots \cup Woken) = {}
  /\ n_slots \cap Woken = {}

\* Whoever has a slot in flight waits for it, and only for it.
OwnerInv ==
  /\ \A t \in Threads : pc[t] \in Owning \ {"fill"} => owner[slot[t]] = t
  /\ \A i \in InFlight : /\ owner[i] \in Threads
                         /\ slot[owner[i]] = i
                         /\ pc[owner[i]] \in Waiting

\* What the slots contain.
ContentInv ==
  /\ \A t \in Threads : pc[t] = "pend" => msg[slot[t]].req = req[t]
  /\ \A i \in pend_slots : msg[i].req = req[owner[i]]
  /\ \A i \in delivered : spe_msg[i] = req[owner[i]]
  /\ \A i \in Answered : return_val[i] = req[owner[i]]
  /\ ReplyMatches

\* Progress of the interrupt and of the handlers.
ControlInv ==
  /\ \A i \in s_pend \ s_todo : msg[i].call = "request" => i \in delivered \cup Answered
  /\ s_pc \notin {"handle", "finish"} => s_pend = {}
  /\ s_pc = "handle" <=> s_todo # {}
  /\ s_pc \in {"idle", "notify"} => s_reply = {}
  /\ n_isr = "wake" <=> n_slots # {}
  /\ n_isr = "fetch" <=> reply_chan = "taken"

IInv == /\ TypeOK /\ SemInv /\ OwnershipInv /\ StageInv /\ OwnerInv /\ ContentInv
        /\ ControlInv /\ NoLostRequest /\ NoLostSignal

=============================================================================
