------------------------- MODULE CryptoServiceProofs -------------------------
(***************************************************************************)
(* Proofs about the crypto service of CryptoService, for any clients,      *)
(* operation objects, contexts, key entries and identifiers.               *)
(***************************************************************************)
EXTENDS CryptoService, WellFoundedInduction, TLAPS

\* A context in use has been set up in the library.
OperationsSetUp == \A h \in Contexts : ctx[h].in_use => ctx[h].work # Zeroed

\* Persistent keys, and the entries for them, have identifiers their owners chose.
PersistentOwn ==
  /\ \A k \in keys : k.id \in PersistentIds => k.id \in ChosenIds[k.owner]
  /\ \A i \in DOMAIN table : table[i].key \in PersistentIds =>
        table[i].owner \in Clients /\ table[i].key \in ChosenIds[table[i].owner]

\* The vendor's keys are imported as volatile ones.
VendorKeysVolatile == \A k \in keys : k.vendor => k.id \in VolatileIds

\* An entry with a key is in use.
EntriesInUse ==
  \A i \in DOMAIN table : table[i].in_use <=> table[i].key \in Ids

ContextRecords == [in_use : BOOLEAN, owner : Clients \cup {NoClient},
                   type : Types \cup {"none"}, work : Works]

EntryRecords == [in_use : BOOLEAN, owner : Clients \cup {NoClient}, key : Ids \cup {NoClient}]

ContextsType ==
  /\ ctx \in [Contexts -> ContextRecords]
  /\ hdl \in [Ops -> Contexts \cup {Invalid, OutOfRange}]
  /\ \A o \in Ops : OpOwner[o] \in Careful => hdl[o] # OutOfRange

KeysType ==
  /\ table \in [1 .. MaxKeyHandles -> EntryRecords]
  /\ keys \subseteq [owner : Clients, id : Ids, vendor : BOOLEAN]
  /\ mapped \in Seq(VolatileIds) /\ Len(mapped) <= NumVendorSlots

\* The inductive invariant has a part for the contexts and one for the keys.
ContextsInv == ContextsType /\ ContextsAccounted /\ OperationsSetUp

KeysInv ==
  KeysType /\ VolatileEntriesExact /\ EntriesInUse /\ PersistentOwn /\ VendorKeysVolatile

IInv == live \subseteq Ops \cup Ids /\ caller \in Clients /\ ContextsInv /\ KeysInv

-----------------------------------------------------------------------------

\* The first element of a set of indices is one of them.
LEMMA FirstIn ==
  ASSUME NEW S, S \subseteq Nat, S # {}
  PROVE  First(S) \in S
<1> DEFINE R == {ss \in Nat \X Nat : ss[1] < ss[2]}
<1>1. IsWellFoundedOn(R, Nat)
  BY NatLessThanWellFounded, Zenon DEF OpToRel
<1> HIDE DEF R
<1>2. PICK i \in S : \A j \in S : ~ (<<j, i>> \in R)
  BY <1>1, WFMin
<1>3. \A j \in S : i <= j
  <2> SUFFICES ASSUME NEW j \in S, j < i PROVE FALSE
    OBVIOUS
  <2> DEFINE p == <<j, i>>
  <2>1. p \in Nat \X Nat /\ p[1] < p[2]
    OBVIOUS
  <2> HIDE DEF p
  <2>2. p \in R
    BY <2>1 DEF R
  <2> QED
    BY <1>2, <2>2 DEF p
<1> QED
  BY <1>3 DEF First

\* Values of the library's part of a context.
LEMMA WorkFacts ==
  /\ Zeroed \in Works /\ Broken \in Works /\ Broken # Zeroed
  /\ \A n \in 0 .. MaxParts : Parts(n) \in Works /\ Parts(n) # Zeroed
  /\ \A w \in Works : w.state = "active" => w.parts \in 0 .. MaxParts /\ w = Parts(w.parts)
  /\ \A w \in Works : w # Zeroed => w.state = "active" \/ w = Broken
  /\ Parts(0) \in Works /\ Parts(0) # Zeroed
<1>1. \A n : Parts(n) # Zeroed /\ Parts(n) # Broken /\ Parts(n).state = "active" /\ Parts(n).parts = n
  BY DEF Parts, Zeroed, Broken
<1>2. Broken # Zeroed /\ Broken.state # "active" /\ Zeroed.state # "active"
  BY DEF Zeroed, Broken
<1>3. 0 \in 0 .. MaxParts
  BY CryptoAssumption
<1> QED
  BY <1>1, <1>2, <1>3 DEF Works

\* Every context that a request may be given is a context number.
LEMMA ContextNumbers ==
  /\ Contexts \subseteq Nat /\ Invalid \notin Contexts /\ OutOfRange \notin Contexts
  /\ Invalid # OutOfRange
  BY CryptoAssumption DEF Contexts, Invalid, OutOfRange

\* A free context and a free entry are what the arrays may hold.
LEMMA FreeRecords == FreeContext \in ContextRecords /\ NoEntry \in EntryRecords
  BY WorkFacts DEF FreeContext, ContextRecords, NoEntry, EntryRecords

\* The four ways in which a request changes contexts and handles.
Allocates(o) ==
  /\ hdl[o] = Invalid
  /\ \E w \in Works \ {Zeroed} : tfm_crypto_operation_alloc(o, w)

Proceeds(o) ==
  /\ tfm_crypto_operation_lookup(o)
  /\ \E w \in Works \ {Zeroed} : SetWork(o, w)

Releases(o) ==
  /\ tfm_crypto_operation_lookup(o)
  /\ ctx' = [ctx EXCEPT ![hdl[o]] = FreeContext]
  /\ hdl' = [hdl EXCEPT ![o] = Invalid]

Scribbles(o) ==
  /\ OpOwner[o] \notin Careful
  /\ hdl' \in [Ops -> Contexts \cup {Invalid, OutOfRange}]
  /\ \A q \in Ops \ {o} : hdl'[q] = hdl[q]
  /\ UNCHANGED ctx

\* All requests for an operation are of a few kinds.
LEMMA OpRequestKinds ==
  ASSUME NEW o, OpRequest(o)
  PROVE  \/ SetUp(o) \/ Forget(o) \/ Step(o) \/ Finish(o) \/ Abort(o)
         \/ \E s \in LiveOps : tfm_crypto_hash_clone(s, o)
  BY DEF OpRequest, tfm_crypto_hash_setup, tfm_crypto_hash_update, tfm_crypto_hash_finish,
     tfm_crypto_hash_verify, tfm_crypto_hash_abort, tfm_crypto_mac_sign_setup,
     tfm_crypto_mac_verify_setup, MacSetup, tfm_crypto_mac_update, tfm_crypto_mac_sign_finish,
     tfm_crypto_mac_verify_finish, tfm_crypto_mac_abort, tfm_crypto_cipher_encrypt_setup,
     tfm_crypto_cipher_decrypt_setup, CipherSetup, tfm_crypto_cipher_generate_iv,
     tfm_crypto_cipher_set_iv, tfm_crypto_cipher_update, tfm_crypto_cipher_finish,
     tfm_crypto_cipher_abort, tfm_crypto_key_derivation_setup,
     tfm_crypto_key_derivation_set_capacity, tfm_crypto_key_derivation_input_bytes,
     tfm_crypto_key_derivation_output_bytes, WithKey, tfm_crypto_key_derivation_input_key,
     tfm_crypto_key_derivation_key_agreement, tfm_crypto_key_derivation_abort

\* Every request for an operation has one of the four effects, on its object.
LEMMA OpRequestEffect ==
  ASSUME IInv, NEW o \in LiveOps, OpRequest(o)
  PROVE  /\ Allocates(o) \/ Proceeds(o) \/ Releases(o) \/ Scribbles(o)
         /\ caller' = OpOwner[o] /\ UNCHANGED <<live, table, keys, mapped>>
<1> o \in Ops
  BY DEF IInv, LiveOps
<1>10. caller' = OpOwner[o] /\ UNCHANGED <<live, table, keys, mapped>>
  BY DEF OpRequest, Serve
<1> SUFFICES Allocates(o) \/ Proceeds(o) \/ Releases(o) \/ Scribbles(o)
  BY <1>10
<1>1. \/ SetUp(o) \/ Forget(o) \/ Step(o) \/ Finish(o) \/ Abort(o)
      \/ \E s \in LiveOps : tfm_crypto_hash_clone(s, o)
  BY OpRequestKinds
<1>2. CASE SetUp(o)
  BY <1>2, WorkFacts DEF SetUp, Allocates
<1>3. CASE Forget(o)
  <2>1. OpOwner[o] \notin Careful /\ hdl' = [hdl EXCEPT ![o] = Invalid] /\ UNCHANGED ctx
    BY <1>3 DEF Forget, Willing
  <2> QED
    BY <2>1 DEF IInv, ContextsInv, ContextsType, Scribbles
<1>4. ASSUME tfm_crypto_operation_lookup(o)
      PROVE  Work(o) \in Works
  BY <1>4 DEF IInv, ContextsInv, ContextsType, ContextRecords, tfm_crypto_operation_lookup, Work
<1>5. CASE Step(o)
  <2>1. CASE Work(o).parts < MaxParts /\ SetWork(o, Parts(Work(o).parts + 1))
    <3>1. Work(o).parts + 1 \in 0 .. MaxParts
      BY <1>4, <1>5, <2>1, WorkFacts, CryptoAssumption DEF Step
    <3> QED
      BY <1>5, <2>1, <3>1, WorkFacts DEF Step, Proceeds
  <2>2. CASE SetWork(o, Broken)
    BY <1>5, <2>2, WorkFacts DEF Step, Proceeds
  <2> QED
    BY <1>5, <2>1, <2>2 DEF Step
<1>6. ASSUME tfm_crypto_operation_lookup(o), tfm_crypto_operation_release(o)
      PROVE  Releases(o)
  BY <1>6 DEF tfm_crypto_operation_lookup, tfm_crypto_operation_release, Releases
<1>7. CASE Finish(o)
  BY <1>6, <1>7, WorkFacts DEF Finish, Proceeds
<1>8. CASE Abort(o)
  BY <1>6, <1>8 DEF Abort
<1>9. ASSUME NEW s \in LiveOps, tfm_crypto_hash_clone(s, o)
      PROVE  Allocates(o)
  <2>1. Work(s) \in Works \ {Zeroed}
    BY <1>9 DEF IInv, ContextsInv, ContextsType, ContextRecords, OperationsSetUp,
       tfm_crypto_hash_clone, tfm_crypto_operation_lookup, Work
  <2> QED
    BY <1>9, <2>1, WorkFacts DEF tfm_crypto_hash_clone, Allocates
<1> QED
  BY <1>1, <1>2, <1>3, <1>5, <1>7, <1>8, <1>9


\* No other object of a careful client leads to the context of object o.
LEMMA HandleExclusive ==
  ASSUME ContextsInv, NEW o \in Ops, tfm_crypto_operation_lookup(o),
         NEW q \in Ops \ {o}, OpOwner[q] \in Careful
  PROVE  hdl[q] # hdl[o]
<1> DEFINE h == hdl[o]
<1>1. h \in Contexts /\ ctx[h].owner = OpOwner[o]
  BY DEF tfm_crypto_operation_lookup
<1> SUFFICES ASSUME hdl[q] = h PROVE FALSE
  OBVIOUS
<1> HIDE DEF h
<1>2. ctx[h].owner = OpOwner[q]
  BY <1>1, ContextNumbers DEF ContextsInv, ContextsAccounted, tfm_crypto_operation_lookup
<1>3. PICK p \in Ops : {x \in Ops : hdl[x] = h /\ OpOwner[x] = ctx[h].owner} = {p}
  BY <1>1, <1>2 DEF ContextsInv, ContextsAccounted
<1> QED
  BY <1>1, <1>2, <1>3 DEF h

\* A context is taken: it was free, so no careful client has a handle to it.
LEMMA AllocatesContexts ==
  ASSUME ContextsInv, NEW o \in Ops, Allocates(o)
  PROVE  /\ ContextsInv'
         /\ \E h \in Contexts : /\ ~ctx[h].in_use /\ ctx'[h].work # Zeroed 
                                /\ \A g \in Contexts \ {h} : ctx'[g] = ctx[g]
                                /\ hdl' = [hdl EXCEPT ![o] = h]
<1> DEFINE h == First(FreeContexts)
<1>1. PICK w \in Works \ {Zeroed} : tfm_crypto_operation_alloc(o, w)
  BY DEF Allocates
<1>2. h \in Contexts /\ ~ctx[h].in_use
  BY <1>1, ContextNumbers, FirstIn DEF tfm_crypto_operation_alloc, FreeContexts
<1> DEFINE r == [in_use |-> TRUE, owner |-> OpOwner[o], type |-> OpType[o], work |-> w]
<1>3. ctx' = [ctx EXCEPT ![h] = r] /\ hdl' = [hdl EXCEPT ![o] = h] /\ hdl[o] = Invalid
  BY <1>1 DEF tfm_crypto_operation_alloc, Allocates
<1>4. /\ r \in ContextRecords /\ r.in_use /\ r.owner = OpOwner[o] /\ r.type = OpType[o]
      /\ r.work # Zeroed
  BY CryptoAssumption DEF ContextRecords
<1> HIDE DEF h, r
<1>5. ContextsType'
  BY <1>2, <1>3, <1>4, ContextNumbers DEF ContextsInv, ContextsType
<1>6. /\ ctx'[h] = r /\ \A g \in Contexts \ {h} : ctx'[g] = ctx[g]
      /\ hdl'[o] = h /\ \A q \in Ops \ {o} : hdl'[q] = hdl[q]
  BY <1>2, <1>3 DEF ContextsInv, ContextsType
<1>7. OperationsSetUp'
  BY <1>4, <1>6 DEF ContextsInv, OperationsSetUp
<1>8. \A q \in Ops : OpOwner[q] \in Careful => hdl[q] # h
  BY <1>2, ContextNumbers DEF ContextsInv, ContextsAccounted, tfm_crypto_operation_lookup
<1>9. ContextsAccounted'
  <2>1. \A g \in Contexts : ~ctx'[g].in_use => ctx'[g] = FreeContext
    BY <1>4, <1>6 DEF ContextsInv, ContextsAccounted
  <2>2. ASSUME NEW g \in Contexts, ctx'[g].owner \in Careful
        PROVE  \E p \in Ops : {q \in Ops : hdl'[q] = g /\ OpOwner[q] = ctx'[g].owner} = {p}
                             /\ OpType[p] = ctx'[g].type
    <3>1. CASE g = h
      <4>1. {q \in Ops : hdl'[q] = g /\ OpOwner[q] = ctx'[g].owner} = {o}
        BY <1>4, <1>6, <1>8, <2>2, <3>1
      <4> QED
        BY <1>4, <1>6, <3>1, <4>1
    <3>2. CASE g # h
      <4>1. {q \in Ops : hdl'[q] = g /\ OpOwner[q] = ctx'[g].owner}
              = {q \in Ops : hdl[q] = g /\ OpOwner[q] = ctx[g].owner}
        BY <1>3, <1>6, <3>2, ContextNumbers
      <4> QED
        BY <1>6, <2>2, <3>2, <4>1 DEF ContextsInv, ContextsAccounted
    <3> QED
      BY <3>1, <3>2
  <2>3. ASSUME NEW q \in Ops, OpOwner[q] \in Careful, hdl'[q] # Invalid
        PROVE  tfm_crypto_operation_lookup(q)'
    <3>1. CASE q = o
      BY <1>2, <1>4, <1>6, <3>1 DEF tfm_crypto_operation_lookup
    <3>2. CASE q # o
      BY <1>2, <1>6, <1>8, <2>3, <3>2 DEF ContextsInv, ContextsAccounted, tfm_crypto_operation_lookup
    <3> QED
      BY <3>1, <3>2
  <2> QED
    BY <2>1, <2>2, <2>3 DEF ContextsAccounted
<1> QED
  BY <1>2, <1>3, <1>4, <1>5, <1>6, <1>7, <1>9 DEF ContextsInv

\* The library works in a context: whose it is does not change.
LEMMA ProceedsContexts ==
  ASSUME ContextsInv, NEW o \in Ops, Proceeds(o)
  PROVE  ContextsInv'
<1>1. PICK w \in Works \ {Zeroed} : SetWork(o, w)
  BY DEF Proceeds
<1> DEFINE h == hdl[o]
<1>2. h \in Contexts /\ ctx[h].in_use
  BY DEF Proceeds, tfm_crypto_operation_lookup
<1>3. hdl' = hdl /\ ctx' = [ctx EXCEPT ![h] = [ctx[h] EXCEPT !.work = w]]
  BY <1>1 DEF SetWork, ContextsInv, ContextsType
<1> DEFINE r == [ctx[h] EXCEPT !.work = w]
<1>4. /\ r \in ContextRecords /\ r.in_use /\ r.owner = ctx[h].owner /\ r.type = ctx[h].type
      /\ r.work # Zeroed
  BY <1>2 DEF ContextsInv, ContextsType, ContextRecords
<1> HIDE DEF h, r
<1>5. ctx'[h] = r /\ \A g \in Contexts \ {h} : ctx'[g] = ctx[g]
  BY <1>2, <1>3 DEF ContextsInv, ContextsType, r
<1>6. ContextsType'
  BY <1>2, <1>3, <1>4 DEF ContextsInv, ContextsType, r
<1>7. OperationsSetUp'
  BY <1>4, <1>5 DEF ContextsInv, OperationsSetUp
<1>8. \A g \in Contexts : /\ ctx'[g].in_use = ctx[g].in_use /\ ctx'[g].owner = ctx[g].owner
                          /\ ctx'[g].type = ctx[g].type
                          /\ ~ctx[g].in_use => ctx'[g] = ctx[g]
  BY <1>2, <1>4, <1>5 DEF ContextsInv, ContextsType, ContextRecords
<1>9. ContextsAccounted'
  BY <1>3, <1>8 DEF ContextsInv, ContextsAccounted, tfm_crypto_operation_lookup
<1> QED
  BY <1>6, <1>7, <1>9 DEF ContextsInv

\* A context is released: no other careful object had a handle to it.
LEMMA ReleasesContexts ==
  ASSUME ContextsInv, NEW o \in Ops, Releases(o)
  PROVE  ContextsInv'
<1> DEFINE h == hdl[o]
<1>1. h \in Contexts /\ ctx[h].in_use /\ ctx[h].owner = OpOwner[o]
  BY DEF Releases, tfm_crypto_operation_lookup
<1>2. ctx' = [ctx EXCEPT ![h] = FreeContext] /\ hdl' = [hdl EXCEPT ![o] = Invalid]
  BY DEF Releases
<1> HIDE DEF h
<1>3. /\ ctx'[h] = FreeContext /\ \A g \in Contexts \ {h} : ctx'[g] = ctx[g]
      /\ hdl'[o] = Invalid /\ \A q \in Ops \ {o} : hdl'[q] = hdl[q]
  BY <1>1, <1>2 DEF ContextsInv, ContextsType
<1>4. ContextsType'
  BY <1>1, <1>2, FreeRecords, ContextNumbers DEF ContextsInv, ContextsType
<1>5. ~FreeContext.in_use /\ FreeContext.owner \notin Careful
  BY CryptoAssumption DEF FreeContext
<1>6. OperationsSetUp'
  BY <1>3, <1>5 DEF ContextsInv, OperationsSetUp
<1>7. \A q \in Ops \ {o} : OpOwner[q] \in Careful => hdl[q] # h
  BY HandleExclusive DEF Releases, h
<1>8. ContextsAccounted'
  <2>1. \A g \in Contexts : ~ctx'[g].in_use => ctx'[g] = FreeContext
    BY <1>3 DEF ContextsInv, ContextsAccounted
  <2>2. ASSUME NEW g \in Contexts, ctx'[g].owner \in Careful
        PROVE  \E p \in Ops : {q \in Ops : hdl'[q] = g /\ OpOwner[q] = ctx'[g].owner} = {p}
                             /\ OpType[p] = ctx'[g].type
    <3>1. g # h
      BY <1>3, <1>5, <2>2
    <3>2. {q \in Ops : hdl'[q] = g /\ OpOwner[q] = ctx'[g].owner}
            = {q \in Ops : hdl[q] = g /\ OpOwner[q] = ctx[g].owner}
      BY <1>3, <3>1, ContextNumbers DEF h
    <3> QED
      BY <1>3, <2>2, <3>1, <3>2 DEF ContextsInv, ContextsAccounted
  <2>3. ASSUME NEW q \in Ops, OpOwner[q] \in Careful, hdl'[q] # Invalid
        PROVE  tfm_crypto_operation_lookup(q)'
    BY <1>3, <1>7, <2>3 DEF ContextsInv, ContextsAccounted, tfm_crypto_operation_lookup
  <2> QED
    BY <2>1, <2>2, <2>3 DEF ContextsAccounted
<1> QED
  BY <1>4, <1>6, <1>8 DEF ContextsInv

\* A careless client's handles are not part of the account.
LEMMA ScribblesContexts ==
  ASSUME ContextsInv, NEW o \in Ops, Scribbles(o)
  PROVE  ContextsInv'
<1>1. ctx' = ctx /\ \A q \in Ops : OpOwner[q] \in Careful => hdl'[q] = hdl[q]
  BY DEF Scribbles
<1>2. ContextsType' /\ OperationsSetUp'
  BY <1>1 DEF ContextsInv, ContextsType, OperationsSetUp, Scribbles
<1>3. \A h \in Contexts : ctx[h].owner \in Careful =>
        {q \in Ops : hdl'[q] = h /\ OpOwner[q] = ctx[h].owner}
          = {q \in Ops : hdl[q] = h /\ OpOwner[q] = ctx[h].owner}
  BY <1>1
<1>4. ContextsAccounted'
  BY <1>1, <1>3 DEF ContextsInv, ContextsAccounted, tfm_crypto_operation_lookup
<1> QED
  BY <1>2, <1>4 DEF ContextsInv

-----------------------------------------------------------------------------
(* Keys.                                                                   *)

\* The two ways in which a request changes keys and entries: client c gets an
\* entry for id, or loses one.
Enters(c, id) ==
  /\ FreeEntries # {}
  /\ tfm_crypto_set_key_storage(c, id)
  /\ \/ /\ id \in VolatileIds
        /\ \A k \in keys : k.id # id
        /\ \E v \in BOOLEAN : keys' = keys \cup {[owner |-> c, id |-> id, vendor |-> v]}
        /\ \/ mapped' = mapped
           \/ mapped' = Append(mapped, id) /\ Len(mapped) < NumVendorSlots
     \/ /\ id \in ChosenIds[c]
        /\ keys' = keys \/ keys' = keys \cup {[owner |-> c, id |-> id, vendor |-> FALSE]}
        /\ mapped' = mapped

Leaves(c, id) ==
  /\ tfm_crypto_check_handle_owner(c, id)
  /\ ClearEntry(id)
  /\ keys' \subseteq keys /\ \A k \in keys : (k.owner = c /\ k.id = id) \/ k \in keys'
  /\ id \in VolatileIds => keys' = keys \ Owned(c, id) \/ keys' = keys
  /\ mapped' = mapped

\* Facts about identifiers.
LEMMA IdFacts ==
  /\ \A c \in Clients : ChosenIds[c] \subseteq PersistentIds
  /\ VolatileIds \subseteq Ids /\ PersistentIds \subseteq Ids
  /\ \A id \in Ids : (id \in VolatileIds) <=> (id \notin PersistentIds)
  /\ NoClient \notin Ids /\ NoClient \notin Clients
  BY CryptoAssumption DEF Ids

\* A key that is made gets an entry.
LEMMA CreateKeyEffect ==
  ASSUME NEW c \in Clients, CreateKey(c), mapped' = mapped
  PROVE  \E id \in Ids : Enters(c, id)
  BY IdFacts DEF CreateKey, NewKey, Enters

\* Every request for a key enters or clears one entry.
LEMMA KeyRequestEffect ==
  ASSUME KeysInv, NEW c \in Clients, KeyRequest(c)
  PROVE  /\ \E id \in Ids : Enters(c, id) \/ Leaves(c, id)
         /\ caller' = c /\ UNCHANGED <<live, ctx, hdl>>
<1>1. caller' = c /\ UNCHANGED <<live, ctx, hdl>>
  BY DEF KeyRequest, Serve
<1> SUFFICES \E id \in Ids : Enters(c, id) \/ Leaves(c, id)
  BY <1>1
<1>2. CASE tfm_crypto_import_key(c) \/ tfm_crypto_generate_key(c)
  BY <1>2, CreateKeyEffect DEF tfm_crypto_import_key, tfm_crypto_generate_key
<1>3. CASE tfm_crypto_vendor_key_open_key(c)
  BY <1>3, IdFacts DEF tfm_crypto_vendor_key_open_key, NewKey, Enters
<1>4. ASSUME NEW id \in Ids, tfm_crypto_copy_key(c, id)
      PROVE  \E x \in Ids : Enters(c, x)
  BY <1>4, CreateKeyEffect DEF tfm_crypto_copy_key
<1>5. ASSUME NEW id \in Ids, tfm_crypto_open_key(c, id)
      PROVE  Enters(c, id)
  <2>1. id \in ChosenIds[c]
    BY <1>5 DEF tfm_crypto_open_key, Owned, KeysInv, PersistentOwn
  <2> QED
    BY <1>5, <2>1 DEF tfm_crypto_open_key, Enters
<1>6. ASSUME NEW id \in Ids, tfm_crypto_close_key(c, id)
      PROVE  Leaves(c, id)
  BY <1>6 DEF tfm_crypto_close_key, Usable, Owned, Leaves
<1>7. ASSUME NEW id \in Ids, tfm_crypto_destroy_key(c, id)
      PROVE  Leaves(c, id)
  BY <1>7 DEF tfm_crypto_destroy_key, Usable, Owned, Leaves
<1>8. ASSUME NEW id \in Ids, tfm_crypto_purge_key(c, id)
      PROVE  Leaves(c, id)
  BY <1>8 DEF tfm_crypto_purge_key, Usable, Leaves
<1> QED
  BY <1>2, <1>3, <1>4, <1>5, <1>6, <1>7, <1>8 DEF KeyRequest

\* A new entry replaces a free one.
LEMMA EntersEntry ==
  ASSUME KeysInv, NEW c \in Clients, NEW id \in Ids, Enters(c, id)
  PROVE  \E i \in DOMAIN table :
           /\ ~table[i].in_use /\ table[i].key \notin Ids
           /\ table' \in [1 .. MaxKeyHandles -> EntryRecords]
           /\ table'[i].in_use /\ table'[i].owner = c /\ table'[i].key = id
           /\ \A j \in DOMAIN table \ {i} : table'[j] = table[j]
<1> DEFINE i == First(FreeEntries)
           e == [in_use |-> TRUE, owner |-> c, key |-> id]
<1>1. DOMAIN table = 1 .. MaxKeyHandles /\ DOMAIN table \subseteq Nat
  BY CryptoAssumption DEF KeysInv, KeysType
<1>2. i \in FreeEntries
  BY <1>1, FirstIn DEF Enters, FreeEntries
<1>3. table' = [table EXCEPT ![i] = e]
  BY DEF Enters, tfm_crypto_set_key_storage
<1>4. e \in EntryRecords /\ e.in_use /\ e.owner = c /\ e.key = id
  BY DEF EntryRecords
<1> HIDE DEF i, e
<1>5. i \in DOMAIN table /\ ~table[i].in_use /\ table[i].key \notin Ids
  BY <1>2 DEF FreeEntries, KeysInv, EntriesInUse
<1> QED
  BY <1>1, <1>3, <1>4, <1>5 DEF KeysInv, KeysType

\* The entry that is cleared is one of the client's.
LEMMA LeavesEntry ==
  ASSUME KeysInv, NEW c \in Clients, NEW id \in Ids, Leaves(c, id)
  PROVE  \E i \in DOMAIN table :
           /\ table[i].in_use /\ table[i].owner = c /\ table[i].key = id
           /\ table' \in [1 .. MaxKeyHandles -> EntryRecords]
           /\ table'[i] = NoEntry
           /\ \A j \in DOMAIN table \ {i} : table'[j] = table[j]
<1> DEFINE i == First(Entries(id))
<1>1. DOMAIN table = 1 .. MaxKeyHandles /\ DOMAIN table \subseteq Nat
  BY CryptoAssumption DEF KeysInv, KeysType
<1>2. i \in Entries(id)
  BY <1>1, FirstIn DEF Leaves, tfm_crypto_check_handle_owner, Entries
<1>3. table' = [table EXCEPT ![i] = NoEntry] /\ table[i].owner = c
  BY DEF Leaves, ClearEntry, tfm_crypto_check_handle_owner
<1> HIDE DEF i
<1> QED
  BY <1>1, <1>2, <1>3, FreeRecords DEF KeysInv, KeysType, Entries

\* A new entry keeps the table exact: nobody has an entry for a fresh volatile identifier.
LEMMA EntersKeys ==
  ASSUME KeysInv, NEW c \in Clients, NEW id \in Ids, Enters(c, id)
  PROVE  KeysInv'
<1>1. PICK i \in DOMAIN table :
        /\ ~table[i].in_use /\ table[i].key \notin Ids
        /\ table' \in [1 .. MaxKeyHandles -> EntryRecords]
        /\ table'[i].in_use /\ table'[i].owner = c /\ table'[i].key = id
        /\ \A j \in DOMAIN table \ {i} : table'[j] = table[j]
  BY EntersEntry
<1>2. DOMAIN table' = DOMAIN table
  BY <1>1 DEF KeysInv, KeysType
<1>3. KeysType'
  <2>1. keys' \subseteq [owner : Clients, id : Ids, vendor : BOOLEAN]
    <3>1. \A v \in BOOLEAN : [owner |-> c, id |-> id, vendor |-> v]
                              \in [owner : Clients, id : Ids, vendor : BOOLEAN]
      OBVIOUS
    <3>2. keys' = keys \/ \E v \in BOOLEAN : keys' = keys \cup {[owner |-> c, id |-> id, vendor |-> v]}
      BY DEF Enters
    <3> QED
      BY <3>1, <3>2 DEF KeysInv, KeysType
  <2>2. mapped' \in Seq(VolatileIds) /\ Len(mapped') <= NumVendorSlots
    <3>1. CASE mapped' = mapped
      BY <3>1 DEF KeysInv, KeysType
    <3>2. CASE id \in VolatileIds /\ mapped' = Append(mapped, id) /\ Len(mapped) < NumVendorSlots
      <4>1. mapped' \in Seq(VolatileIds) /\ Len(mapped') = Len(mapped) + 1 /\ Len(mapped) \in Nat
        BY <3>2 DEF KeysInv, KeysType
      <4> QED
        BY <3>2, <4>1, CryptoAssumption
    <3> QED
      BY <3>1, <3>2 DEF Enters
  <2> QED
    BY <1>1, <2>1, <2>2 DEF KeysType
<1>4. keys \subseteq keys'
  BY DEF Enters
<1>5. VolatileEntriesExact'
  <2> SUFFICES ASSUME NEW j \in DOMAIN table, table'[j].key \in VolatileIds
               PROVE  /\ Entries(table[j].key)' = {j}
                      /\ Owned(table[j].owner, table[j].key)' # {}
    BY <1>2 DEF VolatileEntriesExact
  <2>1. CASE j = i
    <3>1. id \in VolatileIds /\ \A k \in keys : k.id # id
      BY <1>1, <2>1, IdFacts DEF Enters
    <3>2. \A g \in DOMAIN table : table[g].key # id
      BY <3>1 DEF KeysInv, VolatileEntriesExact, Owned
    <3>3. PICK v \in BOOLEAN : keys' = keys \cup {[owner |-> c, id |-> id, vendor |-> v]}
      BY <3>1, IdFacts DEF Enters
    <3>4. Owned(c, id)' # {}
      <4> DEFINE k == [owner |-> c, id |-> id, vendor |-> v]
      <4>1. k \in keys' /\ k.owner = c /\ k.id = id
        BY <3>3
      <4> QED
        BY <4>1 DEF Owned
    <3>5. Entries(id)' = {i}
      BY <1>1, <1>2, <3>2 DEF Entries
    <3> QED
      BY <1>1, <2>1, <3>4, <3>5
  <2>2. CASE j # i
    <3>1. table'[j] = table[j] /\ Entries(table[j].key) = {j} /\ Owned(table[j].owner, table[j].key) # {}
      BY <1>1, <2>2 DEF KeysInv, VolatileEntriesExact
    <3>2. table[j].key # id
      <4> SUFFICES ASSUME table[j].key = id PROVE FALSE
        OBVIOUS
      <4>1. \A k \in keys : k.id # id
        BY <3>1, IdFacts DEF Enters
      <4> QED
        BY <3>1, <4>1 DEF Owned
    <3>3. Entries(table[j].key)' = {j}
      BY <1>1, <1>2, <2>2, <3>1, <3>2 DEF Entries
    <3>4. Owned(table[j].owner, table[j].key)' # {}
      BY <1>4, <3>1 DEF Owned
    <3> QED
      BY <3>1, <3>3, <3>4
  <2> QED
    BY <2>1, <2>2
<1>6. EntriesInUse'
  BY <1>1, <1>2 DEF KeysInv, EntriesInUse
<1>7. PersistentOwn'
  <2>1. id \in PersistentIds => id \in ChosenIds[c]
    BY IdFacts DEF Enters
  <2>2. \A k \in keys' : k \in keys \/ (k.owner = c /\ k.id = id)
    BY DEF Enters
  <2> QED
    BY <1>1, <1>2, <2>1, <2>2 DEF KeysInv, PersistentOwn
<1>8. VendorKeysVolatile'
  <2>1. id \in VolatileIds \/ keys' = keys
          \/ keys' = keys \cup {[owner |-> c, id |-> id, vendor |-> FALSE]}
    BY DEF Enters
  <2>2. \A k \in keys' : k \in keys \/ k.id = id
    BY DEF Enters
  <2> QED
    BY <2>1, <2>2 DEF KeysInv, VendorKeysVolatile
<1> QED
  BY <1>3, <1>5, <1>6, <1>7, <1>8 DEF KeysInv

\* A cleared entry keeps the table exact: it was the only one for a volatile identifier.
LEMMA LeavesKeys ==
  ASSUME KeysInv, NEW c \in Clients, NEW id \in Ids, Leaves(c, id)
  PROVE  KeysInv'
<1>1. PICK i \in DOMAIN table :
        /\ table[i].in_use /\ table[i].owner = c /\ table[i].key = id
        /\ table' \in [1 .. MaxKeyHandles -> EntryRecords]
        /\ table'[i] = NoEntry
        /\ \A j \in DOMAIN table \ {i} : table'[j] = table[j]
  BY LeavesEntry
<1>2. DOMAIN table' = DOMAIN table
  BY <1>1 DEF KeysInv, KeysType
<1>3. KeysType'
  BY <1>1 DEF KeysInv, KeysType, Leaves
<1>4. ~NoEntry.in_use /\ NoEntry.key \notin Ids
  BY IdFacts DEF NoEntry
<1>5. VolatileEntriesExact'
  <2> SUFFICES ASSUME NEW j \in DOMAIN table, table'[j].key \in VolatileIds
               PROVE  /\ Entries(table[j].key)' = {j}
                      /\ Owned(table[j].owner, table[j].key)' # {}
    BY <1>2 DEF VolatileEntriesExact
  <2>1. j # i
    BY <1>1, <1>4, IdFacts
  <2>2. table'[j] = table[j] /\ Entries(table[j].key) = {j} /\ Owned(table[j].owner, table[j].key) # {}
    BY <1>1, <2>1 DEF KeysInv, VolatileEntriesExact
  <2>3. table[j].key # id
    BY <1>1, <2>1, <2>2 DEF Entries
  <2>4. Entries(table[j].key)' = {j}
    BY <1>1, <1>2, <1>4, <2>1, <2>2, <2>3 DEF Entries
  <2>5. Owned(table[j].owner, table[j].key)' # {}
    BY <2>2, <2>3 DEF Owned, Leaves
  <2> QED
    BY <2>2, <2>4, <2>5
<1>6. EntriesInUse'
  BY <1>1, <1>2, <1>4 DEF KeysInv, EntriesInUse
<1>7. PersistentOwn'
  BY <1>1, <1>2, <1>4, IdFacts DEF KeysInv, PersistentOwn, Leaves
<1>8. VendorKeysVolatile'
  BY DEF KeysInv, VendorKeysVolatile, Leaves
<1> QED
  BY <1>3, <1>5, <1>6, <1>7, <1>8 DEF KeysInv

-----------------------------------------------------------------------------
(* The invariant.                                                          *)

\* The state after a start, where nothing is in use, ...
JustStarted ==
  /\ ctx = Started.ctx /\ hdl = Started.hdl /\ table = Started.table /\ mapped = <<>>
  /\ keys \subseteq [owner : Clients, id : PersistentIds, vendor : BOOLEAN]
  /\ \A k \in keys : k.id \in ChosenIds[k.owner] /\ ~k.vendor

\* ... satisfies the invariant.
LEMMA StartedInv == JustStarted => ContextsInv /\ KeysInv
<1> SUFFICES ASSUME JustStarted PROVE ContextsInv /\ KeysInv
  OBVIOUS
<1> USE DEF JustStarted
<1>1. /\ ctx = [h \in Contexts |-> FreeContext] /\ hdl = [o \in Ops |-> Invalid]
      /\ table = [i \in 1 .. MaxKeyHandles |-> NoEntry]
  BY DEF Started
<1>2. /\ ~FreeContext.in_use /\ FreeContext.owner \notin Careful
      /\ ~NoEntry.in_use /\ NoEntry.key \notin Ids
  BY CryptoAssumption DEF FreeContext, NoEntry
<1>3. ContextsType
  BY <1>1, FreeRecords, ContextNumbers DEF ContextsType
<1>4. ContextsAccounted /\ OperationsSetUp
  BY <1>1, <1>2 DEF ContextsAccounted, OperationsSetUp
<1>5. KeysType
  <2>1. mapped \in Seq(VolatileIds) /\ Len(mapped) = 0
    OBVIOUS
  <2>2. [owner : Clients, id : PersistentIds, vendor : BOOLEAN]
          \subseteq [owner : Clients, id : Ids, vendor : BOOLEAN]
    BY DEF Ids
  <2> QED
    BY <1>1, <2>1, <2>2, FreeRecords, CryptoAssumption DEF KeysType
<1>6. VolatileEntriesExact /\ EntriesInUse /\ PersistentOwn /\ VendorKeysVolatile
  BY <1>1, <1>2, IdFacts DEF VolatileEntriesExact, EntriesInUse, PersistentOwn, VendorKeysVolatile
<1> QED
  BY <1>3, <1>4, <1>5, <1>6 DEF ContextsInv, KeysInv

\* Requests that change operation contexts.
LEMMA OpRequestInv ==
  ASSUME IInv, NEW o \in LiveOps, OpRequest(o)
  PROVE  IInv'
<1> o \in Ops
  BY DEF IInv, LiveOps
<1>1. /\ Allocates(o) \/ Proceeds(o) \/ Releases(o) \/ Scribbles(o)
      /\ caller' = OpOwner[o] /\ UNCHANGED <<live, table, keys, mapped>>
  BY OpRequestEffect
<1>2. ContextsInv'
  BY <1>1, AllocatesContexts, ProceedsContexts, ReleasesContexts, ScribblesContexts DEF IInv
<1>3. KeysInv'
  BY <1>1 DEF IInv, KeysInv, KeysType, VolatileEntriesExact, EntriesInUse, PersistentOwn,
     VendorKeysVolatile, Entries, Owned
<1> QED
  BY <1>1, <1>2, <1>3, CryptoAssumption DEF IInv

\* Contexts do not change.
LEMMA ContextsSame ==
  ASSUME ContextsInv, UNCHANGED <<ctx, hdl>>
  PROVE  ContextsInv'
  BY DEF ContextsInv, ContextsType, ContextsAccounted, OperationsSetUp,
     tfm_crypto_operation_lookup

\* Requests that change keys.
LEMMA KeyRequestInv ==
  ASSUME IInv, NEW c \in Clients, KeyRequest(c)
  PROVE  IInv'
<1>1. PICK id \in Ids : Enters(c, id) \/ Leaves(c, id)
  BY KeyRequestEffect DEF IInv
<1>2. caller' = c /\ UNCHANGED <<live, ctx, hdl>>
  BY KeyRequestEffect DEF IInv
<1> QED
  BY <1>1, <1>2, ContextsSame, EntersKeys, LeavesKeys DEF IInv

\* A key derived from an operation.
LEMMA OutputKeyInv ==
  ASSUME IInv, NEW o \in LiveOps, tfm_crypto_key_derivation_output_key(o)
  PROVE  IInv'
<1> o \in Ops
  BY DEF IInv, LiveOps
<1>1. /\ CreateKey(OpOwner[o]) /\ mapped' = mapped /\ caller' = OpOwner[o]
      /\ UNCHANGED <<live, ctx, hdl>> /\ OpOwner[o] \in Clients
  BY CryptoAssumption DEF tfm_crypto_key_derivation_output_key, Serve
<1>2. PICK id \in Ids : Enters(OpOwner[o], id)
  BY <1>1, CreateKeyEffect
<1> QED
  BY <1>1, <1>2, ContextsSame, EntersKeys DEF IInv

\* A careless client writes into its own object.
LEMMA ScribbleInv ==
  ASSUME IInv, NEW o \in LiveOps, Scribble(o)
  PROVE  IInv'
<1> o \in Ops
  BY DEF IInv, LiveOps
<1>1. Scribbles(o)
  BY DEF IInv, ContextsInv, ContextsType, Scribble, Scribbles
<1>2. KeysInv'
  BY DEF Scribble, IInv, KeysInv, KeysType, VolatileEntriesExact, EntriesInUse, PersistentOwn,
     VendorKeysVolatile, Entries, Owned
<1> QED
  BY <1>1, <1>2, ScribblesContexts DEF IInv, Scribble

\* The device restarts.
LEMMA RestartInv ==
  ASSUME IInv, Restart
  PROVE  IInv'
<1>1. /\ (ctx = Started.ctx)' /\ (hdl = Started.hdl)' /\ (table = Started.table)'
      /\ mapped' = <<>> /\ keys' = {k \in keys : k.id \in PersistentIds}
      /\ caller' \in Clients /\ live' = live
  BY DEF Restart, Serve, Started
<1>2. /\ (keys \subseteq [owner : Clients, id : PersistentIds, vendor : BOOLEAN])'
      /\ (\A k \in keys : k.id \in ChosenIds[k.owner] /\ ~k.vendor)'
  BY <1>1, IdFacts DEF IInv, KeysInv, KeysType, PersistentOwn, VendorKeysVolatile
<1>3. JustStarted' => ContextsInv' /\ KeysInv'
  BY StartedInv, PTL
<1> QED
  BY <1>1, <1>2, <1>3 DEF IInv, JustStarted

\* The initial states.
LEMMA InitInv == Init => IInv
<1> SUFFICES ASSUME Init PROVE IInv
  OBVIOUS
<1> QED
  BY StartedInv, CryptoAssumption DEF Init, IInv, JustStarted

\* Every step preserves the invariant.
LEMMA NextInv == IInv /\ [Next]_vars => IInv'
<1> SUFFICES ASSUME IInv, [Next]_vars PROVE IInv'
  OBVIOUS
<1>1. CASE UNCHANGED vars
  BY <1>1, ContextsSame DEF vars, IInv, KeysInv, KeysType, VolatileEntriesExact, EntriesInUse,
     PersistentOwn, VendorKeysVolatile, Entries, Owned
<1> QED
  BY <1>1, OpRequestInv, OutputKeyInv, ScribbleInv, KeyRequestInv, RestartInv DEF Next

\* The inductive invariant of the service holds.
THEOREM InvariantHolds == Spec => []IInv
  BY InitInv, NextInv, PTL DEF Spec

\* Types, and no handle out of range reaches a careful client.
THEOREM TypeCorrect == Spec => []TypeOK
<1>1. IInv => TypeOK
  BY DEF IInv, ContextsInv, KeysInv, ContextsType, KeysType, ContextRecords, EntryRecords, TypeOK
<1> QED
  BY <1>1, InvariantHolds, PTL

\* Contexts are neither lost nor shared, for any number of contexts and objects and whatever
\* handles careless clients send (tfm_crypto_operation_alloc(), _lookup(), _release()).
THEOREM ContextsSafe == Spec => []ContextsAccounted
<1>1. IInv => ContextsAccounted
  BY DEF IInv, ContextsInv
<1> QED
  BY <1>1, InvariantHolds, PTL

\* No entry of the key owner table outlives its volatile key (crypto_key.c).
THEOREM VolatileEntriesSafe == Spec => []VolatileEntriesExact
<1>1. IInv => VolatileEntriesExact
  BY DEF IInv, KeysInv
<1> QED
  BY <1>1, InvariantHolds, PTL

-----------------------------------------------------------------------------
(* Isolation of the clients.                                               *)

\* What a client sees of its operations and of its keys.
Val == [o \in CarefulOps |-> IF hdl[o] \in Contexts THEN ctx[hdl[o]].work ELSE Zeroed]

Use == [c \in Clients |-> {Seen(c, id) : id \in KeysOf(c)}]

\* What the abstract calls do to an operation.
LEMMA AfterFacts ==
  /\ Isolated!Inactive = Zeroed /\ Isolated!Broken = Broken
  /\ \A n : Isolated!Parts(n) = Parts(n)
  /\ Isolated!After(Zeroed) = {Parts(0)}
  /\ \A w \in Works : w.state = "active" =>
        Isolated!After(w) = {Parts(w.parts + 1), Zeroed, Broken}
  /\ Isolated!After(Broken) = {Zeroed}
<1>1. /\ Isolated!Inactive = Zeroed /\ Isolated!Broken = Broken
      /\ \A n : Isolated!Parts(n) = Parts(n)
  BY DEF Isolated!Inactive, Isolated!Broken, Isolated!Parts, Zeroed, Broken, Parts
<1>2. /\ Zeroed.state # "active" /\ Broken.state # "active" /\ Zeroed # Broken
  BY DEF Zeroed, Broken
<1> QED
  BY <1>1, <1>2 DEF Isolated!After

\* A setup, a clone: only the object of the request changes.
LEMMA AllocVal ==
  ASSUME ContextsInv, NEW o \in Ops, hdl[o] = Invalid,
         NEW w, tfm_crypto_operation_alloc(o, w)
  PROVE  /\ o \in CarefulOps => Val[o] = Zeroed /\ Val' = [Val EXCEPT ![o] = w]
         /\ o \notin CarefulOps => Val' = Val
<1> DEFINE h == First(FreeContexts)
           r == [in_use |-> TRUE, owner |-> OpOwner[o], type |-> OpType[o], work |-> w]
<1>1. h \in Contexts /\ ~ctx[h].in_use
  BY ContextNumbers, FirstIn DEF tfm_crypto_operation_alloc, FreeContexts
<1>2. ctx' = [ctx EXCEPT ![h] = r] /\ hdl' = [hdl EXCEPT ![o] = h] /\ r.work = w
  BY DEF tfm_crypto_operation_alloc
<1> HIDE DEF h, r
<1>3. /\ ctx'[h] = r /\ \A g \in Contexts \ {h} : ctx'[g] = ctx[g]
      /\ hdl'[o] = h /\ \A q \in Ops \ {o} : hdl'[q] = hdl[q]
  BY <1>1, <1>2 DEF ContextsInv, ContextsType
<1>4. \A q \in CarefulOps : hdl[q] # h
  BY <1>1, ContextNumbers DEF ContextsInv, ContextsAccounted, tfm_crypto_operation_lookup, CarefulOps
<1>5. \A q \in CarefulOps \ {o} : Val'[q] = Val[q]
  BY <1>3, <1>4 DEF Val, CarefulOps
<1>6. o \in CarefulOps => Val[o] = Zeroed /\ Val'[o] = w
  BY <1>1, <1>2, <1>3, ContextNumbers DEF Val
<1> QED
  BY <1>5, <1>6 DEF Val

\* A call that works on the object of the request.
LEMMA WorkVal ==
  ASSUME ContextsInv, NEW o \in Ops, tfm_crypto_operation_lookup(o), NEW w, SetWork(o, w)
  PROVE  /\ o \in CarefulOps => Val[o] = Work(o) /\ Val' = [Val EXCEPT ![o] = w]
         /\ o \notin CarefulOps => Val' = Val
<1> DEFINE h == hdl[o]
           r == [ctx[h] EXCEPT !.work = w]
<1>1. h \in Contexts
  BY DEF tfm_crypto_operation_lookup
<1>2. ctx' = [ctx EXCEPT ![h] = r] /\ hdl' = hdl
  BY DEF SetWork, ContextsInv, ContextsType
<1>3. r.work = w
  BY <1>1 DEF ContextsInv, ContextsType, ContextRecords
<1>4. ctx'[h] = r /\ \A g \in Contexts \ {h} : ctx'[g] = ctx[g]
  BY <1>1, <1>2 DEF ContextsInv, ContextsType
<1> HIDE DEF r
<1>5. \A q \in CarefulOps \ {o} : Val'[q] = Val[q]
  BY <1>2, <1>4, HandleExclusive DEF Val, CarefulOps
<1>6. o \in CarefulOps => Val[o] = Work(o) /\ Val'[o] = w
  BY <1>1, <1>2, <1>3, <1>4 DEF Val, Work
<1> QED
  BY <1>5, <1>6 DEF Val

\* A call that ends the operation.
LEMMA ReleaseVal ==
  ASSUME ContextsInv, NEW o \in Ops, Releases(o)
  PROVE  /\ o \in CarefulOps => Val[o] = Work(o) /\ Val' = [Val EXCEPT ![o] = Zeroed]
         /\ o \notin CarefulOps => Val' = Val
<1> DEFINE h == hdl[o]
<1>1. h \in Contexts /\ tfm_crypto_operation_lookup(o)
  BY DEF Releases, tfm_crypto_operation_lookup
<1>2. /\ \A g \in Contexts \ {h} : ctx'[g] = ctx[g]
      /\ hdl'[o] = Invalid /\ \A q \in Ops \ {o} : hdl'[q] = hdl[q]
  BY <1>1 DEF Releases, ContextsInv, ContextsType
<1>3. \A q \in CarefulOps \ {o} : Val'[q] = Val[q]
  BY <1>1, <1>2, HandleExclusive DEF Val, CarefulOps
<1>4. o \in CarefulOps => Val[o] = Work(o) /\ Val'[o] = Zeroed
  BY <1>1, <1>2, ContextNumbers DEF Val, Work
<1> QED
  BY <1>3, <1>4 DEF Val

\* What a careless client writes is not seen by others.
LEMMA ScribbleVal ==
  ASSUME NEW o \in Ops, Scribbles(o)
  PROVE  Val' = Val
  BY DEF Scribbles, Val, CarefulOps

\* Who may use which key depends on the tables only.
LEMMA UseSame ==
  ASSUME UNCHANGED <<table, keys, mapped>>
  PROVE  Use' = Use
  BY DEF Use, Seen, KeysOf, StaleIds, RefusedIds, Asked, Owned, tfm_crypto_sign_hash,
     tfm_crypto_check_handle_owner, Entries

\* A request for operation o is an abstract step of its client.
LEMMA OpRequestStep ==
  ASSUME IInv, NEW o \in LiveOps, OpRequest(o)
  PROVE  Isolated!Next
<1> o \in Ops /\ OpOwner[o] \in Clients
  BY CryptoAssumption DEF IInv, LiveOps
<1>1. caller' = OpOwner[o] /\ Use' = Use
  BY UseSame DEF OpRequest, Serve
<1>2. ASSUME Val' = Val PROVE Isolated!Next
  <2>1. Isolated!Served(OpOwner[o])
    BY <1>1, <1>2 DEF Isolated!Served, Val, Use
  <2> QED
    BY <2>1 DEF Isolated!Next
<1>3. ASSUME o \in CarefulOps,
             NEW to \in Isolated!After(Val[o]) \cup Isolated!Copies(o), Val' = [Val EXCEPT ![o] = to]
      PROVE  Isolated!Next
  <2>1. Isolated!OpStep(o)
    BY <1>1, <1>3 DEF Isolated!OpStep, Val, Use
  <2> QED
    BY <1>3, <2>1 DEF Isolated!Next
<1>4. CASE SetUp(o)
  BY <1>2, <1>3, <1>4, AllocVal, AfterFacts DEF SetUp, IInv
<1>5. CASE Forget(o)
  <2>1. Scribbles(o)
    BY <1>5 DEF Forget, Willing, IInv, ContextsInv, ContextsType, Scribbles
  <2> QED
    BY <1>2, <2>1, ScribbleVal
<1>6. ASSUME tfm_crypto_operation_lookup(o)
      PROVE  /\ Work(o) \in Works \ {Zeroed}
             /\ Zeroed \in Isolated!After(Work(o))
             /\ Work(o).state = "active" =>
                  {Broken, Parts(Work(o).parts + 1)} \subseteq Isolated!After(Work(o))
  <2>1. Work(o) \in Works \ {Zeroed}
    BY <1>6 DEF IInv, ContextsInv, ContextsType, ContextRecords, OperationsSetUp,
       tfm_crypto_operation_lookup, Work
  <2> QED
    BY <2>1, AfterFacts, WorkFacts
<1>7. ASSUME tfm_crypto_operation_lookup(o), NEW w, SetWork(o, w), w \in Isolated!After(Work(o))
      PROVE  Isolated!Next
  BY <1>2, <1>3, <1>7, WorkVal DEF IInv
<1>8. ASSUME tfm_crypto_operation_lookup(o), tfm_crypto_operation_release(o)
      PROVE  Isolated!Next
  <2>1. Releases(o)
    BY <1>8 DEF tfm_crypto_operation_lookup, tfm_crypto_operation_release, Releases
  <2> QED
    BY <1>2, <1>3, <1>6, <1>8, <2>1, ReleaseVal DEF IInv
<1>9. CASE Step(o)
  BY <1>6, <1>7, <1>9 DEF Step
<1>10. CASE Finish(o)
  BY <1>6, <1>7, <1>8, <1>10 DEF Finish
<1>11. CASE Abort(o)
  BY <1>8, <1>11 DEF Abort
<1>12. ASSUME NEW s \in LiveOps, tfm_crypto_hash_clone(s, o)
       PROVE  Isolated!Next
  <2>1. PICK w \in {Work(s), Broken} : tfm_crypto_operation_alloc(o, w)
    BY <1>12 DEF tfm_crypto_hash_clone
  <2>2. /\ s \in Ops /\ OpOwner[s] = OpOwner[o] /\ hdl[o] = Invalid
        /\ tfm_crypto_operation_lookup(s)
    BY <1>12 DEF tfm_crypto_hash_clone, IInv, LiveOps
  <2>3. CASE o \notin CarefulOps
    BY <1>2, <2>1, <2>2, <2>3, AllocVal DEF IInv
  <2>4. CASE o \in CarefulOps
    <3>1. s \in CarefulOps /\ Val[s] = Work(s) /\ Val[s] # Zeroed
      BY <2>2, <2>4 DEF CarefulOps, Val, Work, IInv, ContextsInv, OperationsSetUp,
         tfm_crypto_operation_lookup
    <3>2. Val[o] = Zeroed /\ Val' = [Val EXCEPT ![o] = w]
      BY <2>1, <2>2, <2>4, AllocVal DEF IInv
    <3>3. w \in Isolated!Copies(o)
      BY <2>1, <2>2, <2>4, <3>1, <3>2, AfterFacts DEF Isolated!Copies, Val
    <3> QED
      BY <1>3, <2>4, <3>2, <3>3
  <2> QED
    BY <2>3, <2>4
<1>13. \/ SetUp(o) \/ Forget(o) \/ Step(o) \/ Finish(o) \/ Abort(o)
       \/ \E s \in LiveOps : tfm_crypto_hash_clone(s, o)
  BY OpRequestKinds
<1> QED
  BY <1>4, <1>5, <1>9, <1>10, <1>11, <1>12, <1>13

\* Client c has an entry for id.
HasEntry(c, id) ==
  \E i \in DOMAIN table : table[i].in_use /\ table[i].key = id /\ table[i].owner = c

\* All entries for an identifier that no other client chose have the same owner, so the
\* first one decides.
LEMMA OwnerHasEntry ==
  ASSUME KeysInv, NEW c \in Clients, NEW id \in OwnIds(c)
  PROVE  tfm_crypto_check_handle_owner(c, id) <=> HasEntry(c, id)
<1>1. DOMAIN table \subseteq Nat
  BY CryptoAssumption DEF KeysInv, KeysType
<1>2. Entries(id) # {} => First(Entries(id)) \in Entries(id)
  BY <1>1, FirstIn DEF Entries
<1>3. ASSUME NEW i \in Entries(id), NEW j \in Entries(id), table[i].owner = c
      PROVE  table[j].owner = c
  <2>1. CASE id \in VolatileIds
    BY <1>3, <2>1 DEF KeysInv, VolatileEntriesExact, Entries
  <2>2. CASE id \in PersistentIds
    BY <1>3, <2>2 DEF KeysInv, PersistentOwn, Entries, OwnIds
  <2> QED
    BY <2>1, <2>2 DEF OwnIds, Ids
<1> QED
  BY <1>2, <1>3 DEF tfm_crypto_check_handle_owner, HasEntry, Entries

\* Whether client c sees key id.
Sees(c, id) ==
  /\ id \in OwnIds(c) /\ HasEntry(c, id)
  /\ Contains(mapped, id) => \E k \in keys : k.id = id /\ k.vendor
  /\ Asked(c, id) = "vendor" => Contains(mapped, id)

\* What the clients see of their keys, in terms of entries.
UseIsEntries == Use = [c \in Clients |-> {Seen(c, id) : id \in {i \in Ids : Sees(c, i)}}]

\* The keys a client sees are those it has an entry for.
LEMMA UseForm == KeysInv => UseIsEntries
<1> SUFFICES ASSUME KeysInv, NEW c \in Clients
             PROVE  KeysOf(c) = {i \in Ids : Sees(c, i)}
  BY DEF Use, UseIsEntries
<1>1. ASSUME NEW id \in Ids PROVE id \in KeysOf(c) <=> Sees(c, id)
  BY OwnerHasEntry DEF KeysOf, Sees, StaleIds, RefusedIds
<1> QED
  BY <1>1 DEF KeysOf, OwnIds

\* A persistent key is never the vendor's.
LEMMA PersistentSeen ==
  ASSUME KeysInv, NEW c \in Clients, NEW id \in PersistentIds
  PROVE  /\ Seen(c, id) = [id |-> id, asked |-> "library", signer |-> "library"]
         /\ Sees(c, id) <=> id \in OwnIds(c) /\ HasEntry(c, id)
<1>1. ~Contains(mapped, id)
  BY IdFacts DEF KeysInv, KeysType, Contains
<1>2. Asked(c, id) = "library"
  BY IdFacts DEF KeysInv, VendorKeysVolatile, Asked, Owned
<1> QED
  BY <1>1, <1>2 DEF Seen, Sees, tfm_crypto_sign_hash

\* The same in the next state.
LEMMA PersistentSeenNext ==
  ASSUME NEW c \in Clients, NEW id \in PersistentIds
  PROVE  KeysInv' => /\ Seen(c, id)' = [id |-> id, asked |-> "library", signer |-> "library"]
                     /\ Sees(c, id)' <=> id \in OwnIds(c) /\ HasEntry(c, id)'
<1>1. KeysInv => /\ Seen(c, id) = [id |-> id, asked |-> "library", signer |-> "library"]
                 /\ Sees(c, id) <=> id \in OwnIds(c) /\ HasEntry(c, id)
  BY PersistentSeen
<1>2. (KeysInv => /\ Seen(c, id) = [id |-> id, asked |-> "library", signer |-> "library"]
                  /\ Sees(c, id) <=> id \in OwnIds(c) /\ HasEntry(c, id))'
  BY <1>1, PTL
<1> QED
  BY <1>2 DEF OwnIds

\* What others see does not change when entries and keys of client c for id change.
LEMMA OthersSee ==
  ASSUME KeysInv, KeysInv', NEW c \in Clients, NEW id \in Ids,
         id \in PersistentIds => id \in ChosenIds[c],
         \A d \in Clients, x \in Ids : d # c \/ x # id => (HasEntry(d, x)' <=> HasEntry(d, x)),
         id \in VolatileIds => \A d \in Clients \ {c} : ~HasEntry(d, id),
         \A k : k.id # id => (k \in keys' <=> k \in keys),
         \A x \in Ids \ {id} : Contains(mapped', x) <=> Contains(mapped, x),
         NEW d \in Clients, NEW x \in Ids, d # c \/ x # id
  PROVE  /\ Sees(d, x)' <=> Sees(d, x)
         /\ Sees(d, x) => Seen(d, x)' = Seen(d, x)
<1>1. CASE x # id
  <2>1. Owned(d, x)' = Owned(d, x)
    BY <1>1 DEF Owned
  <2>2. (\E k \in keys' : k.id = x /\ k.vendor) <=> (\E k \in keys : k.id = x /\ k.vendor)
    BY <1>1
  <2>3. Asked(d, x)' = Asked(d, x)
    BY <2>1 DEF Asked
  <2> QED
    BY <1>1, <2>2, <2>3 DEF Sees, Seen, OwnIds, tfm_crypto_sign_hash
<1>2. CASE x = id /\ d # c /\ id \in PersistentIds
  <2>1. id \notin OwnIds(d)
    BY <1>2 DEF OwnIds
  <2> QED
    BY <1>2, <2>1 DEF Sees, OwnIds
<1>3. CASE x = id /\ d # c /\ id \in VolatileIds
  BY <1>3 DEF Sees
<1> QED
  BY <1>1, <1>2, <1>3 DEF Ids

\* When only client c sees something else, and only of key id, Use changes accordingly.
LEMMA UseChanges ==
  ASSUME KeysInv, KeysInv', NEW c \in Clients, NEW id \in Ids,
         \A d \in Clients, x \in Ids : d # c \/ x # id =>
           /\ Sees(d, x)' <=> Sees(d, x)
           /\ Sees(d, x) => Seen(d, x)' = Seen(d, x)
  PROVE  /\ Sees(c, id)' /\ (Sees(c, id) => Seen(c, id)' = Seen(c, id)) =>
              Use' = [Use EXCEPT ![c] = Use[c] \cup {Seen(c, id)'}]
         /\ ~Sees(c, id)' => Use' = [Use EXCEPT ![c] = Use[c] \ {Seen(c, id)}]
<1>1. /\ Use = [d \in Clients |-> {Seen(d, x) : x \in {y \in Ids : Sees(d, y)}}]
      /\ Use' = [d \in Clients |-> {Seen(d, x)' : x \in {y \in Ids : Sees(d, y)'}}]
  <2>1. KeysInv' => UseIsEntries'
    BY UseForm, PTL
  <2> QED
    BY <2>1, UseForm DEF UseIsEntries
<1>2. \A d \in Clients \ {c} : Use'[d] = Use[d]
  BY <1>1
<1>3. \A x, y : Seen(c, x) = Seen(c, y) => x = y
  BY DEF Seen
<1>4. Sees(c, id)' /\ (Sees(c, id) => Seen(c, id)' = Seen(c, id)) => Use'[c] = Use[c] \cup {Seen(c, id)'}
  BY <1>1
<1>5. ~Sees(c, id)' => Use'[c] = Use[c] \ {Seen(c, id)}
  BY <1>1, <1>3
<1> QED
  BY <1>1, <1>2, <1>4, <1>5

\* A new entry gives at most one key to one client, with the signer it asked for.
LEMMA EntersUse ==
  ASSUME KeysInv, NEW c \in Clients, NEW id \in Ids, Enters(c, id)
  PROVE  \E k \in Isolated!Keys :
           \/ k.signer = k.asked /\ Use' = [Use EXCEPT ![c] = Use[c] \cup {k}]
           \/ Use' = [Use EXCEPT ![c] = Use[c] \ {k}]
<1>1. PICK i \in DOMAIN table :
        /\ ~table[i].in_use /\ table[i].key \notin Ids
        /\ table' \in [1 .. MaxKeyHandles -> EntryRecords]
        /\ table'[i].in_use /\ table'[i].owner = c /\ table'[i].key = id
        /\ \A j \in DOMAIN table \ {i} : table'[j] = table[j]
  BY EntersEntry
<1>2. DOMAIN table' = DOMAIN table
  BY <1>1 DEF KeysInv, KeysType
<1>3. \A d \in Clients, x \in Ids : HasEntry(d, x)' <=> HasEntry(d, x) \/ (d = c /\ x = id)
  BY <1>1, <1>2 DEF HasEntry
<1>4. KeysInv'
  BY EntersKeys
<1>5. id \in PersistentIds => id \in ChosenIds[c]
  BY IdFacts DEF Enters
<1>6. id \in VolatileIds => \A d \in Clients : ~HasEntry(d, id)
  BY IdFacts DEF Enters, HasEntry, KeysInv, VolatileEntriesExact, Owned
<1>7. \A k : k.id # id => (k \in keys' <=> k \in keys)
  BY DEF Enters
<1>8. \A x \in Ids \ {id} : Contains(mapped', x) <=> Contains(mapped, x)
  <2>1. CASE mapped' = mapped
    BY <2>1
  <2>2. CASE mapped' = Append(mapped, id) /\ mapped \in Seq(VolatileIds) /\ id \in VolatileIds
    <3>1. /\ Len(mapped') = Len(mapped) + 1 /\ Len(mapped) \in Nat
          /\ mapped'[Len(mapped) + 1] = id
          /\ \A n \in 1 .. Len(mapped) : mapped'[n] = mapped[n]
      BY <2>2
    <3> QED
      BY <3>1 DEF Contains
  <2> QED
    BY <2>1, <2>2 DEF Enters, KeysInv, KeysType
<1>9. \A d \in Clients, x \in Ids : d # c \/ x # id =>
        /\ Sees(d, x)' <=> Sees(d, x)
        /\ Sees(d, x) => Seen(d, x)' = Seen(d, x)
  BY <1>3, <1>4, <1>5, <1>6, <1>7, <1>8, OthersSee
<1>10. Seen(c, id) \in Isolated!Keys /\ Seen(c, id)' \in Isolated!Keys
  BY DEF Seen, Asked, tfm_crypto_sign_hash, Isolated!Keys, Isolated!Signers
<1>11. CASE ~Sees(c, id)'
  <2>1. Use' = [Use EXCEPT ![c] = Use[c] \ {Seen(c, id)}]
    BY <1>4, <1>9, <1>11, UseChanges
  <2> QED
    BY <1>10, <2>1
<1>12. CASE Sees(c, id)'
  <2>1. Sees(c, id) => Seen(c, id)' = Seen(c, id)
    <3>1. CASE id \in PersistentIds
      BY <1>4, <3>1, PersistentSeen, PersistentSeenNext
    <3>2. CASE id \in VolatileIds
      BY <1>6, <3>2 DEF Sees
    <3> QED
      BY <3>1, <3>2 DEF Ids
  <2>2. Use' = [Use EXCEPT ![c] = Use[c] \cup {Seen(c, id)'}]
    BY <1>4, <1>9, <1>12, <2>1, UseChanges
  <2>3. Seen(c, id)'.signer = Seen(c, id)'.asked
    <3>1. CASE id \in PersistentIds
      BY <1>4, <3>1, PersistentSeenNext
    <3>2. CASE id \in VolatileIds
      <4>1. /\ \A k \in keys : k.id # id
            /\ \E v \in BOOLEAN : keys' = keys \cup {[owner |-> c, id |-> id, vendor |-> v]}
        BY <3>2, IdFacts DEF Enters
      <4>2. (\E k \in keys' : k.id = id /\ k.vendor) => Asked(c, id)' = "vendor"
        BY <4>1 DEF Asked, Owned
      <4>3. Asked(c, id)' = "vendor" \/ Asked(c, id)' = "library"
        BY DEF Asked
      <4>4. Contains(mapped', id) <=> Asked(c, id)' = "vendor"
        BY <1>12, <4>2, <4>3 DEF Sees
      <4> QED
        BY <4>3, <4>4 DEF Seen, tfm_crypto_sign_hash
    <3> QED
      BY <3>1, <3>2 DEF Ids
  <2> QED
    BY <1>10, <2>2, <2>3
<1> QED
  BY <1>11, <1>12

\* An entry that is cleared takes at most one key from one client.
LEMMA LeavesUse ==
  ASSUME KeysInv, NEW c \in Clients, NEW id \in Ids, Leaves(c, id)
  PROVE  \E k \in Isolated!Keys :
           \/ k.signer = k.asked /\ Use' = [Use EXCEPT ![c] = Use[c] \cup {k}]
           \/ Use' = [Use EXCEPT ![c] = Use[c] \ {k}]
<1>1. PICK i \in DOMAIN table :
        /\ table[i].in_use /\ table[i].owner = c /\ table[i].key = id
        /\ table' \in [1 .. MaxKeyHandles -> EntryRecords]
        /\ table'[i] = NoEntry
        /\ \A j \in DOMAIN table \ {i} : table'[j] = table[j]
  BY LeavesEntry
<1>2. DOMAIN table' = DOMAIN table /\ ~NoEntry.in_use
  BY <1>1 DEF KeysInv, KeysType, NoEntry
<1>3. \A d \in Clients, x \in Ids : d # c \/ x # id => (HasEntry(d, x)' <=> HasEntry(d, x))
  BY <1>1, <1>2, ZenonT(40) DEF HasEntry
<1>4. KeysInv'
  BY LeavesKeys
<1>5. id \in PersistentIds => id \in ChosenIds[c]
  BY <1>1 DEF KeysInv, PersistentOwn
<1>6. id \in VolatileIds => \A j \in DOMAIN table : table[j].in_use /\ table[j].key = id => j = i
  BY <1>1 DEF KeysInv, VolatileEntriesExact, Entries
<1>7. id \in VolatileIds => \A d \in Clients \ {c} : ~HasEntry(d, id)
  BY <1>1, <1>6 DEF HasEntry
<1>8. \A k : k.id # id => (k \in keys' <=> k \in keys)
  BY DEF Leaves
<1>9. \A d \in Clients, x \in Ids : d # c \/ x # id =>
        /\ Sees(d, x)' <=> Sees(d, x)
        /\ Sees(d, x) => Seen(d, x)' = Seen(d, x)
  BY <1>3, <1>4, <1>5, <1>7, <1>8, OthersSee DEF Leaves
<1>10. Seen(c, id) \in Isolated!Keys /\ Seen(c, id)' \in Isolated!Keys
  BY DEF Seen, Asked, tfm_crypto_sign_hash, Isolated!Keys, Isolated!Signers
<1>11. CASE ~Sees(c, id)'
  <2>1. Use' = [Use EXCEPT ![c] = Use[c] \ {Seen(c, id)}]
    BY <1>4, <1>9, <1>11, UseChanges
  <2> QED
    BY <1>10, <2>1
<1>12. CASE Sees(c, id)'
  <2>1. HasEntry(c, id)'
    BY <1>12 DEF Sees
  <2>2. id \in PersistentIds
    BY <1>1, <1>2, <1>6, <2>1 DEF HasEntry, Ids
  <2>3. Seen(c, id)' = Seen(c, id) /\ Seen(c, id)'.signer = Seen(c, id)'.asked
    BY <1>4, <2>2, PersistentSeen, PersistentSeenNext
  <2>4. Use' = [Use EXCEPT ![c] = Use[c] \cup {Seen(c, id)'}]
    BY <1>4, <1>9, <1>12, <2>3, UseChanges
  <2> QED
    BY <1>10, <2>3, <2>4
<1> QED
  BY <1>11, <1>12

\* A request for a key is an abstract step of its client.
LEMMA KeyStep ==
  ASSUME KeysInv, NEW c \in Clients, NEW id \in Ids, Enters(c, id) \/ Leaves(c, id),
         caller' = c, UNCHANGED <<ctx, hdl>>
  PROVE  Isolated!Next
<1>1. Val' = Val
  BY DEF Val
<1>2. \E k \in Isolated!Keys :
        \/ k.signer = k.asked /\ Use' = [Use EXCEPT ![c] = Use[c] \cup {k}]
        \/ Use' = [Use EXCEPT ![c] = Use[c] \ {k}]
  BY EntersUse, LeavesUse
<1>3. Isolated!KeyStep(c)
  BY <1>1, <1>2 DEF Isolated!KeyStep, Val, Use
<1> QED
  BY <1>3 DEF Isolated!Next

\* After a start no client has an operation or a key.
NothingOpen == Val = [o \in CarefulOps |-> Zeroed] /\ Use = [c \in Clients |-> {}]

\* A start closes everything.
LEMMA StartedViews == JustStarted => NothingOpen
<1> SUFFICES ASSUME JustStarted
             PROVE  Val = [o \in CarefulOps |-> Zeroed] /\ Use = [c \in Clients |-> {}]
  BY DEF NothingOpen
<1>1. hdl = [o \in Ops |-> Invalid] /\ table = [i \in 1 .. MaxKeyHandles |-> NoEntry]
  BY DEF JustStarted, Started
<1>2. Val = [o \in CarefulOps |-> Zeroed]
  BY <1>1, ContextNumbers DEF Val, CarefulOps
<1>3. \A id : Entries(id) = {}
  BY <1>1 DEF Entries, NoEntry
<1> QED
  BY <1>2, <1>3 DEF Use, KeysOf, tfm_crypto_check_handle_owner

\* Contexts, handles and the table of key owners are shared, but the clients do not
\* notice: the service implements one in which each client has its own, and in which a key
\* is signed with by the one it was asked of.  This is about keys whose identifier no other
\* client chose and no vendor key had before (OwnIds, StaleIds): for the others the code does
\* not keep the promise.
THEOREM ServiceIsolatesClients == Spec => ClientsIsolated
<1>1. Init => Isolated!Init
  <2> SUFFICES ASSUME Init PROVE Isolated!Init
    OBVIOUS
  <2>1. JustStarted /\ caller \in Clients
    BY DEF Init, JustStarted
  <2> QED
    BY <2>1, StartedViews, AfterFacts DEF Isolated!Init, NothingOpen, Val, Use
<1>2. IInv /\ [Next]_vars => [Isolated!Next]_(Isolated!vars)
  <2> SUFFICES ASSUME IInv, [Next]_vars
               PROVE  Isolated!Next \/ UNCHANGED Isolated!vars
    OBVIOUS
  <2>1. ASSUME NEW o \in LiveOps, tfm_crypto_key_derivation_output_key(o)
        PROVE  Isolated!Next
    <3>1. /\ CreateKey(OpOwner[o]) /\ mapped' = mapped /\ caller' = OpOwner[o]
          /\ UNCHANGED <<ctx, hdl>> /\ OpOwner[o] \in Clients
      BY <2>1, CryptoAssumption DEF tfm_crypto_key_derivation_output_key, Serve, IInv, LiveOps
    <3>2. PICK id \in Ids : Enters(OpOwner[o], id)
      BY <3>1, CreateKeyEffect
    <3> QED
      BY <3>1, <3>2, KeyStep DEF IInv
  <2>2. ASSUME NEW o \in LiveOps, Scribble(o)
        PROVE  UNCHANGED Isolated!vars
    <3>1. Scribbles(o) /\ o \in Ops
      BY <2>2 DEF IInv, LiveOps, ContextsInv, ContextsType, Scribble, Scribbles
    <3>2. Val' = Val /\ Use' = Use /\ caller' = caller
      BY <2>2, <3>1, ScribbleVal, UseSame DEF Scribble
    <3> QED
      BY <3>2 DEF Isolated!vars, Val, Use
  <2>3. ASSUME NEW c \in Clients, KeyRequest(c)
        PROVE  Isolated!Next
    <3>1. PICK id \in Ids : Enters(c, id) \/ Leaves(c, id)
      BY <2>3, KeyRequestEffect DEF IInv
    <3>2. caller' = c /\ UNCHANGED <<ctx, hdl>>
      BY <2>3, KeyRequestEffect DEF IInv
    <3> QED
      BY <3>1, <3>2, KeyStep DEF IInv
  <2>4. CASE Restart
    <3>1. JustStarted' /\ caller' \in Clients
      BY <2>4, IdFacts DEF Restart, Serve, Started, JustStarted, IInv, KeysInv, KeysType,
         PersistentOwn, VendorKeysVolatile
    <3>2. JustStarted' => NothingOpen'
      BY StartedViews, PTL
    <3>3. Isolated!Restart
      BY <3>1, <3>2, AfterFacts DEF Isolated!Restart, NothingOpen, Val, Use
    <3> QED
      BY <3>3 DEF Isolated!Next
  <2>5. CASE UNCHANGED vars
    <3>1. Val' = Val /\ Use' = Use /\ caller' = caller
      BY <2>5, UseSame DEF vars, Val
    <3> QED
      BY <3>1 DEF Isolated!vars, Val, Use
  <2> QED
    BY <2>1, <2>2, <2>3, <2>4, <2>5, OpRequestStep DEF Next
<1> QED
  BY <1>1, <1>2, InvariantHolds, PTL DEF Spec, ClientsIsolated, Isolated!Spec
=============================================================================
