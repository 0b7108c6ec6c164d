---------------------------- MODULE CryptoService ----------------------------
(***************************************************************************)
(* The crypto service: the operation contexts all clients share            *)
(* (crypto_alloc.c), the multi-part operations that run in them            *)
(* (crypto_hash.c, crypto_mac.c, crypto_cipher.c, crypto_key_derivation.c),*)
(* the table of key owners (crypto_key.c) and the keys provisioned by the  *)
(* vendor (crypto_vendor_key.c and its PSoC 64 back end).                  *)
(*                                                                         *)
(* The service handles one message at a time, so a request is one action.  *)
(* A request that is refused and changes nothing is no action.  The crypto *)
(* library behind the service is modelled by what its headers say: a call  *)
(* succeeds or fails; an operation in which a call failed is in an error   *)
(* state and must be aborted; persistent keys are kept per owner and       *)
(* identifier; the identifiers of volatile keys are reused.                *)
(*                                                                         *)
(* Careful clients use an operation object as the headers ask them to: it  *)
(* is initialised once and set up only while it is inactive.  The others   *)
(* may put any handle into theirs and set it up at any time.               *)
(***************************************************************************)
EXTENDS Naturals, SequencesExt

CONSTANTS
  Clients,
  Careful,        \* the clients that use their objects as documented
  Ops,            \* operation objects
  Populations,    \* sets of objects and key identifiers that are in use together
  OpOwner,        \* the client of every object
  OpType,         \* "hash", "mac", "cipher" or "derivation"
  NumContexts,    \* TFM_CRYPTO_CONC_OPER_NUM
  MaxKeyHandles,  \* TFM_CRYPTO_MAX_KEY_HANDLES
  NumVendorSlots, \* CY_P64_KEY_SLOT_STATIC_MAX
  VolatileIds,    \* identifiers the library gives to volatile keys
  ChosenIds,      \* per client, the identifiers it gives to persistent keys
  MaxParts        \* bound on the parts processed by an operation

PersistentIds == UNION {ChosenIds[c] : c \in Clients}

Ids == VolatileIds \cup PersistentIds

Types == {"hash", "mac", "cipher", "derivation"}

NoClient == "nobody"

ASSUME CryptoAssumption ==
  /\ Careful \subseteq Clients
  /\ Populations \subseteq SUBSET (Ops \cup Ids)
  /\ OpOwner \in [Ops -> Clients] /\ OpType \in [Ops -> Types]
  /\ NumContexts \in Nat /\ MaxKeyHandles \in Nat /\ NumVendorSlots \in Nat /\ MaxParts \in Nat
  /\ ChosenIds \in [Clients -> SUBSET PersistentIds]
  /\ VolatileIds \cap PersistentIds = {}
  /\ NoClient \notin Clients \cup Ids

VARIABLES
  live,    \* the objects and key identifiers in use in this behaviour
  ctx,     \* operation[]: the contexts
  hdl,     \* per object, the handle in the client's operation structure
  table,   \* handle_owner[]
  keys,    \* keys of the library
  mapped,  \* key_id_mapping_table[]: identifiers vendor keys were opened as
  caller   \* the client of the request handled last

vars == <<live, ctx, hdl, table, keys, mapped, caller>>

Contexts == 1 .. NumContexts

LiveOps == Ops \cap live

\* TFM_CRYPTO_INVALID_HANDLE, and a value no context has.
Invalid == 0
OutOfRange == NumContexts + 1

\* The library's part of a context: not set up, in use or failed.
Zeroed == [state |-> "none", parts |-> 0]
Parts(n) == [state |-> "active", parts |-> n]
Broken == [state |-> "error", parts |-> 0]
Works == {Zeroed, Broken} \cup {Parts(n) : n \in 0 .. MaxParts}

FreeContext == [in_use |-> FALSE, owner |-> NoClient, type |-> "none", work |-> Zeroed]

NoEntry == [in_use |-> FALSE, owner |-> NoClient, key |-> NoClient]

\* The client of the request, as tfm_crypto_get_caller_id() returns it
\* (scratch.owner).
Serve(c) == caller' = c

-----------------------------------------------------------------------------
(* Operation contexts.                                                     *)

First(S) == CHOOSE i \in S : \A j \in S : i <= j

FreeContexts == {h \in Contexts : ~ctx[h].in_use}

\* Mutant: the handle is one too high.
MutAlloc(o, work) ==
  LET h == First(FreeContexts)
  IN  /\ FreeContexts # {}
      /\ ctx' = [ctx EXCEPT ![h] = [in_use |-> TRUE, owner |-> OpOwner[o],
                                    type |-> OpType[o], work |-> work]]
      /\ hdl' = [hdl EXCEPT ![o] = h + 1]

\* Take the first free context for object o; work is what the library makes
\* of it.
tfm_crypto_operation_alloc(o, work) ==
  LET h == First(FreeContexts)
  IN  /\ FreeContexts # {}
      /\ ctx' = [ctx EXCEPT ![h] = [in_use |-> TRUE, owner |-> OpOwner[o],
                                    type |-> OpType[o], work |-> work]]
      /\ hdl' = [hdl EXCEPT ![o] = h]

\* Mutant: the client keeps the handle.
MutRelease(o) ==
  /\ ctx' = [ctx EXCEPT ![hdl[o]] = FreeContext]
  /\ UNCHANGED hdl

\* Clear the context of object o, if it is its client's, and the handle the
\* client gets back.
tfm_crypto_operation_release(o) ==
  IF ctx[hdl[o]].owner = OpOwner[o]
  THEN /\ ctx' = [ctx EXCEPT ![hdl[o]] = FreeContext]
       /\ hdl' = [hdl EXCEPT ![o] = Invalid]
  ELSE UNCHANGED <<ctx, hdl>>

\* Mutant: the owner is not compared.
MutLookup(o) ==
  /\ hdl[o] \in Contexts
  /\ ctx[hdl[o]].in_use /\ ctx[hdl[o]].type = OpType[o]

\* The handle of object o leads to a context of its client and its type.
tfm_crypto_operation_lookup(o) ==
  /\ hdl[o] \in Contexts
  /\ ctx[hdl[o]].in_use
  /\ ctx[hdl[o]].type = OpType[o]
  /\ ctx[hdl[o]].owner = OpOwner[o]

Work(o) == ctx[hdl[o]].work

SetWork(o, work) ==
  /\ ctx' = [ctx EXCEPT ![hdl[o]].work = work]
  /\ UNCHANGED hdl

\* Only a careless client sets up an object that has a handle.
Willing(o) == hdl[o] = Invalid \/ OpOwner[o] \notin Careful

\* A setup that gets a context; when the library refuses, the context is
\* released and the handle is invalid again.
SetUp(o) ==
  /\ hdl[o] = Invalid
  /\ tfm_crypto_operation_alloc(o, Parts(0))

\* A setup that fails before it has copied the handle into the answer: the
\* client gets the zero of the scratch buffer.
Forget(o) ==
  /\ Willing(o) /\ hdl[o] # Invalid
  /\ hdl' = [hdl EXCEPT ![o] = Invalid]
  /\ UNCHANGED ctx

\* A call that processes another part, or fails.
Step(o) ==
  /\ tfm_crypto_operation_lookup(o)
  /\ Work(o).state = "active"
  /\ \/ Work(o).parts < MaxParts /\ SetWork(o, Parts(Work(o).parts + 1))
     \/ SetWork(o, Broken)

\* The last call of an operation: the context is kept when it fails.
Finish(o) ==
  /\ tfm_crypto_operation_lookup(o)
  /\ Work(o).state = "active"
  /\ tfm_crypto_operation_release(o) \/ SetWork(o, Broken)

Abort(o) ==
  /\ tfm_crypto_operation_lookup(o)
  /\ tfm_crypto_operation_release(o)

-----------------------------------------------------------------------------
(* Keys.                                                                   *)

Entries(id) == {i \in DOMAIN table : table[i].in_use /\ table[i].key = id}

FreeEntries == {i \in DOMAIN table : ~table[i].in_use}

\* Client c may use identifier id: the first entry with it is c's.
tfm_crypto_check_handle_owner(c, id) ==
  Entries(id) # {} /\ table[First(Entries(id))].owner = c

\* Key id of client c in the library (tfm_crypto_encode_id_and_owner).
Owned(c, id) == {k \in keys : k.owner = c /\ k.id = id}

\* The library can use the key client c names.
Usable(c, id) == tfm_crypto_check_handle_owner(c, id) /\ Owned(c, id) # {}

tfm_crypto_set_key_storage(c, id) ==
  table' = [table EXCEPT ![First(FreeEntries)] = [in_use |-> TRUE, owner |-> c, key |-> id]]

NewKey(c, id, vendor) ==
  /\ FreeEntries # {}
  /\ keys' = keys \cup {[owner |-> c, id |-> id, vendor |-> vendor]}
  /\ tfm_crypto_set_key_storage(c, id)

\* The library makes a volatile key, with an identifier that is not in use,
\* or a persistent one with the identifier its owner chose.
CreateKey(c) ==
  \/ \E id \in VolatileIds \cap live :
        (\A k \in keys : k.id # id) /\ NewKey(c, id, FALSE)
  \/ \E id \in ChosenIds[c] \cap live : Owned(c, id) = {} /\ NewKey(c, id, FALSE)

\* Mutant: the entry is kept.
MutClearEntry(id) == UNCHANGED table

ClearEntry(id) == table' = [table EXCEPT ![First(Entries(id))] = NoEntry]

-----------------------------------------------------------------------------
(* The service's functions.                                                *)

tfm_crypto_hash_setup(o) == OpType[o] = "hash" /\ SetUp(o)

tfm_crypto_hash_update(o) == OpType[o] = "hash" /\ Step(o)

tfm_crypto_hash_finish(o) == OpType[o] = "hash" /\ Finish(o)

tfm_crypto_hash_verify(o) == OpType[o] = "hash" /\ Finish(o)

tfm_crypto_hash_abort(o) == OpType[o] = "hash" /\ Abort(o)

\* The client side refuses a target that has a handle.  A failure of the
\* library leaves the target's context allocated.
tfm_crypto_hash_clone(s, o) ==
  /\ OpType[s] = "hash" /\ OpType[o] = "hash" /\ OpOwner[s] = OpOwner[o]
  /\ hdl[o] = Invalid
  /\ tfm_crypto_operation_lookup(s)
  /\ \E work \in {Work(s), Broken} : tfm_crypto_operation_alloc(o, work)

\* The key is checked before the handle is copied, an active object after it.
MacSetup(o) ==
  /\ OpType[o] = "mac"
  /\ \E id \in Ids : IF tfm_crypto_check_handle_owner(OpOwner[o], id)
                     THEN Usable(OpOwner[o], id) /\ SetUp(o)
                     ELSE Forget(o)

tfm_crypto_mac_sign_setup(o) == MacSetup(o)

tfm_crypto_mac_verify_setup(o) == MacSetup(o)

tfm_crypto_mac_update(o) == OpType[o] = "mac" /\ Step(o)

tfm_crypto_mac_sign_finish(o) == OpType[o] = "mac" /\ Finish(o)

tfm_crypto_mac_verify_finish(o) == OpType[o] = "mac" /\ Finish(o)

tfm_crypto_mac_abort(o) == OpType[o] = "mac" /\ Abort(o)

\* Neither the key nor an active object is noticed before the handle is lost.
CipherSetup(o) ==
  /\ OpType[o] = "cipher"
  /\ \/ \E id \in Ids : Usable(OpOwner[o], id) /\ SetUp(o)
     \/ Forget(o)

tfm_crypto_cipher_encrypt_setup(o) == CipherSetup(o)

tfm_crypto_cipher_decrypt_setup(o) == CipherSetup(o)

tfm_crypto_cipher_generate_iv(o) == OpType[o] = "cipher" /\ Step(o)

tfm_crypto_cipher_set_iv(o) == OpType[o] = "cipher" /\ Step(o)

tfm_crypto_cipher_update(o) == OpType[o] = "cipher" /\ Step(o)

tfm_crypto_cipher_finish(o) == OpType[o] = "cipher" /\ Finish(o)

tfm_crypto_cipher_abort(o) == OpType[o] = "cipher" /\ Abort(o)

tfm_crypto_key_derivation_setup(o) ==
  OpType[o] = "derivation" /\ (SetUp(o) \/ Forget(o))

tfm_crypto_key_derivation_set_capacity(o) == OpType[o] = "derivation" /\ Step(o)

tfm_crypto_key_derivation_input_bytes(o) == OpType[o] = "derivation" /\ Step(o)

tfm_crypto_key_derivation_output_bytes(o) == OpType[o] = "derivation" /\ Step(o)

WithKey(o) ==
  /\ OpType[o] = "derivation"
  /\ \E id \in Ids : Usable(OpOwner[o], id)
  /\ Step(o)

tfm_crypto_key_derivation_input_key(o) == WithKey(o)

tfm_crypto_key_derivation_key_agreement(o) == WithKey(o)

tfm_crypto_key_derivation_abort(o) == OpType[o] = "derivation" /\ Abort(o)

\* Requests that concern operation contexts only.
OpRequest(o) ==
  /\ \/ tfm_crypto_hash_setup(o) \/ tfm_crypto_hash_update(o)
     \/ tfm_crypto_hash_finish(o) \/ tfm_crypto_hash_verify(o)
     \/ tfm_crypto_hash_abort(o)
     \/ \E s \in LiveOps : tfm_crypto_hash_clone(s, o)
     \/ tfm_crypto_mac_sign_setup(o) \/ tfm_crypto_mac_verify_setup(o)
     \/ tfm_crypto_mac_update(o) \/ tfm_crypto_mac_sign_finish(o)
     \/ tfm_crypto_mac_verify_finish(o) \/ tfm_crypto_mac_abort(o)
     \/ tfm_crypto_cipher_encrypt_setup(o) \/ tfm_crypto_cipher_decrypt_setup(o)
     \/ tfm_crypto_cipher_generate_iv(o) \/ tfm_crypto_cipher_set_iv(o)
     \/ tfm_crypto_cipher_update(o) \/ tfm_crypto_cipher_finish(o)
     \/ tfm_crypto_cipher_abort(o)
     \/ tfm_crypto_key_derivation_setup(o) \/ tfm_crypto_key_derivation_set_capacity(o)
     \/ tfm_crypto_key_derivation_input_bytes(o) \/ tfm_crypto_key_derivation_input_key(o)
     \/ tfm_crypto_key_derivation_output_bytes(o)
     \/ tfm_crypto_key_derivation_key_agreement(o) \/ tfm_crypto_key_derivation_abort(o)
  /\ Serve(OpOwner[o])
  /\ UNCHANGED <<live, table, keys, mapped>>

tfm_crypto_key_derivation_output_key(o) ==
  /\ OpType[o] = "derivation"
  /\ tfm_crypto_operation_lookup(o) /\ Work(o).state = "active"
  /\ CreateKey(OpOwner[o])
  /\ Serve(OpOwner[o])
  /\ UNCHANGED <<live, ctx, hdl, mapped>>

tfm_crypto_import_key(c) == CreateKey(c) /\ UNCHANGED mapped

tfm_crypto_generate_key(c) == CreateKey(c) /\ UNCHANGED mapped

tfm_crypto_copy_key(c, id) == Usable(c, id) /\ CreateKey(c) /\ UNCHANGED mapped

\* A key opened twice has two entries.
tfm_crypto_open_key(c, id) ==
  /\ id \in PersistentIds /\ Owned(c, id) # {}
  /\ FreeEntries # {}
  /\ tfm_crypto_set_key_storage(c, id)
  /\ UNCHANGED <<keys, mapped>>

\* A vendor key is imported as a volatile key; its identifier is entered into
\* a table from which nothing is ever removed.  When that table is full the
\* client gets an error, but the key stays.
tfm_crypto_vendor_key_open_key(c) ==
  \E id \in VolatileIds \cap live :
        /\ \A k \in keys : k.id # id
        /\ NewKey(c, id, TRUE)
        /\ mapped' = IF Len(mapped) < NumVendorSlots THEN Append(mapped, id) ELSE mapped

\* Closing a volatile key destroys it.
tfm_crypto_close_key(c, id) ==
  /\ Usable(c, id)
  /\ keys' = IF id \in VolatileIds THEN keys \ Owned(c, id) ELSE keys
  /\ ClearEntry(id)
  /\ UNCHANGED mapped

tfm_crypto_destroy_key(c, id) ==
  /\ Usable(c, id)
  /\ keys' = keys \ Owned(c, id)
  /\ ClearEntry(id)
  /\ UNCHANGED mapped

\* The library keeps the key, the service forgets it.
tfm_crypto_purge_key(c, id) ==
  /\ Usable(c, id)
  /\ ClearEntry(id)
  /\ UNCHANGED <<keys, mapped>>

KeyRequest(c) ==
  /\ \/ tfm_crypto_import_key(c) \/ tfm_crypto_generate_key(c)
     \/ tfm_crypto_vendor_key_open_key(c)
     \/ \E id \in Ids : \/ tfm_crypto_copy_key(c, id) \/ tfm_crypto_open_key(c, id)
                        \/ tfm_crypto_close_key(c, id) \/ tfm_crypto_destroy_key(c, id)
                        \/ tfm_crypto_purge_key(c, id)
  /\ Serve(c)
  /\ UNCHANGED <<live, ctx, hdl>>

\* Who signs when client c asks for a signature with key id: the vendor's back
\* end when the identifier is in its table.  (Verification asks the same.)
tfm_crypto_sign_hash(c, id) == IF Contains(mapped, id) THEN "vendor" ELSE "library"

-----------------------------------------------------------------------------

\* A careless client writes any handle into one of its objects.
Scribble(o) ==
  /\ OpOwner[o] \notin Careful
  /\ \E h \in Contexts \cup {Invalid, OutOfRange} : hdl' = [hdl EXCEPT ![o] = h]
  /\ UNCHANGED <<live, ctx, table, keys, mapped, caller>>

Started ==
  [ctx |-> [h \in Contexts |-> FreeContext], hdl |-> [o \in Ops |-> Invalid],
   table |-> [i \in 1 .. MaxKeyHandles |-> NoEntry]]

\* The device restarts: only persistent keys survive.
Restart ==
  /\ ctx' = Started.ctx /\ hdl' = Started.hdl /\ table' = Started.table
  /\ keys' = {k \in keys : k.id \in PersistentIds}
  /\ mapped' = <<>>
  /\ \E c \in Clients : Serve(c)
  /\ UNCHANGED live

Init ==
  /\ live \in Populations
  /\ ctx = Started.ctx /\ hdl = Started.hdl /\ table = Started.table
  /\ keys = {}
  /\ mapped = <<>>
  /\ caller \in Clients

Next ==
  \/ \E o \in LiveOps : OpRequest(o) \/ tfm_crypto_key_derivation_output_key(o) \/ Scribble(o)
  \/ \E c \in Clients : KeyRequest(c)
  \/ Restart

Spec == Init /\ [][Next]_vars

-----------------------------------------------------------------------------
(* Properties.                                                             *)

\* Types of the variables; no handle that reaches a careful client is out of
\* range.
TypeOK ==
  /\ live \subseteq Ops \cup Ids
  /\ ctx \in [Contexts -> [in_use : BOOLEAN, owner : Clients \cup {NoClient},
                           type : Types \cup {"none"}, work : Works]]
  /\ hdl \in [Ops -> Contexts \cup {Invalid, OutOfRange}]
  /\ \A o \in Ops : OpOwner[o] \in Careful => hdl[o] # OutOfRange
  /\ table \in [1 .. MaxKeyHandles -> [in_use : BOOLEAN, owner : Clients \cup {NoClient},
                                       key : Ids \cup {NoClient}]]
  /\ keys \subseteq [owner : Clients, id : Ids, vendor : BOOLEAN]
  /\ mapped \in Seq(VolatileIds) /\ Len(mapped) <= NumVendorSlots
  /\ caller \in Clients

\* Contexts are neither lost nor shared: one in use by a careful client is
\* named by exactly one of its objects, of the context's type; every handle of
\* a careful client leads to such a context, whatever handles other clients
\* come with; and a free context is cleared, as the library expects of an
\* operation that is set up.
ContextsAccounted ==
  /\ \A h \in Contexts :
        /\ ~ctx[h].in_use => ctx[h] = FreeContext
        /\ ctx[h].owner \in Careful =>
              \E o \in Ops : {q \in Ops : hdl[q] = h /\ OpOwner[q] = ctx[h].owner} = {o}
                             /\ OpType[o] = ctx[h].type
  /\ \A o \in Ops :
        OpOwner[o] \in Careful /\ hdl[o] # Invalid => tfm_crypto_operation_lookup(o)

\* The identifiers of volatile keys are reused by the library, so an entry for
\* one must not outlive its key: the next owner of the identifier would be
\* refused, and the former one admitted.
VolatileEntriesExact ==
  \A i \in DOMAIN table :
    table[i].key \in VolatileIds =>
      /\ Entries(table[i].key) = {i}
      /\ Owned(table[i].owner, table[i].key) # {}

\* Whose key client c asked for when it got id.
Asked(c, id) == IF \E k \in Owned(c, id) : k.vendor THEN "vendor" ELSE "library"

\* Identifiers that no other client gives to a key of its own.
OwnIds(c) == {id \in Ids : \A d \in Clients \ {c} : id \notin ChosenIds[d]}

\* Identifiers in the vendor's table that no vendor key has any more.
StaleIds == {id \in Ids : Contains(mapped, id) /\ \A k \in keys : k.id = id => ~k.vendor}

\* Vendor keys whose client was told that they could not be opened.
RefusedIds(c) == {id \in Ids : Asked(c, id) = "vendor" /\ ~Contains(mapped, id)}

\* The keys client c may use.  Three kinds are left out, since what other clients do
\* can decide their fate: keys whose identifier another client chose too, of which
\* only the one entered first can be used; keys whose identifier a vendor key had
\* before, for which the vendor's back end signs; and the vendor keys just named.
KeysOf(c) ==
  {id \in OwnIds(c) \ (StaleIds \cup RefusedIds(c)) : tfm_crypto_check_handle_owner(c, id)}

Seen(c, id) == [id |-> id, asked |-> Asked(c, id), signer |-> tfm_crypto_sign_hash(c, id)]

CarefulOps == {o \in Ops : OpOwner[o] \in Careful}

Isolated == INSTANCE CryptoClients WITH
  Ops  <- CarefulOps,
  val  <- [o \in CarefulOps |-> IF hdl[o] \in Contexts THEN ctx[hdl[o]].work ELSE Zeroed],
  use  <- [c \in Clients |-> {Seen(c, id) : id \in KeysOf(c)}]

\* The operations of careful clients change by requests of their own client
\* only, as if nothing were shared.  So do everybody's keys and who signs with
\* them, except the keys KeysOf leaves out.
ClientsIsolated == Isolated!Spec
=============================================================================
