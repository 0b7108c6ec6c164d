----------------------------- MODULE ItsFileStore -----------------------------
(***************************************************************************)
(* What the ITS flash file system promises its service: a store of files,  *)
(* each a sequence of bytes with a write-once flag.  A set writes a file   *)
(* in chunks; each chunk takes effect as a whole; nothing but the file     *)
(* named by the request ever changes; a file that was created write-once   *)
(* is only written by the request that creates it.                         *)
(***************************************************************************)
EXTENDS Naturals, Sequences

CONSTANTS
  Fids,      \* file identifiers
  Values,    \* what the client sends; byte i of a request is <<v, i>>
  Sizes,     \* sizes a client may ask for
  NoFid

VARIABLES
  files,     \* the files, absent ones are NoFile
  writer     \* the file the current request is writing, or NoFid

NoFile == [data |-> <<>>, once |-> FALSE, present |-> FALSE]

File(s, once) == [data |-> s, once |-> once, present |-> TRUE]

Chunk(v, from, n) == [i \in 1 .. n |-> <<v, from + i>>]

Init ==
  /\ files = [f \in Fids |-> NoFile]
  /\ writer = NoFid

\* The first chunk of a set creates or truncates the file.
Put(f, v, n, once) ==
  /\ writer = NoFid
  /\ ~files[f].once
  /\ files' = [files EXCEPT ![f] = File(Chunk(v, 0, n), once)]
  /\ writer' \in {f, NoFid}

\* Further chunks of the same set.
Extend(f, v, n) ==
  /\ writer = f
  /\ files[f].present
  /\ files' = [files EXCEPT ![f].data = @ \o Chunk(v, Len(@), n)]
  /\ writer' \in {f, NoFid}

\* The request ends, by an error or by a power failure.
Stop ==
  /\ writer # NoFid
  /\ writer' = NoFid
  /\ UNCHANGED files

Remove(f) ==
  /\ writer = NoFid
  /\ files[f].present /\ ~files[f].once
  /\ files' = [files EXCEPT ![f] = NoFile]
  /\ UNCHANGED writer

Next ==
  \/ Stop
  \/ \E f \in Fids :
       \/ Remove(f)
       \/ \E v \in Values, size \in Sizes : \E n \in 0 .. size :
            \/ \E once \in BOOLEAN : Put(f, v, n, once)
            \/ Extend(f, v, n)

Spec == Init /\ [][Next]_<<files, writer>>

=============================================================================
