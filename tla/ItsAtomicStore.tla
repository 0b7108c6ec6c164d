--------------------------- MODULE ItsAtomicStore ---------------------------
(***************************************************************************)
(* What the two-metadata-block commit protocol of the ITS flash file       *)
(* system promises to the code above it, whatever the moment at which      *)
(* power is lost: the image a boot would find in flash changes only by     *)
(* whole block updates.  There is no state between two images.  On some    *)
(* flash parts the file table of an update may be damaged, see Damage.     *)
(*                                                                         *)
(* An image is the contents of logical block 0 (the file table and the     *)
(* data kept beside it) and of every dedicated logical data block.         *)
(***************************************************************************)
CONSTANTS
  LBlocks,   \* dedicated logical data blocks
  Values,    \* contents an update may write
  EmptyFs,   \* contents of logical block 0 after a format
  Erased,    \* contents of an erased block
  Torn,      \* contents nobody may rely on (no file system yet)
  Damaged,   \* a file table that was programmed twice
  Merging    \* TRUE if replacements may be refused on a flash part that merges
             \* what is programmed twice

VARIABLE image

NoImage == [lb0 |-> Torn, data |-> [l \in LBlocks |-> Torn]]

FormattedImage == [lb0 |-> EmptyFs, data |-> [l \in LBlocks |-> Erased]]

\* The image after an update of logical block l (0: only the block that holds
\* the file table) with contents v.
Updated(img, l, v) ==
  [lb0  |-> v,
   data |-> [m \in LBlocks |-> IF m = l THEN v ELSE img.data[m]]]

Init == image = NoImage

\* tfm_its_init() creates a file system when it finds none.
Format ==
  /\ image = NoImage
  /\ image' = FormattedImage

\* When preparing the file system fails at boot, tfm_its_init() erases it.
Discard ==
  /\ image # NoImage
  /\ image' = NoImage

\* One file write or delete takes effect as a whole.
Commit(l, v) ==
  /\ image # NoImage
  /\ image' = Updated(image, l, v)

\* After a refused replacement such a part may damage the file table of an update,
\* which then takes effect as a whole all the same.
Damage(l, v) ==
  /\ Merging
  /\ image # NoImage
  /\ image' = [Updated(image, l, v) EXCEPT !.lb0 = Damaged]

Next ==
  \/ Format \/ Discard
  \/ \E l \in LBlocks \cup {0}, v \in Values : Commit(l, v) \/ Damage(l, v)

Spec == Init /\ [][Next]_image

=============================================================================
