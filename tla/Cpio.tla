-------------------------------- MODULE Cpio --------------------------------
(***************************************************************************)
(* The archive reader of initrd.c.  An archive in the newc format is the   *)
(* sequence of its entries, each a header of 110 bytes, the name and the   *)
(* data, both padded to 4 bytes; Headers gives the place of each header.   *)
(* A name is whether "./" stands before it, and the rest.  `end` is        *)
(* initrd_end, counted from initrd_start.                                  *)
(***************************************************************************)
EXTENDS Integers, Sequences

HeaderSize == 110
Align4(n) == ((n + 3) \div 4) * 4
Failed == -1

Header(dot, name, namesize, filesize) ==
  [dot |-> dot, name |-> name, namesize |-> namesize, filesize |-> filesize]

IsTrailer(e) == ~e.dot /\ e.name = "TRAILER!!!"

\* filename_match: the name as it is, or without its "./".
FilenameMatch(e, want) ==
  \/ e.dot = want.dot /\ e.name = want.name
  \/ e.dot /\ ~want.dot /\ e.name = want.name

DataOff(e) == Align4(HeaderSize + e.namesize)

\* Mutant: the data is not padded.
MutNextOff(e) == DataOff(e) + e.filesize

NextOff(e) == Align4(DataOff(e) + e.filesize)

\* The format: each entry begins where the one before it ends, data padded.
IsNewc(entries, headers) ==
  LET n == Len(entries)
  IN  /\ n \in Nat /\ DOMAIN entries = 1 .. n /\ DOMAIN headers = 1 .. n
      /\ n > 0 => headers[1] = 0
      /\ \A k \in 1 .. n :
           LET e == entries[k]
           IN  /\ e.dot \in BOOLEAN /\ e.namesize \in Nat /\ e.filesize \in Nat
               /\ k < n => headers[k + 1] =
                            headers[k] + Align4(Align4(HeaderSize + e.namesize) + e.filesize)

\* The entry whose header is at p, if a header is there.
HeaderAt(headers, p) == {k \in DOMAIN headers : headers[k] = p}

\* initrd_find_file: the place of the data of the file, or Failed.
FindFile(archive, headers, end, want) ==
  LET find[p \in Nat] ==
        IF p + HeaderSize > end THEN Failed
        ELSE IF HeaderAt(headers, p) = {} THEN Failed          \* bad magic
        ELSE LET e == archive[CHOOSE k \in HeaderAt(headers, p) : TRUE]
             IN  IF p + HeaderSize + e.namesize > end THEN Failed
                 ELSE IF IsTrailer(e) THEN Failed
                 ELSE IF p + DataOff(e) + e.filesize > end THEN Failed
                 ELSE IF FilenameMatch(e, want) THEN p + DataOff(e)
                 ELSE find[p + NextOff(e)]
  IN  IF end > 0 THEN find[0] ELSE Failed

\* initrd_list: the places of the entries it prints.  Like initrd_cat it looks only
\* at initrd_end between entries.
List(archive, headers, end) ==
  LET list[p \in Nat] ==
        IF HeaderAt(headers, p) = {} THEN <<>>
        ELSE LET k == CHOOSE j \in HeaderAt(headers, p) : TRUE
                 e == archive[k]
             IN  IF IsTrailer(e) THEN <<>>
                 ELSE <<k>> \o (IF p + NextOff(e) >= end THEN <<>> ELSE list[p + NextOff(e)])
  IN  IF end > 0 THEN list[0] ELSE <<>>

\* initrd_cat: the place of the data it prints, or Failed.
Cat(archive, headers, end, want) ==
  LET cat[p \in Nat] ==
        IF HeaderAt(headers, p) = {} THEN Failed
        ELSE LET e == archive[CHOOSE k \in HeaderAt(headers, p) : TRUE]
             IN  IF IsTrailer(e) THEN Failed
                 ELSE IF FilenameMatch(e, want) THEN p + DataOff(e)
                 ELSE IF p + NextOff(e) >= end THEN Failed
                 ELSE cat[p + NextOff(e)]
  IN  IF end > 0 THEN cat[0] ELSE Failed

\* user_load_image_from_initrd: an empty image or one that is too large is refused.
LoadImage(archive, headers, end, want, max) ==
  LET at == FindFile(archive, headers, end, want)
      e == archive[CHOOSE k \in DOMAIN archive : headers[k] + DataOff(archive[k]) = at]
  IN  IF at = Failed \/ e.filesize = 0 \/ e.filesize > max THEN Failed ELSE at
=============================================================================
