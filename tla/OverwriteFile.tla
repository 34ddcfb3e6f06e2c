---------------------------- MODULE OverwriteFile ----------------------------
(***************************************************************************)
(* What a file promises its users when it is written with the functions    *)
(* that overwrite (ouichefs_write, src/write.c, and the page cache,        *)
(* src/file.c): it is a sequence of bytes, a write replaces the bytes at   *)
(* the cursor with (a prefix of) the user's buffer and extends the file if *)
(* it ends behind it, and nothing else ever changes a byte.  Blocks, pages *)
(* and buffers are invisible here; module FileModes is shown to implement  *)
(* this specification.                                                     *)
(***************************************************************************)
EXTENDS Naturals, Sequences

CONSTANTS Byte,         \* the values of a byte; a gap is filled with 0
          Bufs,         \* the buffers users write
          MaxFileSize   \* OUICHEFS_MAX_FILESIZE

VARIABLE content

TypeOK == content \in Seq(Byte)

Init == content = <<>>

Larger(a, b) == IF a > b THEN a ELSE b

\* old with the bytes of buf at pos, after a gap if pos is past the end.
Overwritten(old, pos, buf) ==
  [i \in 1..Larger(Len(old), pos + Len(buf)) |->
     IF i \in pos+1..pos+Len(buf) THEN buf[i - pos]
     ELSE IF i <= Len(old) THEN old[i] ELSE 0]

\* A write may be short, or fail after the file was extended to its cursor.
CanOverwrite(old, new) ==
  \E pos \in 0..MaxFileSize, buf \in Bufs :
    /\ pos + Len(buf) <= MaxFileSize
    /\ \E m \in 0..Len(buf) : new = Overwritten(old, pos, SubSeq(buf, 1, m))

Write == \E old \in {content}, new \in {content'} : CanOverwrite(old, new)

Next == Write

Spec == Init /\ [][Next]_content
=============================================================================
