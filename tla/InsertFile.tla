----------------------------- MODULE InsertFile -----------------------------
(***************************************************************************)
(* What a file promises its users when it is written with                  *)
(* ouichefs_light_write ("Write with insertion", src/write.c): it is a     *)
(* sequence of bytes, a write inserts (a prefix of) the user's buffer at   *)
(* the cursor and pushes the old bytes to the right, a cursor past the end *)
(* first extends the file with gap bytes, and nothing else ever changes a  *)
(* byte.  Block boundaries, padding and defragmentation are invisible      *)
(* here; module LightFile is shown to implement this specification.        *)
(***************************************************************************)
EXTENDS Naturals, Sequences

CONSTANTS Byte,         \* the values of a byte
          Gap,          \* the bytes a gap may hold: {0} if it reads as zeros
          Bufs,         \* the buffers users write
          MaxFileSize   \* OUICHEFS_MAX_FILESIZE

VARIABLE content

TypeOK == content \in Seq(Byte)

Init == content = <<>>

\* new is old with buf inserted at pos, after a gap if pos is past the end.
IsInsertion(old, new, pos, buf) ==
  LET n == Len(buf)
  IN  /\ Len(new) = n + (IF pos > Len(old) THEN pos ELSE Len(old))
      /\ \A i \in 1..Len(new) :
           \/ i <= pos /\ i <= Len(old) /\ new[i] = old[i]
           \/ i <= pos /\ i > Len(old) /\ new[i] \in Gap
           \/ i \in pos+1..pos+n /\ new[i] = buf[i - pos]
           \/ i > pos + n /\ new[i] = old[i - n]

\* A write may be short, or fail after the gap was filled: the first m bytes
\* of the buffer are inserted, possibly none.
CanInsert(old, new) ==
  \E pos \in 0..MaxFileSize, buf \in Bufs :
    /\ pos + Len(buf) <= MaxFileSize
    /\ \E m \in 0..Len(buf) : IsInsertion(old, new, pos, SubSeq(buf, 1, m))

\* (The singletons make TLC evaluate the refinement mapping once per step.)
Write == \E old \in {content}, new \in {content'} : CanInsert(old, new)

Next == Write

Spec == Init /\ [][Next]_content
=============================================================================
