-------------------------------- MODULE String --------------------------------
(***************************************************************************)
(* The strings of kernel/Containers/String.hpp and the paths made of them  *)
(* (kernel/FS/Path.cpp).  A text is a sequence of pieces, slashes and      *)
(* names; how many characters a piece has is what the buffers see of it.   *)
(***************************************************************************)
EXTENDS Naturals, Sequences, SequencesExt

CONSTANTS Inner,    \* sizeof(buffer_s), 32
          Width(_)  \* the characters of a piece

Characters(text) == FoldLeft(LAMBDA n, piece : n + Width(piece), 0, text)

\* buffer says whether the text is in a block of the heap.  over is not in the
\* code: the text has gone beyond its place, over the pointer to that block.
NewString == [text |-> <<>>, buffer |-> FALSE, length |-> 0, capacity |-> 0, over |-> FALSE]

\* A terminator that falls on the pointer, which is null, changes nothing.
Place(s) == IF s.buffer THEN s.capacity - 1 ELSE Inner

Put(s, text) == [s EXCEPT !.text = text, !.over = @ \/ Characters(text) > Place(s)]

\* What is in the old block is kept if the length says that there is something.
Realloc(s, least) ==
  LET doubled == 2 * IF s.buffer THEN s.capacity ELSE Inner
  IN [s EXCEPT !.buffer = TRUE, !.capacity = IF doubled <= least THEN least + 1 ELSE doubled,
               !.text = IF s.length > 0 THEN @ ELSE <<>>]

Assign(s, text, length) ==
  LET fits == IF s.buffer THEN s.capacity > length ELSE length < Inner + 1
      fresh == Realloc([s EXCEPT !.buffer = FALSE, !.length = 0], length + 1)
  IN [Put(IF fits THEN s ELSE fresh, text) EXCEPT !.length = length]

StringOf(text) == Assign(NewString, text, Characters(text))

\* The length stays what it was.
Add(s, text, length) ==
  LET needed == s.length + length
      fits == (~s.buffer /\ needed + 1 <= Inner) \/ s.capacity > needed + 1
      placed == IF fits THEN s ELSE Realloc(s, needed + 1)
  IN Put(placed, placed.text \o text)

AddChars(s, text) == Add(s, text, Characters(text))
AddString(s, t) == Add(s, t.text, t.length)

-----------------------------------------------------------------------------
Slash == "/"

\* The path of a text that begins with a slash and has names between slashes.
PathOf(text) == SelectSeq(text, LAMBDA piece : piece # Slash)

AddName(path, name) == Append(path, name)

GoUp(path) == IF path = <<>> THEN path ELSE Front(path)

\* The names of a path are strings too.
TextOf(path) ==
  IF path = <<>> THEN StringOf(<<Slash>>)
  ELSE FoldLeft(LAMBDA s, name : AddString(AddChars(s, <<Slash>>), StringOf(<<name>>)),
                NewString, path)
=============================================================================
