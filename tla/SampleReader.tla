---------------------------- MODULE SampleReader ----------------------------
(***************************************************************************)
(* Reading a part of a sample file (server/db/dir/reader.rs).  The range   *)
(* is mapped into memory from the boundary of a page, and handed out one   *)
(* chunk after another, each copied by a command of its own on the pool's  *)
(* workers.                                                                *)
(***************************************************************************)
EXTENDS Integers, Sequences

CONSTANTS
  PageSize,    \* bytes of a page, to which the mapping is aligned
  ReadBytes    \* bytes of a chunk, at most

ASSUME ReaderAssumption ==
  PageSize \in Nat \ {0} /\ ReadBytes \in Nat \ {0}

TooShort == [ok |-> FALSE]        \* the error of a file that ends too early

\* open_for_reading: the mapping, unless it would pass the end of the file.
Mapped(from, to, file_len) ==
  LET unaligned == from % PageSize
      offset    == from - unaligned
      map_len   == to - from + unaligned
  IN  IF file_len < offset + map_len THEN TooShort
      ELSE [ok |-> TRUE, offset |-> offset, map_pos |-> unaligned,
            map_len |-> map_len]

\* read_chunk_inner: where the chunk from pos ends.
ChunkEnd(reader, pos) ==
  IF reader.map_len <= pos + ReadBytes THEN reader.map_len ELSE pos + ReadBytes

\* The stream asks for the next chunk until one comes without a reader.  Each
\* is given by the first of its bytes in the file and the one after its last.
Chunks(reader) ==
  LET From[pos \in 0..reader.map_len] ==
        LET end == ChunkEnd(reader, pos)
        IN  << << reader.offset + pos, reader.offset + end >> >>
              \o (IF end = reader.map_len THEN << >> ELSE From[end])
  IN  From[reader.map_pos]

\* open_file, and the stream it returns read to its end.
ReadFile(from, to, file_len) ==
  IF from >= to THEN [ok |-> TRUE, chunks |-> << >>]
  ELSE LET reader == Mapped(from, to, file_len)
       IN  IF reader.ok THEN [ok |-> TRUE, chunks |-> Chunks(reader)]
           ELSE TooShort
=============================================================================
