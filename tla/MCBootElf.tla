----------------------------- MODULE MCBootElf ------------------------------
(* Pages of four bytes, a load window of pages 2 to 6 in an address space   *)
(* of 40 bytes, ELF headers of 4 and program headers of 2 bytes.  A table   *)
(* has up to four headers, one load segment more than the limit: segments   *)
(* that touch, share a page only when rounded up, overlap, run backwards or *)
(* leave the window, and one header for each other error.                   *)
EXTENDS BootElf

Segment(flags, start, size) ==
  [kind |-> PT_LOAD, flags |-> flags, file_offset |-> start % 8, virtual_address |-> start,
   physical_address |-> start, file_size |-> 1, memory_size |-> size, alignment |-> 4]

Text == Segment({"R", "X"}, 8, 6)

GoodHeaders ==
  {Text, Segment({"R", "X"}, 8, 4), Segment({"R", "X"}, 12, 4), Segment({"R", "W"}, 16, 4),
   Segment({"R", "W"}, 16, 6), Segment({"R", "W"}, 20, 4), Segment({"R"}, 24, 4)}

OtherHeaders ==
  {[Text EXCEPT !.kind = PT_NULL], [Text EXCEPT !.kind = 2],
   [Text EXCEPT !.flags = {"R", "other"}], [Text EXCEPT !.flags = {"X"}],
   [Text EXCEPT !.flags = {"R", "W", "X"}], [Text EXCEPT !.memory_size = 0],
   [Text EXCEPT !.file_size = 7], [Text EXCEPT !.file_offset = 39],
   [Text EXCEPT !.file_offset = 16], [Text EXCEPT !.virtual_address = 12],
   [Text EXCEPT !.alignment = 6], [Text EXCEPT !.alignment = 16],
   [Text EXCEPT !.file_offset = 1], Segment({"R"}, 10, 4), Segment({"R"}, 4, 4),
   Segment({"R"}, 24, 6), Segment({"R"}, 24, 16),
   [Segment({"R"}, 16, 4) EXCEPT !.alignment = 8]}

MCHeaders == GoodHeaders \union OtherHeaders

Frame(size, identified, supported, entry, offset, count) ==
  [size |-> size, identified |-> identified, supported |-> supported, entry |-> entry,
   program_header_offset |-> offset, program_header_count |-> count]

(* Sound frames, and one for each error of the ELF header. *)
MCFrames ==
  {Frame(16, TRUE, TRUE, 9, 4, count) : count \in 0 .. 5}
    \union {Frame(16, TRUE, TRUE, 16, 4, count) : count \in 1 .. 3}
    \union {Frame(3, TRUE, TRUE, 9, 4, 1), Frame(17, TRUE, TRUE, 9, 4, 1),
            Frame(5, TRUE, TRUE, 9, 4, 1), Frame(16, FALSE, TRUE, 9, 4, 1),
            Frame(16, TRUE, FALSE, 9, 4, 1), Frame(16, TRUE, TRUE, 9, 3, 1),
            Frame(16, TRUE, TRUE, 9, 39, 1), Frame(16, TRUE, TRUE, 7, 4, 1),
            Frame(16, TRUE, TRUE, 28, 4, 1)}
=============================================================================
