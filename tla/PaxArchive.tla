------------------------------ MODULE PaxArchive ------------------------------
(***************************************************************************)
(* pax, main.cc: the archive that is listed, the block pax_read_archive()  *)
(* has read of it, and the operations table pax_ops through which main.cc  *)
(* and the parsers of the formats (Cpio, Ustar, Zip) call each other.      *)
(*                                                                         *)
(* An archive is a sequence of octets, each with the part it is of.  What  *)
(* the fields of a header say is looked up in members: an octet "fields"   *)
(* has the number of its member as value.                                  *)
(***************************************************************************)
EXTENDS Integers, SequencesExt

CONSTANTS
  HDR,        \* octets in a header, and in any other structure of fixed size
  HUGE        \* a size no archive has: what a size that is not octal becomes

VARIABLES
  archive,    \* [format, members, octets]
  offset,     \* octets read(2) has returned so far
  buf,        \* buf_in: those of them input() has not swallowed yet
  state,      \* the format's global_state
  status,     \* "open" while the archive is read, then how that ended
  listed,     \* the calls of file_start: what pax_list() was given
  data,       \* what file_data was given since the last of them
  ended       \* how often file_end was called

calls == <<listed, data, ended>>

Octets == [k : {"nul", "char", "magic", "fields", "extra", "data", "z"}, v : Nat]
Octet(kind, value) == [k |-> kind, v |-> value]
NUL == Octet("nul", 0)
Structure(i) == <<Octet("magic", 1)>> \o [j \in 1..(HDR - 1) |-> Octet("fields", i)]
Chars(s) == [j \in 1..Len(s) |-> Octet("char", s[j])]
Contents(i, n) == [j \in 1..n |-> Octet("data", 10 * i + j)]
Member(octet) == archive.members[octet.v]

(***************************************************************************)
(* The buffer: what the next n octets are, as far as there are that many,  *)
(* and SWALLOW(n).                                                         *)
(***************************************************************************)
Take(n) == SubSeq(buf, 1, IF n < Len(buf) THEN n ELSE Len(buf))
Swallow(n) == buf' = SubSeq(buf, n + 1, Len(buf))

(* input() runs while there is anything in the buffer. *)
Parsing(format) == archive.format = format /\ status = "open" /\ buf # <<>>

(* input() returns an error; pax_read_archive() gives up *)
Garbage == status' = "failed" /\ UNCHANGED <<state, calls>>

(***************************************************************************)
(* pax_fi_clear() fills a pax_file_info with zeros, and the first one is   *)
(* zero already: clear() and assign() of its strings then work on a string *)
(* object that is all zeros.  Where the library takes that for an empty    *)
(* string pax goes on, elsewhere it crashes.                               *)
(***************************************************************************)
ClearCrashes == status' = "crashed" /\ UNCHANGED <<state, calls>>

file_start(fi) == listed' = Append(listed, fi) /\ data' = <<>> /\ UNCHANGED ended
file_data(octets) == data' = data \o octets /\ UNCHANGED <<listed, ended>>
file_end == ended' = ended + 1 /\ UNCHANGED <<listed, data>>

(* What printf("%s") shows of a name: it stops at a NUL. *)
CStr(name) ==
  LET nuls == {j \in 1..Len(name) : name[j] = NUL}
  IN IF nuls = {} THEN name ELSE SubSeq(name, 1, Min(nuls) - 1)
=============================================================================
