--------------------------------- MODULE Pax ---------------------------------
(***************************************************************************)
(* pax in list mode: pax_read_archive() reads blocks and gives them to the *)
(* input() of the format the user named.  read(2) returns as much as it    *)
(* likes of what a pipe has, so a block ends anywhere, and so may the      *)
(* archive.                                                                *)
(*                                                                         *)
(* The other modes are left out: nothing sets file_start for them.         *)
(***************************************************************************)
EXTENDS FiniteSets, PaxArchive

CONSTANTS
  WORD, OUTBUF_SZ, Ratio,
  BlockSize,  \* block_size
  Archives,   \* [format, members, padding]: what is listed, and how many zero
              \* octets fill its last block
  Pipe        \* TRUE iff the archive is read from a pipe

(* ustar_blksz_check: the format pax checks that too, the others do not *)
ASSUME PaxAssumption ==
  /\ BlockSize \in Nat \ {0}
  /\ HDR \in 2..(WORD - 1) \* 512 octets, and less than an unsigned int holds
  /\ BlockSize % HDR = 0
  /\ WORD \in Nat /\ WORD % HDR = 0

cpio == INSTANCE Cpio
ustar == INSTANCE Ustar
zip == INSTANCE Zip

vars == <<archive, offset, buf, state, status, calls>>

Encode(a, i) ==
  CASE a.format = "cpio" -> cpio!Encode(a.members, i)
    [] a.format = "ustar" -> ustar!Encode(a.members, i)
    [] a.format = "zip" -> zip!Encode(a.members, i)
    [] a.format = "pax" -> <<NUL>>

Contained(a) == [i \in 1..Len(a.members) |-> Encode(a, i)]
Padding(n) == [j \in 1..n |-> NUL]

(* pax_init_formats, and input_init of the format *)
input_init(format) ==
  CASE format = "cpio" -> cpio!Start
    [] format = "ustar" -> ustar!Start
    [] format = "zip" -> zip!Start
    [] format = "pax" -> <<>>

Init ==
  /\ \E a \in Archives :
       /\ archive = [format |-> a.format, members |-> a.members,
                     octets |-> FlattenSeq(Contained(a)) \o Padding(a.padding)]
       /\ state = input_init(a.format)
  /\ offset = 0 /\ buf = <<>> /\ status = "open"
  /\ listed = <<>> /\ data = <<>> /\ ended = 0

Left == Len(archive.octets) - offset
Full == IF Left < BlockSize THEN Left ELSE BlockSize

Read(n) ==
  /\ status = "open" /\ buf = <<>>
  /\ n = Full \/ Pipe
  /\ buf' = SubSeq(archive.octets, offset + 1, offset + n)
  /\ offset' = offset + n
  /\ UNCHANGED <<archive, state, status, calls>>

(* read(2) fails, or finds that the archive ends here, whole or not *)
ReadEnds(s) ==
  /\ status = "open" /\ buf = <<>>
  /\ status' = s
  /\ UNCHANGED <<archive, offset, buf, state, calls>>

(* pax_input() of the format pax: TODO *)
PaxInput == Parsing("pax") /\ Garbage /\ UNCHANGED <<archive, offset, buf>>

Reads == (\E n \in 1..Full : Read(n)) \/ ReadEnds("done") \/ ReadEnds("error")
Inputs == cpio!Input \/ ustar!Input \/ zip!Input \/ PaxInput
Done == status # "open" /\ UNCHANGED vars

Next == Reads \/ Inputs \/ Done
Spec == Init /\ [][Next]_vars
FairSpec == Spec /\ WF_vars(Reads \/ Inputs)
-----------------------------------------------------------------------------
(***************************************************************************)
(* What an archive says, however it is read: the positions at which the    *)
(* octets before them settle that a member is listed, that this is not an  *)
(* archive, or that it ends.                                               *)
(***************************************************************************)
Members == DOMAIN archive.members
M(i) == archive.members[i]
Before(i) == Len(FlattenSeq([j \in 1..(i - 1) |-> Encode(archive, j)]))
Header(i) == Before(i) + HDR

Mark(at, what, i) == [at |-> at, what |-> what, i |-> i]

CpioNamed(i) == Header(i) + Len(M(i).name)
CpioMarks(i) ==
  IF M(i).fault \in {"magic", "field"} THEN {Mark(Header(i), "garbage", i)}
  ELSE IF M(i).name = <<cpio!TRAILER>> THEN {Mark(CpioNamed(i), "end", i)}
  ELSE {Mark(CpioNamed(i), "list", i)} \cup
       (IF M(i).fault = "size" THEN {Mark(CpioNamed(i), "end", i)} ELSE {})

UstarHasData(i) == ustar!Regular(M(i)) /\ M(i).fault # "size"
UstarMarks(i) ==
  IF M(i).fault \in {"cksum", "field"} THEN {Mark(Header(i), "garbage", i)}
  ELSE {Mark(Header(i), "list", i)} \cup
       (IF M(i).size > 0 /\ ~UstarHasData(i)
        THEN {Mark(Header(i) + HDR, "garbage", i)} ELSE {})

ZipNamed(i) == Header(i) + HDR + Len(M(i).name) + Len(M(i).extra)
ZipData(i) == IF M(i).method = 0 THEN M(i).size_u ELSE M(i).stream
ZipMarks(i) ==
  LET refused(at) == {Mark(at, "garbage", i)}
  IN CASE M(i).sig \notin zip!Signatures -> refused(Header(i))
       [] M(i).sig \in {"dir", "end"} -> {}
       [] M(i).method \notin {0, 8} -> refused(Header(i) + HDR)
       [] \E j \in DOMAIN M(i).extra : zip!Overlong(Octet("extra", M(i).extra[j])) ->
            refused(ZipNamed(i))
       [] OTHER -> {Mark(ZipNamed(i), "list", i)} \cup
                   (IF M(i).size_c < M(i).stream THEN refused(ZipNamed(i) + M(i).size_c)
                    ELSE IF ~M(i).crc THEN refused(ZipNamed(i) + ZipData(i))
                    ELSE IF M(i).size_c = M(i).stream THEN {}
                    ELSE {Mark(ZipNamed(i) + M(i).stream, "end", i)})

(* Zero octets after the last member: in cpio and zip they are no header. *)
Padded ==
  LET at == Before(Len(archive.members) + 1) + HDR
  IN IF at > Len(archive.octets) THEN {}
     ELSE {Mark(at, IF archive.format = "ustar" THEN "end" ELSE "garbage", 0)}

AllMarks ==
  CASE archive.format = "cpio" -> Padded \cup UNION {CpioMarks(i) : i \in Members}
    [] archive.format = "ustar" -> Padded \cup UNION {UstarMarks(i) : i \in Members}
    [] archive.format = "zip" -> Padded \cup UNION {ZipMarks(i) : i \in Members}
    [] archive.format = "pax" -> {Mark(0, "garbage", 0)}

Stops == {m \in AllMarks : m.what # "list"}
IsFirst(m) == m \in Stops /\ \A s \in Stops : m.at <= s.at
Stopped(what, n) == \E m \in Stops : IsFirst(m) /\ m.what = what /\ m.at <= n
ListMarks == {m \in AllMarks : m.what = "list" /\ \A s \in Stops : m.at <= s.at}
ListMark(k) == CHOOSE m \in ListMarks : Cardinality({o \in ListMarks : o.at <= m.at}) = k
ListedBy(n) == Cardinality({m \in ListMarks : m.at <= n})

Swallowed == offset - Len(buf)
AllSwallowed == buf = <<>> /\ status \in {"open", "done"}

Info(i) ==
  CASE archive.format = "cpio" -> [name |-> CStr(M(i).name), size |-> cpio!Size(M(i))]
    [] archive.format = "ustar" ->
         [name |-> Chars(ustar!PathName(M(i))), size |-> ustar!Size(M(i))]
    [] archive.format = "zip" ->
         FoldLeft(zip!ReadExtra,
                  [name |-> M(i).name, size |-> M(i).size_u, mtime |-> "hdr", uid |-> "none"],
                  [j \in DOMAIN M(i).extra |-> Octet("extra", M(i).extra[j])])

(***************************************************************************)
(* Whatever the reads, pax lists the members in order, each once and with  *)
(* its own name, size, owner and time, none before its name is complete    *)
(* and each at the latest with the octet after it (cpio_input, ustar_input *)
(* and zip_input over pax_read_archive).                                   *)
(***************************************************************************)
ListsWhatWasRead ==
  /\ Len(listed) <= ListedBy(Swallowed)
  /\ AllSwallowed => Len(listed) >= ListedBy(offset - 1)
  /\ \A k \in DOMAIN listed : listed[k] = Info(ListMark(k).i)

(***************************************************************************)
(* pax refuses an archive for what is wrong with it and never for where a  *)
(* read ended, except within a record of a ustar archive; and it refuses   *)
(* it at the latest with the octet after the fault.                        *)
(***************************************************************************)
RefusesOnlyGarbage ==
  /\ status = "failed" =>
       \/ Stopped("garbage", Swallowed)
       \/ archive.format = "ustar" /\ offset % HDR # 0
  /\ AllSwallowed => ~Stopped("garbage", offset - 1)

(***************************************************************************)
(* file_data gets the data of the member listed last, octet for octet as   *)
(* far as they are read, never a header or padding; where file_end is      *)
(* called at all it is called once for every member, after its data and    *)
(* before the next member.                                                 *)
(***************************************************************************)
DataFrom(i) ==
  CASE archive.format = "cpio" -> CpioNamed(i)
    [] archive.format = "ustar" -> Header(i)
    [] archive.format = "zip" -> ZipNamed(i)
DataTo(i) ==
  CASE archive.format = "cpio" -> CpioNamed(i) + cpio!Size(M(i))
    [] archive.format = "ustar" ->
         Header(i) + (IF UstarHasData(i) THEN M(i).size ELSE 0)
    [] archive.format = "zip" -> ZipNamed(i) + ZipData(i)
Deflated(i) == archive.format = "zip" /\ M(i).method = 8

DataInPlace ==
  /\ listed # <<>> =>
       LET i == ListMark(Len(listed)).i
           read == IF Swallowed < DataTo(i) THEN Swallowed ELSE DataTo(i)
           complete == ended = Len(listed)
       IN /\ IF Deflated(i)
             THEN /\ IsPrefix(data, Contents(i, M(i).size_u))
                  /\ complete => data = Contents(i, M(i).size_u)
             ELSE data = SubSeq(archive.octets, DataFrom(i) + 1, read)
          /\ complete => Swallowed >= DataTo(i)
  /\ IF archive.format = "ustar" THEN ended = 0
     ELSE ended \in {Len(listed), Len(listed) - 1}

(***************************************************************************)
(* pax comes to an end: no case of input() waits for an octet it has       *)
(* already got, or goes round without taking one.                          *)
(***************************************************************************)
Terminates == <>(status # "open")
=============================================================================
