-------------------------------- MODULE Ustar --------------------------------
(***************************************************************************)
(* pax, ustar.cc: ustar_input() hands one record of REC_SZ octets after    *)
(* the other to ustar_input_record().  file_end is never called: nothing   *)
(* sets seen_first_block.                                                  *)
(*                                                                         *)
(* A member is [name, prefix, old, type, size, fault]; old means that the  *)
(* magic number of ustar is missing; fault "field" stands for a type or a  *)
(* number that is refused.                                                 *)
(***************************************************************************)
EXTENDS PaxArchive

CONSTANT WORD   \* the range of an unsigned int: data_bytes is one

REC_SZ == HDR
SLASH == 8

Encode(members, i) ==
  (IF members[i].fault = "cksum" THEN <<NUL>> \o Tail(Structure(i)) ELSE Structure(i))
  \o Contents(i, members[i].size)
  \o [j \in 1..((-members[i].size) % REC_SZ) |-> NUL]

ZeroRecord == [j \in 1..REC_SZ |-> NUL]

States == [in_archive : BOOLEAN, data_blocks : Nat, data_bytes : 0..(WORD - 1)]
Start == [in_archive |-> TRUE, data_blocks |-> 0, data_bytes |-> 0]

IsHeader(rec) == rec[1] = Octet("magic", 1) /\ \A j \in 2..HDR : rec[j].k = "fields"
GoodHeader(rec) == IsHeader(rec) /\ Member(rec[HDR]).fault # "field"

(* An old archive has no types: the name of a directory ends in a slash. *)
Stripped(m) == m.old /\ m.name # <<>> /\ Last(m.name) = SLASH
PathName(m) ==
  IF Stripped(m) THEN Front(m.name)
  ELSE IF m.old \/ m.prefix = <<>> \/ m.name = <<>> THEN m.name
  ELSE m.prefix \o <<SLASH>> \o m.name
Regular(m) == m.type = "file" /\ ~Stripped(m)

(* (2^64 - 1) / 512, rounded up, is 0 in an unsigned int. *)
Size(m) == IF m.fault = "size" THEN HUGE ELSE m.size
BlocksMutant(m) ==     \* the last record is forgotten if it is not full
  IF ~Regular(m) \/ m.fault = "size" THEN 0 ELSE m.size \div REC_SZ
Blocks(m) ==
  IF ~Regular(m) \/ m.fault = "size" THEN 0 ELSE (m.size + REC_SZ - 1) \div REC_SZ

ustar_hdr_record(rec) ==
  \/ ~GoodHeader(rec) /\ Garbage
  \/ IsHeader(rec) /\ ClearCrashes
  \/ /\ GoodHeader(rec)
     /\ LET m == Member(rec[HDR])
        IN /\ state' = [state EXCEPT !.data_blocks = Blocks(m),
                          !.data_bytes = IF Regular(m) THEN Size(m) % WORD ELSE 0]
           /\ file_start([name |-> Chars(PathName(m)), size |-> Size(m)])
     /\ UNCHANGED status

LastBytesMutant(rec) == rec     \* the padding of the last record is data too
LastBytes(rec) == SubSeq(rec, 1, state.data_bytes)

ustar_data_record(rec) ==
  /\ \/ /\ state.data_blocks > 1
        /\ file_data(rec)
        /\ state' = [state EXCEPT !.data_blocks = @ - 1,
                                  !.data_bytes = (@ - REC_SZ) % WORD]
     \/ /\ state.data_blocks = 1
        /\ file_data(LastBytes(rec))
        /\ state' = [state EXCEPT !.data_blocks = 0, !.data_bytes = 0]
  /\ UNCHANGED status

(* FIXME of the code: one zero record ends the archive, not two *)
Record ==
  LET rec == Take(REC_SZ)
  IN /\ Parsing("ustar") /\ state.in_archive /\ Len(buf) >= REC_SZ
     /\ Swallow(REC_SZ)
     /\ \/ state.data_blocks > 0 /\ ustar_data_record(rec)
        \/ /\ state.data_blocks = 0 /\ rec = ZeroRecord
           /\ state' = [state EXCEPT !.in_archive = FALSE]
           /\ UNCHANGED <<status, calls>>
        \/ state.data_blocks = 0 /\ rec # ZeroRecord /\ ustar_hdr_record(rec)

(***************************************************************************)
(* Less than a record in the buffer is PXE_TRUNCATED, be it the end of the *)
(* archive or only what a pipe had to give.                                *)
(***************************************************************************)
Truncated ==
  /\ Parsing("ustar") /\ state.in_archive /\ Len(buf) < REC_SZ
  /\ Garbage
  /\ UNCHANGED buf

EndArchive ==
  Parsing("ustar") /\ ~state.in_archive /\ buf' = <<>> /\ UNCHANGED <<state, status, calls>>

Input == (Record \/ Truncated \/ EndArchive) /\ UNCHANGED <<archive, offset>>
=============================================================================
