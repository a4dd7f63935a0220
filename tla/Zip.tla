---------------------------------- MODULE Zip ----------------------------------
(***************************************************************************)
(* pax, zip.cc: zip_input() as the state machine it is, one action per     *)
(* case of its switch.  A part of the archive that is to be collected is   *)
(* scheduled with zip_sched_buf() and filled by zip_sched_do(), as often   *)
(* as the buffer runs out in between.                                      *)
(*                                                                         *)
(* The members of an archive are files and, after them, the entries of the *)
(* central directory: [sig, name, extra, comment, method, size_u, size_c,  *)
(* stream, desc, crc].  A deflated file has a stream of stream octets,     *)
(* which inflates to size_u; size_c is the length its header gives, 0 if   *)
(* that was not known when the header was written.                         *)
(***************************************************************************)
EXTENDS PaxArchive

CONSTANTS
  OUTBUF_SZ,  \* octets inflate() may put out at a time
  Ratio       \* octets one octet of a deflate stream inflates to

Signatures == {"file", "dir", "end"}

Encode(members, i) ==
  LET m == members[i]
      packed == [j \in 1..Max({m.size_c, m.stream}) |-> Octet("z", j)]
  IN <<Octet("magic", IF m.sig \in Signatures THEN 1 ELSE 0)>> \o Tail(Structure(i))
     \o Structure(i) \o m.name \o [j \in 1..Len(m.extra) |-> Octet("extra", m.extra[j])]
     \o m.comment
     \o (IF m.sig # "file" THEN <<>>
         ELSE IF m.method = 8 THEN packed ELSE Contents(i, m.size_u))
     \o (IF m.sig = "file" /\ m.desc THEN Structure(i) ELSE <<>>)

Collecting == {"ZS_BEGIN_REC", "ZS_FILE_HDR", "ZS_FILE_NAME", "ZS_EXTRA",
               "ZS_DATA_DESC", "ZS_CENTRAL_DIR", "ZS_END_CENTRAL", "ZS_SKIP_BYTES"}
Handling == {"ZS_HANDLE_REC", "ZS_FILE_HDR_END", "ZS_FLUSH_HDR", "ZS_DATA", "ZS_DATA_SKIP",
             "ZS_EOR_FILE", "ZS_EOR", "ZS_CENTRAL_DIR_END", "ZS_END_CENTRAL_END"}

(***************************************************************************)
(* got: what has been collected, in whichever buffer it goes to; sch: what *)
(* is scheduled, where sch_buf # NULL.  The skipping of ZS_SKIP_BYTES has  *)
(* no buffer and is scheduled all the same.                                *)
(***************************************************************************)
None == [on |-> FALSE, len |-> 0, next |-> "ZS_EOR"]
sched(n, next) == [on |-> TRUE, len |-> n, next |-> next]
Schedules == [on : BOOLEAN, len : Nat, next : Handling \cup Collecting]
States == [input_state : Collecting \cup Handling, sch : Schedules, got : Seq(Octets),
           signature : Seq(Octets), hdr : Seq(Octets), name : Seq(Octets),
           extra : Seq(Octets), data_bytes : Nat, in : Nat, out : Nat]
Start == [input_state |-> "ZS_BEGIN_REC", sch |-> None, got |-> <<>>, signature |-> <<>>,
          hdr |-> <<>>, name |-> <<>>, extra |-> <<>>, data_bytes |-> 0, in |-> 0, out |-> 0]

At(s) == Parsing("zip") /\ state.input_state = s
hdr == Member(state.hdr[HDR])     \* input_hdr, and the central directory's
Keep == UNCHANGED <<status, calls>>
Move(s) == state' = [state EXCEPT !.input_state = s] /\ Keep

CollectMutant(at, into, n, next) ==     \* scheduled again when the buffer had run out
  LET taken == Take(n)
  IN /\ At(at)
     /\ Swallow(Len(taken))
     /\ state' = IF Len(taken) = n
                 THEN [state EXCEPT !.input_state = next, ![into] = taken]
                 ELSE state
     /\ Keep

Collect(at, into, n, next) ==
  LET sch == IF state.sch.on THEN state.sch ELSE sched(n, next)
      taken == Take(sch.len - Len(state.got))
      got == state.got \o taken
  IN /\ At(at)
     /\ Swallow(Len(taken))
     /\ state' = IF Len(got) = sch.len
                 THEN [state EXCEPT !.input_state = sch.next, ![into] = got,
                                    !.sch = None, !.got = <<>>]
                 ELSE [state EXCEPT !.sch = sch, !.got = got]
     /\ Keep

BeginRec == Collect("ZS_BEGIN_REC", "signature", HDR, "ZS_HANDLE_REC")
FileHdr == Collect("ZS_FILE_HDR", "hdr", HDR, "ZS_FILE_HDR_END")
FileName == Collect("ZS_FILE_NAME", "name", Len(hdr.name), "ZS_EXTRA")
Extra == Collect("ZS_EXTRA", "extra", Len(hdr.extra), "ZS_FLUSH_HDR")
DataDesc == Collect("ZS_DATA_DESC", "got", HDR, "ZS_EOR_FILE")
CentralDir == Collect("ZS_CENTRAL_DIR", "hdr", HDR, "ZS_CENTRAL_DIR_END")
EndCentral == Collect("ZS_END_CENTRAL", "hdr", HDR, "ZS_END_CENTRAL_END")
SkipBytes == Collect("ZS_SKIP_BYTES", "got", 0, "ZS_EOR")

Known == /\ state.signature[1] = Octet("magic", 1)
         /\ \A j \in 2..HDR : state.signature[j].k = "fields"

HandleRec ==
  /\ At("ZS_HANDLE_REC")
  /\ \/ ~Known /\ Garbage
     \/ /\ Known
        /\ LET sig == Member(state.signature[HDR]).sig
           IN \/ sig = "file" /\ Move("ZS_FILE_HDR")
              \/ sig = "dir" /\ Move("ZS_CENTRAL_DIR")
              \/ sig = "end" /\ Move("ZS_END_CENTRAL")
  /\ UNCHANGED buf

(* zip_file_hdr_end *)
FileHdrEnd ==
  /\ At("ZS_FILE_HDR_END")
  /\ \/ ClearCrashes
     \/ hdr.method \notin {0, 8} /\ Garbage
     \/ /\ hdr.method \in {0, 8}
        /\ state' = [state EXCEPT !.input_state = "ZS_FILE_NAME", !.in = 0, !.out = 0,
                       !.data_bytes = IF hdr.method = 0 THEN hdr.size_u ELSE hdr.size_c]
        /\ Keep
  /\ UNCHANGED buf

(***************************************************************************)
(* The extra fields: "unix" gives owner and time, "uidgid" the owner,      *)
(* "times" the time; any may be too short for that, or longer than what is *)
(* left of the extra fields.                                               *)
(***************************************************************************)
EXTRAS == <<"unix", "uidgid", "times", "other", "overlong">>
ReadExtra(fi, octet) ==
  LET tag == EXTRAS[octet.v]
  IN [fi EXCEPT !.mtime = IF tag \in {"unix", "times"} THEN tag ELSE @,
                !.uid = IF tag \in {"unix", "uidgid"} THEN tag ELSE @]
FileInfo ==
  FoldLeft(ReadExtra,
           [name |-> CStr(state.name), size |-> hdr.size_u, mtime |-> "hdr", uid |-> "none"],
           state.extra)
Overlong(octet) == EXTRAS[octet.v] = "overlong"

FlushHdr ==
  /\ At("ZS_FLUSH_HDR")
  /\ \/ /\ \E j \in 1..Len(state.extra) : Overlong(state.extra[j])
        /\ Garbage
     \/ /\ ~\E j \in 1..Len(state.extra) : Overlong(state.extra[j])
        /\ file_start(FileInfo)
        /\ state' = [state EXCEPT !.input_state = "ZS_DATA"]
        /\ UNCHANGED status
  /\ UNCHANGED buf

StoredData ==
  LET taken == Take(state.data_bytes)
      left == state.data_bytes - Len(taken)
  IN /\ At("ZS_DATA") /\ hdr.method = 0
     /\ Swallow(Len(taken))
     /\ file_data(taken)
     /\ state' = [state EXCEPT !.data_bytes = left,
                    !.input_state = IF left = 0 /\ hdr.crc THEN "ZS_DATA_SKIP" ELSE @]
     /\ status' = IF left = 0 /\ ~hdr.crc THEN "failed" ELSE status

(***************************************************************************)
(* One inflate(): it stops when its output buffer is full, at the end of   *)
(* the stream, or when there is no more input.                             *)
(***************************************************************************)
Least(a, b) == IF a < b THEN a ELSE b
Inflate(avail_in) ==
  LET in == Least(state.in + avail_in,
                  Least(hdr.stream, (state.out + OUTBUF_SZ + Ratio - 1) \div Ratio))
  IN [in |-> in, out |-> Least(Ratio * in, state.out + OUTBUF_SZ)]
StreamEnd(z) == z.in = hdr.stream /\ z.out = Ratio * z.in

InflateData ==
  LET z == Inflate(Len(Take(state.data_bytes)))
      used == z.in - state.in
      out == z.out - state.out
  IN /\ At("ZS_DATA") /\ hdr.method = 8
     /\ Swallow(used)
     /\ file_data([j \in 1..out |->
                     Octet("data", 10 * state.hdr[HDR].v + state.out + j)])
     /\ state' = [state EXCEPT !.data_bytes = @ - used, !.in = z.in, !.out = z.out,
                    !.input_state = IF StreamEnd(z) /\ hdr.crc THEN "ZS_DATA_SKIP" ELSE @]
     /\ status' = IF (StreamEnd(z) /\ ~hdr.crc) \/ (~StreamEnd(z) /\ used = 0 /\ out = 0)
                  THEN "failed" ELSE status

(* What follows the stream is skipped, but data_bytes stays what it is. *)
DataSkip ==
  /\ At("ZS_DATA_SKIP")
  /\ \/ /\ state.data_bytes > 0
        /\ Swallow(1)
        /\ UNCHANGED <<state, status, calls>>
     \/ /\ state.data_bytes = 0
        /\ Move(IF hdr.desc THEN "ZS_DATA_DESC" ELSE "ZS_EOR_FILE")
        /\ UNCHANGED buf

EndFile ==     \* falls through to ZS_EOR
  /\ At("ZS_EOR_FILE")
  /\ file_end
  /\ state' = [state EXCEPT !.input_state = "ZS_BEGIN_REC"]
  /\ UNCHANGED <<buf, status>>

EndRec == At("ZS_EOR") /\ Move("ZS_BEGIN_REC") /\ UNCHANGED buf

Skip(n) == state' = [state EXCEPT !.sch = sched(n, "ZS_EOR"), !.input_state = "ZS_SKIP_BYTES"]

CentralDirEnd ==
  /\ At("ZS_CENTRAL_DIR_END")
  /\ Skip(Len(hdr.name) + Len(hdr.extra) + Len(hdr.comment))
  /\ Keep /\ UNCHANGED buf

EndCentralEnd ==
  /\ At("ZS_END_CENTRAL_END")
  /\ Skip(Len(hdr.comment))
  /\ Keep /\ UNCHANGED buf

Collects == BeginRec \/ FileHdr \/ FileName \/ Extra \/ DataDesc \/ CentralDir \/ EndCentral
            \/ SkipBytes
Handles == HandleRec \/ FileHdrEnd \/ FlushHdr \/ StoredData \/ InflateData \/ DataSkip
           \/ EndFile \/ EndRec \/ CentralDirEnd \/ EndCentralEnd

Input == (Collects \/ Handles) /\ UNCHANGED <<archive, offset>>
=============================================================================
