--------------------------------- MODULE Cpio ---------------------------------
(***************************************************************************)
(* pax, cpio.cc: cpio_input() as the state machine it is, one action per   *)
(* case of its switch.  CS_TRAILER is left out: nothing enters it.         *)
(*                                                                         *)
(* A member is [name, size, fault]; fault is what is wrong with its        *)
(* header.                                                                 *)
(***************************************************************************)
EXTENDS PaxArchive

TRAILER == Octet("char", 9)     \* stands for the octets of "TRAILER!!!"

Encode(members, i) ==
  (IF members[i].fault = "magic" THEN <<NUL>> \o Tail(Structure(i)) ELSE Structure(i))
  \o members[i].name \o Contents(i, members[i].size)

States == [input_state : {"CS_HDR", "CS_NAME", "CS_DATA", "CS_EOF", "CS_EOA"},
           hdr : Seq(Octets), name_len : Nat, name : Seq(Octets), size : Nat,
           file_bytes : Nat]

Start == [input_state |-> "CS_HDR", hdr |-> <<>>, name_len |-> 0, name |-> <<>>,
          size |-> 0, file_bytes |-> 0]

At(s) == Parsing("cpio") /\ state.input_state = s

(***************************************************************************)
(* COPYOCTAL compares with 0 after the assignment: a field that is not     *)
(* octal is refused if it is signed there.  The size is not; it becomes    *)
(* the greatest number there is.                                           *)
(***************************************************************************)
Size(m) == IF m.fault = "size" THEN HUGE ELSE m.size
IsHeader(hdr) == hdr[1] = Octet("magic", 1) /\ \A j \in 2..HDR : hdr[j].k = "fields"
GoodHeader(hdr) == IsHeader(hdr) /\ Member(hdr[HDR]).fault # "field"

cpio_hdr(hdr) ==
  \/ ~GoodHeader(hdr) /\ Garbage
  \/ IsHeader(hdr) /\ ClearCrashes
  \/ /\ GoodHeader(hdr)
     /\ LET m == Member(hdr[HDR])
        IN state' = [state EXCEPT !.input_state = "CS_NAME", !.hdr = <<>>,
                       !.name_len = Len(m.name), !.size = Size(m),
                       !.file_bytes = Size(m)]
     /\ UNCHANGED <<status, calls>>

Hdr ==
  LET taken == Take(HDR - Len(state.hdr))
      hdr == state.hdr \o taken
  IN /\ At("CS_HDR")
     /\ Swallow(Len(taken))
     /\ \/ /\ Len(hdr) < HDR
           /\ state' = [state EXCEPT !.hdr = hdr]
           /\ UNCHANGED <<status, calls>>
        \/ Len(hdr) = HDR /\ cpio_hdr(hdr)

(* The name has name_len octets, and in an archive the last is a NUL. *)
IsTrailer(name) == name = <<TRAILER>>

cpio_hdr_name(name) ==
  \/ /\ IsTrailer(name)
     /\ state' = [state EXCEPT !.input_state = "CS_EOA", !.name = <<>>]
     /\ UNCHANGED calls
  \/ /\ ~IsTrailer(name)
     /\ state' = [state EXCEPT !.name = <<>>,
                    !.input_state = IF state.size > 0 THEN "CS_DATA" ELSE "CS_EOF"]
     /\ file_start([name |-> CStr(name), size |-> state.size])

NameMutant ==     \* name_pos is not kept when the buffer ends inside the name
  LET taken == Take(state.name_len)
  IN /\ At("CS_NAME")
     /\ Swallow(Len(taken))
     /\ IF Len(taken) = state.name_len
        THEN cpio_hdr_name(taken)
        ELSE UNCHANGED <<state, calls>>
     /\ UNCHANGED status

Name ==
  LET taken == Take(state.name_len - Len(state.name))
      name == state.name \o taken
  IN /\ At("CS_NAME")
     /\ Swallow(Len(taken))
     /\ \/ /\ Len(name) < state.name_len
           /\ state' = [state EXCEPT !.name = name]
           /\ UNCHANGED calls
        \/ Len(name) = state.name_len /\ cpio_hdr_name(name)
     /\ UNCHANGED status

AfterDataMutant(left) == "CS_DATA"     \* the end of the data is not noticed
AfterData(left) == IF left = 0 THEN "CS_EOF" ELSE "CS_DATA"

Data ==
  LET taken == Take(state.file_bytes)
      left == state.file_bytes - Len(taken)
  IN /\ At("CS_DATA")
     /\ Swallow(Len(taken))
     /\ file_data(taken)
     /\ state' = [state EXCEPT !.file_bytes = left, !.input_state = AfterData(left)]
     /\ UNCHANGED status

EndFile ==
  /\ At("CS_EOF")
  /\ file_end
  /\ state' = [state EXCEPT !.input_state = "CS_HDR"]
  /\ UNCHANGED <<buf, status>>

(* bitbucket anything after the trailer *)
EndArchive == At("CS_EOA") /\ buf' = <<>> /\ UNCHANGED <<state, status, calls>>

Input == (Hdr \/ Name \/ Data \/ EndFile \/ EndArchive) /\ UNCHANGED <<archive, offset>>
=============================================================================
