------------------------------- MODULE LzwProofs -------------------------------
(***************************************************************************)
(* The coding of compress, for data of any length, any number of letters   *)
(* and any -b.                                                             *)
(*                                                                         *)
(* First that the codes fit their widths (FitInv): what output() puts into *)
(* a group has no more bits than the group is cut into, and neither side   *)
(* widens beyond BITS.  Then that the stream comes back as it was given    *)
(* (ChanInv): the codes written so far have a history, which says for each *)
(* the state of a reader who has taken it, the text up to it and its place *)
(* in a group.  The writer is at the end of that history, one entry ahead  *)
(* of a reader there; the reader is somewhere in it.                       *)
(***************************************************************************)
EXTENDS Lzw, SequenceTheorems, WellFoundedInduction, TLAPS

(***************************************************************************)
(* The width of either side, from which its greatest code follows, and how *)
(* far its table may have grown.  With -b INIT_BITS or less the table is   *)
(* full before, or with, the first widening.                               *)
(***************************************************************************)
WidthInv(z) ==
  /\ z.n_bits \in INIT_BITS..BITS /\ z.clear_flg \in BOOLEAN
  /\ z.maxcode = IF z.n_bits = INIT_BITS THEN MAXCODE(INIT_BITS)
                 ELSE IF z.n_bits = maxbits THEN maxmaxcode ELSE MAXCODE(z.n_bits)
  /\ z.free_ent \in Nat
  /\ z.free_ent <= FIRST \/ z.free_ent <= maxmaxcode

(* which fields the writer's record has, and the reader's *)
WriterFields == {"state", "ent", "n_bits", "maxcode", "free_ent", "clear_flg", "table", "group",
                 "in_count", "checkpoint"}
ReaderFields == {"state", "n_bits", "maxcode", "free_ent", "clear_flg", "prefix", "suffix",
                 "group", "next", "oldcode", "incode", "finchar", "stack"}
IsWriter(z) == z = [f \in WriterFields |-> z[f]]
IsReader(z) == z = [f \in ReaderFields |-> z[f]]

(* what has been put into a group, and the groups written *)
FitsGroup(codes, width) == codes \in Seq(Int) /\ \A j \in 1..Len(codes) : codes[j] < 2^width
FitGroups == {g \in [width : 0..BITS, codes : Seq(Int)] : FitsGroup(g.codes, g.width)}
WholeGroups == {g \in FitGroups : Len(g.codes) = GroupSize}

(* The writer; it gives codes out before the width has to know of them.    *)
WriterFits(z, s) ==
  /\ IsWriter(z) /\ WidthInv(z) /\ ~z.clear_flg
  /\ z.free_ent >= FIRST /\ z.free_ent <= z.maxcode + 1
  /\ z.ent \in Nat /\ z.ent < z.free_ent
  /\ \A p \in DOMAIN z.table : z.table[p] \in Nat /\ z.table[p] < z.free_ent
  /\ FitsGroup(z.group, z.n_bits)
  /\ s \in Seq(FitGroups)
  /\ z.state \in {"start", "middle"} => s \in Seq(WholeGroups)
ReaderFits(z) == IsReader(z) /\ WidthInv(z)

FitInv == maxbits \in 1..BITS /\ WriterFits(w, sent) /\ ReaderFits(r)

-----------------------------------------------------------------------------
(* Powers of two.                                                          *)

LEMMA PowersGrow ==
  ASSUME NEW m \in 0..BITS, NEW n \in 0..BITS, m < n PROVE 2^m \in Nat /\ 2^n \in Nat /\ 2^m < 2^n
<1>1. n \in 0..BITS /\ m \in 0..(n - 1) BY LzwAssumption, SMT
<1>. QED BY <1>1, PowersAssumption, LzwAssumption, Zenon

LEMMA PowersTell ==
  ASSUME NEW m \in 0..BITS, NEW n \in 0..BITS, 2^m <= 2^n PROVE m <= n
<1>1. SUFFICES ASSUME n < m PROVE FALSE BY LzwAssumption, SMT
<1>. QED BY <1>1, PowersGrow, SMT

(* the bits of a code that is not above FIRST, or not above maxmaxcode *)
LEMMA PowerNat == ASSUME NEW n \in 0..BITS PROVE 2^n \in Nat
BY PowersAssumption, Zenon

LEMMA FirstFits == FIRST \in Nat /\ \A n \in INIT_BITS..BITS : FIRST < 2^n /\ 2^n \in Nat
<1>1. SUFFICES ASSUME NEW n \in INIT_BITS..BITS PROVE FIRST < 2^n /\ 2^n \in Nat
  BY LzwAssumption, SMT DEF FIRST
<1>2. n \in 0..BITS /\ INIT_BITS \in 0..BITS BY LzwAssumption, SMT
<1>3. 2^n \in Nat /\ 2^INIT_BITS \in Nat BY <1>2, PowerNat
<1>4. FIRST < 2^INIT_BITS /\ FIRST \in Nat BY LzwAssumption, SMT DEF FIRST
<1>5. CASE n = INIT_BITS BY <1>3, <1>4, <1>5, SMT
<1>6. CASE INIT_BITS < n
  <2>1. 2^INIT_BITS < 2^n BY <1>2, <1>6, PowersGrow
  <2>. QED BY <1>3, <1>4, <2>1, SMT
<1>. QED BY <1>5, <1>6, LzwAssumption, SMT

-----------------------------------------------------------------------------
(* The width.                                                              *)

(* A side widens only while its codes have fewer than BITS bits.           *)
LEMMA WidensBelow ==
  ASSUME maxbits \in 1..BITS, NEW z, WidthInv(z), z.free_ent > z.maxcode
  PROVE  z.n_bits < BITS /\ z.maxcode = MAXCODE(z.n_bits)
<1>. DEFINE n == z.n_bits
<1>1. n \in INIT_BITS..BITS /\ n \in 0..BITS /\ maxbits \in 0..BITS /\ INIT_BITS \in 0..BITS
  BY LzwAssumption, SMT DEF WidthInv
<1>2. 2^n \in Nat /\ 2^maxbits \in Nat /\ FIRST < 2^n /\ FIRST \in Nat
  BY <1>1, PowerNat, FirstFits
<1>3. CASE n = INIT_BITS BY <1>3, LzwAssumption, SMT DEF WidthInv
<1>4. CASE n # INIT_BITS /\ n = maxbits
  <2>1. z.maxcode = 2^n BY <1>4, Zenon DEF WidthInv, maxmaxcode
  <2>2. z.free_ent \in Nat /\ (z.free_ent <= FIRST \/ z.free_ent <= 2^n)
    BY <1>4, Zenon DEF WidthInv, maxmaxcode
  <2>. QED BY <1>2, <2>1, <2>2, SMT
<1>5. CASE n # INIT_BITS /\ n # maxbits
  <2>1. z.maxcode = MAXCODE(n) BY <1>5, Zenon DEF WidthInv
  <2>2. z.free_ent \in Nat /\ (z.free_ent <= FIRST \/ z.free_ent <= 2^maxbits)
    BY Zenon DEF WidthInv, maxmaxcode
  <2>3. z.free_ent > 2^n - 1 BY <2>1, Zenon DEF MAXCODE
  <2>4. 2^n <= 2^maxbits BY <1>2, <2>2, <2>3, SMT
  <2>5. n <= maxbits BY <1>1, <2>4, PowersTell
  <2>6. n < BITS BY <1>1, <1>5, <2>5, LzwAssumption, SMT
  <2>. QED BY <2>1, <2>6
<1>. QED BY <1>3, <1>4, <1>5

LEMMA Fields ==
  /\ \A z : IsWriter(z) => DOMAIN z = WriterFields
  /\ \A z : IsReader(z) => DOMAIN z = ReaderFields
  /\ \A z, y : IsWriter(z) /\ DOMAIN y = DOMAIN z /\ y = [f \in DOMAIN y |-> y[f]] => IsWriter(y)
  /\ \A z, y : IsReader(z) /\ DOMAIN y = DOMAIN z /\ y = [f \in DOMAIN y |-> y[f]] => IsReader(y)
<1>1. \A z : IsWriter(z) => DOMAIN z = WriterFields BY Zenon DEF IsWriter
<1>2. \A z : IsReader(z) => DOMAIN z = ReaderFields BY Zenon DEF IsReader
<1>. QED BY <1>1, <1>2, Zenon DEF IsWriter, IsReader

LEMMA WidenKeeps ==
  ASSUME maxbits \in 1..BITS, NEW z, WidthInv(z), z.free_ent > z.maxcode,
         IsWriter(z) \/ IsReader(z)
  PROVE  /\ WidthInv(Widen(z)) /\ z.n_bits < Widen(z).n_bits
         /\ z.free_ent <= z.maxcode + 1 => z.free_ent <= Widen(z).maxcode
         /\ Widen(z) = [z EXCEPT !.n_bits = Widen(z).n_bits, !.maxcode = Widen(z).maxcode]
         /\ Widen(z).free_ent = z.free_ent /\ Widen(z).clear_flg = z.clear_flg
<1>. DEFINE n == z.n_bits
            m == n + 1
            max == IF m = maxbits THEN maxmaxcode ELSE MAXCODE(m)
<1>1. n < BITS /\ z.maxcode = MAXCODE(n) BY WidensBelow
<1>2. n \in INIT_BITS..BITS /\ z.clear_flg \in BOOLEAN /\ z.free_ent \in Nat
      /\ (z.free_ent <= FIRST \/ z.free_ent <= maxmaxcode)
  BY Zenon DEF WidthInv
<1>3. m \in INIT_BITS..BITS /\ m # INIT_BITS /\ n < m /\ m \in 0..BITS /\ n \in 0..BITS
  BY <1>1, <1>2, LzwAssumption, SMT
<1>4. 2^n \in Nat /\ 2^m \in Nat /\ 2^n < 2^m BY <1>3, PowersGrow
<1>5. Widen(z) = [z EXCEPT !.n_bits = m, !.maxcode = max] BY Zenon DEF Widen
<1>. HIDE DEF max, m
<1>6. /\ Widen(z).n_bits = m /\ Widen(z).maxcode = max /\ Widen(z).free_ent = z.free_ent
      /\ Widen(z).clear_flg = z.clear_flg
  <2>1. DOMAIN z = WriterFields \/ DOMAIN z = ReaderFields BY Fields, Zenon
  <2>. QED BY <2>1, <1>5, SMT DEF WriterFields, ReaderFields
<1>7. WidthInv(Widen(z)) BY <1>2, <1>3, <1>6, Zenon DEF WidthInv, max
<1>8. max \in Nat /\ 2^m - 1 <= max BY <1>4, SMT DEF max, maxmaxcode, MAXCODE
<1>9. z.free_ent <= z.maxcode + 1 => z.free_ent <= max
  BY <1>1, <1>2, <1>4, <1>8, SMT DEF MAXCODE
<1>. QED BY <1>3, <1>5, <1>6, <1>7, <1>9, Zenon

LEMMA NarrowKeeps ==
  ASSUME NEW z, WidthInv(z), IsWriter(z) \/ IsReader(z)
  PROVE  /\ WidthInv(Narrow(z)) /\ ~Narrow(z).clear_flg
         /\ z.free_ent <= FIRST => z.free_ent <= Narrow(z).maxcode
         /\ Narrow(z).free_ent = z.free_ent /\ Narrow(z).n_bits = INIT_BITS
<1>1. Narrow(z) = [z EXCEPT !.n_bits = INIT_BITS, !.maxcode = MAXCODE(INIT_BITS),
                            !.clear_flg = FALSE]
  BY Zenon DEF Narrow
<1>2. /\ Narrow(z).n_bits = INIT_BITS /\ Narrow(z).maxcode = MAXCODE(INIT_BITS)
      /\ Narrow(z).free_ent = z.free_ent /\ Narrow(z).clear_flg = FALSE
  <2>. HIDE DEF MAXCODE
  <2>1. DOMAIN z = WriterFields \/ DOMAIN z = ReaderFields BY Fields, Zenon
  <2>. QED BY <2>1, <1>1, SMT DEF WriterFields, ReaderFields
<1>3. INIT_BITS \in INIT_BITS..BITS BY LzwAssumption, SMT
<1>4. z.free_ent \in Nat /\ (z.free_ent <= FIRST \/ z.free_ent <= maxmaxcode)
  BY Zenon DEF WidthInv
<1>5. WidthInv(Narrow(z)) BY <1>2, <1>3, <1>4, Zenon DEF WidthInv
<1>6. FIRST < 2^INIT_BITS /\ 2^INIT_BITS \in Nat /\ FIRST \in Nat BY <1>3, FirstFits
<1>7. z.free_ent <= FIRST => z.free_ent <= MAXCODE(INIT_BITS)
  BY <1>4, <1>6, SMT DEF MAXCODE
<1>. QED BY <1>2, <1>5, <1>7, Zenon

(* A code that the table has given out fits the width of the moment.       *)
LEMMA GivenOutFits ==
  ASSUME maxbits \in 1..BITS, NEW z, WidthInv(z), z.free_ent <= z.maxcode + 1,
         NEW code \in Nat, code < z.free_ent
  PROVE  code < 2^z.n_bits
<1>. DEFINE n == z.n_bits
<1>1. n \in INIT_BITS..BITS /\ n \in 0..BITS /\ maxbits \in 0..BITS /\ z.free_ent \in Nat
      /\ (z.free_ent <= FIRST \/ z.free_ent <= maxmaxcode)
  BY LzwAssumption, SMT DEF WidthInv
<1>2. 2^n \in Nat /\ 2^maxbits \in Nat /\ FIRST < 2^n /\ FIRST \in Nat
  BY <1>1, PowerNat, FirstFits
<1>3. z.maxcode = MAXCODE(n) \/ (n = maxbits /\ z.maxcode = maxmaxcode)
  BY Zenon DEF WidthInv
<1>4. CASE z.maxcode = MAXCODE(n)
  BY <1>1, <1>2, <1>4, SMT DEF MAXCODE
<1>5. CASE n = maxbits
  <2>1. z.free_ent <= FIRST \/ z.free_ent <= 2^n BY <1>1, <1>5, Zenon DEF maxmaxcode
  <2>. QED BY <1>1, <1>2, <2>1, SMT
<1>. QED BY <1>3, <1>4, <1>5

-----------------------------------------------------------------------------
(* The groups.                                                             *)

LEMMA EmptyFits == ASSUME NEW n PROVE FitsGroup(<<>>, n)
BY SMT DEF FitsGroup

LEMMA AppendFits ==
  ASSUME NEW codes, NEW n, FitsGroup(codes, n), NEW code \in Int, code < 2^n
  PROVE  FitsGroup(Append(codes, code), n)
<1>. DEFINE bound == 2^n
<1>1. codes \in Seq(Int) /\ \A j \in 1..Len(codes) : codes[j] < bound BY Zenon DEF FitsGroup
<1>2. code < bound OBVIOUS
<1>. HIDE DEF bound
<1>3. Append(codes, code) \in Seq(Int) BY <1>1, SMT
<1>4. \A j \in 1..Len(Append(codes, code)) : Append(codes, code)[j] < bound BY <1>1, <1>2, SMT
<1>. QED BY <1>3, <1>4, Zenon DEF FitsGroup, bound

(* The junk behind the codes of a group that ended early is no problem.    *)
LEMMA PadFits ==
  ASSUME NEW codes, NEW n \in 0..BITS, FitsGroup(codes, n) 
  PROVE  FitsGroup(Pad(codes), n) /\ Len(Pad(codes)) = GroupSize
<1>. DEFINE bound == 2^n
            Pick(i) == IF i <= Len(codes) THEN codes[i] ELSE JUNK
<1>1. codes \in Seq(Int) /\ \A j \in 1..Len(codes) : codes[j] < bound BY Zenon DEF FitsGroup
<1>2. bound \in Nat BY PowerNat
<1>. HIDE DEF bound
<1>3. \A i \in 1..GroupSize : Pick(i) \in Int /\ Pick(i) < bound
  BY <1>1, <1>2, LzwAssumption, SMT DEF JUNK
<1>4. Pad(codes) = [i \in 1..GroupSize |-> Pick(i)] BY Zenon DEF Pad
<1>. HIDE DEF Pick
<1>5. GroupSize \in Nat BY LzwAssumption
<1>6. Pad(codes) \in Seq(Int) /\ Len(Pad(codes)) = GroupSize BY <1>3, <1>4, <1>5, SMT
<1>7. \A j \in 1..GroupSize : Pad(codes)[j] < bound BY <1>3, <1>4, SMT
<1>. QED BY <1>6, <1>7, Zenon DEF FitsGroup, bound

LEMMA FlushFits ==
  ASSUME NEW z, z.n_bits \in INIT_BITS..BITS, NEW s, NEW codes, FitsGroup(codes, z.n_bits)
  PROVE  /\ s \in Seq(FitGroups) => Flush(z, s, codes) \in Seq(FitGroups)
         /\ s \in Seq(WholeGroups) /\ Len(codes) = GroupSize => Flush(z, s, codes) \in Seq(WholeGroups)
<1>. DEFINE g == [width |-> z.n_bits, codes |-> codes]
<1>1. z.n_bits \in 0..BITS BY LzwAssumption, SMT
<1>2. codes \in Seq(Int) BY Zenon DEF FitsGroup
<1>3. g \in [width : 0..BITS, codes : Seq(Int)] BY <1>1, <1>2, SMT
<1>4. g.width = z.n_bits /\ g.codes = codes BY SMT
<1>5. g \in FitGroups BY <1>3, <1>4, Zenon DEF FitGroups
<1>6. Len(codes) = GroupSize => g \in WholeGroups BY <1>4, <1>5, Zenon DEF WholeGroups
<1>7. Flush(z, s, codes) = Append(s, g) BY Zenon DEF Flush
<1>. HIDE DEF g
<1>8. /\ s \in Seq(FitGroups) => Append(s, g) \in Seq(FitGroups)
      /\ s \in Seq(WholeGroups) /\ g \in WholeGroups => Append(s, g) \in Seq(WholeGroups)
  BY <1>5, AppendProperties, Zenon
<1>. QED BY <1>6, <1>7, <1>8, Zenon

LEMMA WholeFits == ASSUME NEW s \in Seq(WholeGroups) PROVE s \in Seq(FitGroups)
<1>1. WholeGroups \subseteq FitGroups BY Zenon DEF WholeGroups
<1>. QED BY <1>1, SMT

-----------------------------------------------------------------------------
(* What output() may be called with, and what it leaves.                   *)

MayOutput(z, s, code) ==
  /\ IsWriter(z) /\ WidthInv(z) /\ z.free_ent <= z.maxcode + 1
  /\ z.clear_flg => z.free_ent = FIRST
  /\ FitsGroup(z.group, z.n_bits) /\ s \in Seq(WholeGroups)
  /\ code \in Nat /\ code < 2^z.n_bits

LEMMA OutputFits ==
  ASSUME maxbits \in 1..BITS, NEW zw, NEW s, NEW code, MayOutput(zw, s, code), NEW o, o = Output(zw, s, code)
  PROVE  /\ IsWriter(o.z) /\ WidthInv(o.z) /\ ~o.z.clear_flg /\ o.z.free_ent <= o.z.maxcode
         /\ o.z.free_ent = zw.free_ent /\ o.z.table = zw.table /\ o.z.ent = zw.ent
         /\ FitsGroup(o.z.group, o.z.n_bits) /\ o.s \in Seq(WholeGroups)
<1>. DEFINE full == Append(zw.group, code)
            whole == Len(full) = GroupSize
            z1 == [zw EXCEPT !.group = IF whole THEN <<>> ELSE full]
            s1 == IF whole THEN Flush(zw, s, full) ELSE s
            change == z1.free_ent > z1.maxcode \/ z1.clear_flg
            s2 == IF change /\ z1.group # <<>> THEN Flush(z1, s1, Pad(z1.group)) ELSE s1
            z2 == IF ~change THEN z1
                  ELSE [(IF z1.clear_flg THEN Narrow(z1) ELSE Widen(z1)) EXCEPT !.group = <<>>]
<1>1. o = [z |-> z2, s |-> s2] BY Zenon DEF Output
<1>. HIDE DEF z2, s2
<1>2. o.z = z2 /\ o.s = s2 BY <1>1, SMT
<1>3. FitsGroup(full, zw.n_bits)
  <2>1. code \in Int BY SMT DEF MayOutput
  <2>. QED BY <2>1, AppendFits, Zenon DEF MayOutput
<1>4. s1 \in Seq(WholeGroups)
  <2>1. zw.n_bits \in INIT_BITS..BITS BY Zenon DEF MayOutput, WidthInv
  <2>2. s \in Seq(WholeGroups) BY Zenon DEF MayOutput
  <2>3. CASE ~whole BY <2>2, <2>3, Zenon
  <2>. HIDE DEF full
  <2>4. CASE whole
    <3>1. Flush(zw, s, full) \in Seq(WholeGroups) BY <2>4, <1>3, <2>1, <2>2, FlushFits, Zenon
    <3>. QED BY <2>4, <3>1
  <2>. QED BY <2>3, <2>4
<1>. DEFINE group == IF whole THEN <<>> ELSE full
<1>5. FitsGroup(group, zw.n_bits) BY <1>3, EmptyFits, Zenon
<1>6. z1 = [zw EXCEPT !.group = group] OBVIOUS
<1>. HIDE DEF full, whole, s1, group, z1
<1>7. /\ IsWriter(z1) /\ z1.group = group /\ z1.n_bits = zw.n_bits /\ z1.maxcode = zw.maxcode
      /\ z1.free_ent = zw.free_ent /\ z1.clear_flg = zw.clear_flg /\ z1.table = zw.table
      /\ z1.ent = zw.ent
  <2>1. IsWriter(zw) /\ DOMAIN zw = WriterFields BY Fields, Zenon DEF MayOutput
  <2>2. IsWriter(z1)
    <3>1. DOMAIN z1 = DOMAIN zw /\ z1 = [f \in DOMAIN z1 |-> z1[f]] BY <1>6, Zenon
    <3>. QED BY <2>1, <3>1, Fields, Zenon
  <2>. QED BY <1>6, <2>1, <2>2, SMT DEF WriterFields
<1>8. WidthInv(z1) BY <1>7, Zenon DEF MayOutput, WidthInv
<1>9. z1.free_ent <= z1.maxcode + 1 /\ (z1.clear_flg => z1.free_ent = FIRST)
  BY <1>7, Zenon DEF MayOutput
<1>10. s2 \in Seq(WholeGroups)
  <2>1. z1.n_bits \in INIT_BITS..BITS BY <1>8, Zenon DEF WidthInv
  <2>2. z1.n_bits \in 0..BITS BY <2>1, LzwAssumption, SMT
  <2>3. FitsGroup(Pad(z1.group), z1.n_bits) /\ Len(Pad(z1.group)) = GroupSize
    BY <1>5, <1>7, <2>2, PadFits, Zenon
  <2>4. Flush(z1, s1, Pad(z1.group)) \in Seq(WholeGroups) BY <1>4, <2>1, <2>3, FlushFits, Zenon
  <2>. QED BY <1>4, <2>4, Zenon DEF s2
<1>11. CASE ~change
  <2>1. z2 = z1 BY <1>11, Zenon DEF z2
  <2>2. z1.free_ent \in Nat /\ z1.maxcode \in Int
    <3>1. z1.n_bits \in 0..BITS /\ INIT_BITS \in 0..BITS /\ maxbits \in 0..BITS
      BY <1>8, LzwAssumption, SMT DEF WidthInv
    <3>2. 2^z1.n_bits \in Nat /\ 2^INIT_BITS \in Nat /\ 2^maxbits \in Nat BY <3>1, PowerNat
    <3>. QED BY <1>8, <3>2, SMT DEF WidthInv, MAXCODE, maxmaxcode
  <2>3. z1.free_ent <= z1.maxcode /\ ~z1.clear_flg BY <1>11, <2>2, SMT
  <2>. QED BY <1>2, <1>5, <1>7, <1>8, <1>10, <2>1, <2>3, Zenon
<1>12. CASE change /\ z1.clear_flg
  <2>. DEFINE n1 == Narrow(z1)
  <2>1. z2 = [n1 EXCEPT !.group = <<>>] BY <1>12, Zenon DEF z2
  <2>2. /\ WidthInv(n1) /\ ~n1.clear_flg /\ n1.free_ent <= n1.maxcode
        /\ n1.free_ent = z1.free_ent
    <3>1. z1.free_ent <= FIRST
      <4>1. z1.free_ent = FIRST /\ FIRST \in Nat BY <1>9, <1>12, FirstFits, Zenon
      <4>. QED BY <4>1, SMT
    <3>. QED BY <1>7, <1>8, <3>1, NarrowKeeps, Zenon
  <2>3. IsWriter(n1) /\ n1.table = z1.table /\ n1.ent = z1.ent
    <3>1. PICK a, b, c : n1 = [z1 EXCEPT !.n_bits = a, !.maxcode = b, !.clear_flg = c]
      BY Zenon DEF Narrow
    <3>. HIDE DEF n1
    <3>2. DOMAIN z1 = WriterFields BY <1>7, Fields, Zenon
    <3>3. DOMAIN n1 = DOMAIN z1 /\ n1 = [f \in DOMAIN n1 |-> n1[f]] BY <3>1, Zenon
    <3>4. IsWriter(n1) BY <1>7, <3>3, Fields, Zenon
    <3>. QED BY <3>1, <3>2, <3>4, SMT DEF WriterFields
  <2>. HIDE DEF n1
  <2>4. /\ IsWriter(z2) /\ z2.group = <<>> /\ z2.n_bits = n1.n_bits /\ z2.maxcode = n1.maxcode
        /\ z2.free_ent = n1.free_ent /\ z2.clear_flg = n1.clear_flg /\ z2.table = n1.table
        /\ z2.ent = n1.ent
    <3>1. DOMAIN n1 = WriterFields BY <2>3, Fields, Zenon
    <3>2. DOMAIN z2 = DOMAIN n1 /\ z2 = [f \in DOMAIN z2 |-> z2[f]] BY <2>1, Zenon
    <3>3. IsWriter(z2) BY <2>3, <3>2, Fields, Zenon
    <3>. QED BY <2>1, <3>1, <3>3, SMT DEF WriterFields
  <2>5. WidthInv(z2) BY <2>2, <2>4, Zenon DEF WidthInv
  <2>. QED BY <1>2, <1>7, <1>10, <2>2, <2>3, <2>4, <2>5, EmptyFits, Zenon
<1>13. CASE change /\ ~z1.clear_flg
  <2>. DEFINE n1 == Widen(z1)
  <2>1. z2 = [n1 EXCEPT !.group = <<>>] BY <1>13, Zenon DEF z2
  <2>2. /\ WidthInv(n1) /\ ~n1.clear_flg /\ n1.free_ent <= n1.maxcode
        /\ n1.free_ent = z1.free_ent
        /\ n1 = [z1 EXCEPT !.n_bits = n1.n_bits, !.maxcode = n1.maxcode]
    BY <1>7, <1>8, <1>9, <1>13, WidenKeeps, Zenon
  <2>. HIDE DEF n1
  <2>3. IsWriter(n1) /\ n1.table = z1.table /\ n1.ent = z1.ent
    <3>1. PICK a, b : n1 = [z1 EXCEPT !.n_bits = a, !.maxcode = b] BY <2>2, Zenon
    <3>2. DOMAIN z1 = WriterFields BY <1>7, Fields, Zenon
    <3>3. DOMAIN n1 = DOMAIN z1 /\ n1 = [f \in DOMAIN n1 |-> n1[f]] BY <3>1, Zenon
    <3>4. IsWriter(n1) BY <1>7, <3>3, Fields, Zenon
    <3>. QED BY <3>1, <3>2, <3>4, SMT DEF WriterFields
  <2>4. /\ IsWriter(z2) /\ z2.group = <<>> /\ z2.n_bits = n1.n_bits /\ z2.maxcode = n1.maxcode
        /\ z2.free_ent = n1.free_ent /\ z2.clear_flg = n1.clear_flg /\ z2.table = n1.table
        /\ z2.ent = n1.ent
    <3>1. DOMAIN n1 = WriterFields BY <2>3, Fields, Zenon
    <3>2. DOMAIN z2 = DOMAIN n1 /\ z2 = [f \in DOMAIN z2 |-> z2[f]] BY <2>1, Zenon
    <3>3. IsWriter(z2) BY <2>3, <3>2, Fields, Zenon
    <3>. QED BY <2>1, <3>1, <3>3, SMT DEF WriterFields
  <2>5. WidthInv(z2) BY <2>2, <2>4, Zenon DEF WidthInv
  <2>. QED BY <1>2, <1>7, <1>10, <2>2, <2>3, <2>4, <2>5, EmptyFits, Zenon
<1>. QED BY <1>11, <1>12, <1>13

-----------------------------------------------------------------------------
(* Steps.                                                                  *)

LEMMA WriterLater ==
  ASSUME maxbits' = maxbits, WriterFits(w', sent') PROVE WriterFits(w, sent)'
BY Zenon DEF WriterFits, WidthInv, maxmaxcode

LEMMA ReaderLater ==
  ASSUME maxbits' = maxbits, ReaderFits(r') PROVE ReaderFits(r)'
BY Zenon DEF ReaderFits, WidthInv, maxmaxcode

LEMMA WriterSteps ==
  ASSUME FitInv, maxbits' = maxbits, r' = r, WriterFits(w', sent') PROVE FitInv'
<1>1. ReaderFits(r') BY Zenon DEF FitInv
<1>2. WriterFits(w, sent)' BY WriterLater
<1>3. ReaderFits(r)' BY <1>1, ReaderLater
<1>. QED BY <1>2, <1>3, Zenon DEF FitInv

LEMMA ReaderSteps ==
  ASSUME FitInv, maxbits' = maxbits, w' = w, sent' = sent, ReaderFits(r') PROVE FitInv'
<1>1. WriterFits(w', sent') BY Zenon DEF FitInv
<1>2. WriterFits(w, sent)' BY <1>1, WriterLater
<1>3. ReaderFits(r)' BY ReaderLater
<1>. QED BY <1>2, <1>3, Zenon DEF FitInv

LEMMA InitFits == Init => FitInv
<1>. SUFFICES ASSUME Init PROVE FitInv OBVIOUS
<1>1. maxbits \in 1..BITS BY LzwAssumption, SMT DEF Init
<1>2. INIT_BITS \in INIT_BITS..BITS BY LzwAssumption, SMT
<1>3. FIRST \in Nat /\ FIRST < 2^INIT_BITS /\ 2^INIT_BITS \in Nat BY <1>2, FirstFits
<1>. DEFINE max == MAXCODE(INIT_BITS)
<1>4. max \in Nat /\ FIRST <= max + 1 BY <1>3, SMT DEF MAXCODE
<1>. HIDE DEF max
<1>5. w = [state |-> "start", ent |-> 0, n_bits |-> INIT_BITS, maxcode |-> max, free_ent |-> FIRST,
           clear_flg |-> FALSE, table |-> NoTable, group |-> <<>>, in_count |-> 1,
           checkpoint |-> CHECK_GAP]
  BY Zenon DEF Init, max
<1>6. /\ IsWriter(w) /\ w.ent = 0 /\ w.n_bits = INIT_BITS /\ w.maxcode = max /\ w.free_ent = FIRST
      /\ w.clear_flg = FALSE /\ w.table = NoTable /\ w.group = <<>>
  BY <1>5, SMT DEF IsWriter, WriterFields
<1>7. WidthInv(w)
  <2>1. FIRST <= FIRST BY <1>3, SMT
  <2>. QED BY <1>2, <1>3, <1>6, <2>1, Zenon DEF WidthInv, max
<1>8. DOMAIN w.table = {} BY <1>6, SMT DEF NoTable
<1>9. sent \in Seq(WholeGroups) /\ sent \in Seq(FitGroups) BY SMT DEF Init
<1>10. 0 < FIRST BY LzwAssumption, SMT DEF FIRST
<1>11. FIRST >= FIRST /\ 0 \in Nat BY <1>3, SMT
<1>12. WriterFits(w, sent)
  BY <1>3, <1>4, <1>6, <1>7, <1>8, <1>9, <1>10, <1>11, EmptyFits, Zenon DEF WriterFits
<1>13. /\ IsReader(r) /\ r.n_bits = INIT_BITS /\ r.maxcode = max /\ r.free_ent = FIRST
       /\ r.clear_flg = FALSE
  <2>. DEFINE prefix == [c \in Codes |-> 0]
  <2>1. r = [state |-> "start", n_bits |-> INIT_BITS, maxcode |-> max, free_ent |-> FIRST,
             clear_flg |-> FALSE, prefix |-> prefix, suffix |-> prefix, group |-> <<>>,
             next |-> 1, oldcode |-> 0, incode |-> 0, finchar |-> 0, stack |-> <<>>]
    BY Zenon DEF Init, max
  <2>. HIDE DEF prefix
  <2>. QED BY <2>1, SMT DEF IsReader, ReaderFields
<1>14. WidthInv(r)
  <2>1. FIRST <= FIRST BY <1>3, SMT
  <2>. QED BY <1>2, <1>3, <1>13, <2>1, Zenon DEF WidthInv, max
<1>. QED BY <1>1, <1>12, <1>13, <1>14, Zenon DEF FitInv, ReaderFits

(* What compress_zwrite() and compress_zclose() hand to output().          *)
LEMMA EntFits ==
  ASSUME maxbits \in 1..BITS, NEW z, NEW s, WriterFits(z, s), z.state = "middle"
  PROVE  MayOutput(z, s, z.ent)
<1>1. z.ent < 2^z.n_bits BY GivenOutFits, Zenon DEF WriterFits
<1>. QED BY <1>1, Zenon DEF WriterFits, MayOutput

LEMMA WriteFirstFits == ASSUME FitInv, NEW c \in Bytes, WriteFirst(c) PROVE FitInv'
<1>1. WriterFits(w, sent) /\ DOMAIN w = WriterFields
  BY Fields, Zenon DEF FitInv, WriterFits
<1>2. w' = [w EXCEPT !.state = "middle", !.ent = c] /\ sent' = sent BY Zenon DEF WriteFirst
<1>3. /\ w'.ent = c /\ w'.n_bits = w.n_bits /\ w'.maxcode = w.maxcode
      /\ w'.free_ent = w.free_ent /\ w'.clear_flg = w.clear_flg /\ w'.table = w.table
      /\ w'.group = w.group
  BY <1>1, <1>2, SMT DEF WriterFields
<1>4. IsWriter(w')
  <2>1. DOMAIN w' = DOMAIN w /\ w' = [f \in DOMAIN w' |-> w'[f]] BY <1>2, Zenon
  <2>. QED BY <1>1, <2>1, Fields, Zenon DEF WriterFits
<1>5. WidthInv(w') BY <1>1, <1>3, Zenon DEF WriterFits, WidthInv
<1>6. c \in Nat /\ c < w.free_ent
  BY <1>1, LzwAssumption, SMT DEF WriterFits, WidthInv, FIRST, Bytes
<1>7. WriterFits(w', sent')
  BY <1>1, <1>2, <1>3, <1>4, <1>5, <1>6, Zenon DEF WriterFits, WriteFirst
<1>. QED BY <1>7, WriterSteps, Zenon DEF WriteFirst

LEMMA WriteMatchFits == ASSUME FitInv, NEW c \in Bytes, WriteMatch(c) PROVE FitInv'
<1>. DEFINE ent == w.table[<<w.ent, c>>]
<1>1. WriterFits(w, sent) /\ DOMAIN w = WriterFields
  BY Fields, Zenon DEF FitInv, WriterFits
<1>2. ent \in Nat /\ ent < w.free_ent BY <1>1, Zenon DEF WriteMatch, Known, WriterFits
<1>3. w' = [w EXCEPT !.ent = ent, !.in_count = @ + 1] /\ sent' = sent BY Zenon DEF WriteMatch
<1>. HIDE DEF ent
<1>4. /\ w'.ent = ent /\ w'.n_bits = w.n_bits /\ w'.maxcode = w.maxcode
      /\ w'.free_ent = w.free_ent /\ w'.clear_flg = w.clear_flg /\ w'.table = w.table
      /\ w'.group = w.group
  BY <1>1, <1>3, SMT DEF WriterFields
<1>5. IsWriter(w')
  <2>1. DOMAIN w' = DOMAIN w /\ w' = [f \in DOMAIN w' |-> w'[f]] BY <1>3, Zenon
  <2>. QED BY <1>1, <2>1, Fields, Zenon DEF WriterFits
<1>6. WidthInv(w') BY <1>1, <1>4, Zenon DEF WriterFits, WidthInv
<1>7. WriterFits(w', sent')
  BY <1>1, <1>2, <1>3, <1>4, <1>5, <1>6, Zenon DEF WriterFits, WriteMatch, Extends
<1>. QED BY <1>7, WriterSteps, Zenon DEF WriteMatch, Extends

(* output() of the code in hand, after the byte has been counted.          *)
LEMMA EntOutput ==
  ASSUME FitInv, w.state = "middle", NEW o, o = Output([w EXCEPT !.in_count = @ + 1], sent, w.ent)
  PROVE  /\ IsWriter(o.z) /\ WidthInv(o.z) /\ ~o.z.clear_flg /\ o.z.free_ent <= o.z.maxcode
         /\ o.z.free_ent = w.free_ent /\ o.z.table = w.table /\ o.z.ent = w.ent
         /\ FitsGroup(o.z.group, o.z.n_bits) /\ o.s \in Seq(WholeGroups)
<1>. DEFINE z == [w EXCEPT !.in_count = @ + 1]
<1>1. maxbits \in 1..BITS /\ WriterFits(w, sent) /\ DOMAIN w = WriterFields
  BY Fields, Zenon DEF FitInv, WriterFits
<1>2. PICK n : z = [w EXCEPT !.in_count = n] BY Zenon
<1>. HIDE DEF z
<1>3. /\ z.ent = w.ent /\ z.n_bits = w.n_bits /\ z.maxcode = w.maxcode
      /\ z.free_ent = w.free_ent /\ z.clear_flg = w.clear_flg /\ z.table = w.table
      /\ z.group = w.group /\ z.state = w.state
  BY <1>1, <1>2, SMT DEF WriterFields
<1>4. IsWriter(z)
  <2>1. DOMAIN z = DOMAIN w /\ z = [f \in DOMAIN z |-> z[f]] BY <1>2, Zenon
  <2>. QED BY <1>1, <2>1, Fields, Zenon DEF WriterFits
<1>5. WidthInv(z) BY <1>1, <1>3, Zenon DEF WriterFits, WidthInv
<1>6. WriterFits(z, sent) BY <1>1, <1>3, <1>4, <1>5, Zenon DEF WriterFits
<1>7. MayOutput(z, sent, w.ent) BY <1>1, <1>3, <1>6, EntFits, Zenon
<1>8. o = Output(z, sent, w.ent) BY DEF z
<1>9. /\ IsWriter(o.z) /\ WidthInv(o.z) /\ ~o.z.clear_flg /\ o.z.free_ent <= o.z.maxcode
      /\ o.z.free_ent = z.free_ent /\ o.z.table = z.table /\ o.z.ent = z.ent
      /\ FitsGroup(o.z.group, o.z.n_bits) /\ o.s \in Seq(WholeGroups)
  BY <1>1, <1>7, <1>8, OutputFits, SMT
<1>. QED BY <1>3, <1>9, Zenon

LEMMA LettersFit ==
  ASSUME maxbits \in 1..BITS
  PROVE  /\ \A c \in Bytes : c \in Nat /\ c < FIRST
         /\ maxmaxcode \in Nat /\ CLEAR \in Nat /\ CLEAR < FIRST /\ FIRST \in Nat
<1>1. maxbits \in 0..BITS BY SMT
<1>2. maxmaxcode \in Nat BY <1>1, PowerNat DEF maxmaxcode
<1>. QED BY <1>2, LzwAssumption, SMT DEF Bytes, FIRST, CLEAR

(* The maximum code of a side is a number.                                 *)
LEMMA MaxcodeInt ==
  ASSUME maxbits \in 1..BITS, NEW z, WidthInv(z) PROVE z.maxcode \in Int /\ z.free_ent \in Nat
<1>1. z.n_bits \in 0..BITS /\ INIT_BITS \in 0..BITS /\ maxbits \in 0..BITS
  BY LzwAssumption, SMT DEF WidthInv
<1>2. 2^z.n_bits \in Nat /\ 2^INIT_BITS \in Nat /\ 2^maxbits \in Nat BY <1>1, PowerNat
<1>. QED BY <1>2, SMT DEF WidthInv, MAXCODE, maxmaxcode

LEMMA WriteNewFits == ASSUME FitInv, NEW c \in Bytes, WriteNew(c) PROVE FitInv'
<1>. DEFINE o == Output([w EXCEPT !.in_count = @ + 1], sent, w.ent)
            entries == NewEntry(o.z, c)
<1>1. maxbits \in 1..BITS /\ WriterFits(w, sent) BY Zenon DEF FitInv
<1>2. w' = [o.z EXCEPT !.ent = c, !.table = entries, !.free_ent = @ + 1] /\ sent' = o.s
  BY Zenon DEF WriteNew
<1>3. w.free_ent < maxmaxcode BY Zenon DEF WriteNew
<1>. HIDE DEF o
<1>4. /\ IsWriter(o.z) /\ WidthInv(o.z) /\ ~o.z.clear_flg /\ o.z.free_ent <= o.z.maxcode
      /\ o.z.free_ent = w.free_ent /\ o.z.table = w.table
      /\ FitsGroup(o.z.group, o.z.n_bits) /\ o.s \in Seq(WholeGroups)
  BY EntOutput, Zenon DEF o, Extends, WriteNew
<1>5. \A p \in DOMAIN entries : entries[p] = o.z.free_ent \/ (p \in DOMAIN w.table /\ entries[p] = w.table[p])
  BY <1>4, Zenon DEF NewEntry
<1>. HIDE DEF entries
<1>6. DOMAIN o.z = WriterFields BY <1>4, Fields, Zenon
<1>7. /\ w'.ent = c /\ w'.n_bits = o.z.n_bits /\ w'.maxcode = o.z.maxcode
      /\ w'.free_ent = o.z.free_ent + 1 /\ w'.clear_flg = o.z.clear_flg /\ w'.table = entries
      /\ w'.group = o.z.group
  BY <1>2, <1>6, SMT DEF WriterFields
<1>8. IsWriter(w')
  <2>1. DOMAIN w' = DOMAIN o.z /\ w' = [f \in DOMAIN w' |-> w'[f]] BY <1>2, Zenon
  <2>. QED BY <1>4, <2>1, Fields, Zenon
<1>9. w.free_ent \in Nat /\ o.z.maxcode \in Int BY <1>1, <1>4, MaxcodeInt, Zenon DEF WriterFits
<1>10. /\ maxmaxcode \in Nat /\ FIRST \in Nat /\ c \in Nat /\ c < FIRST
  BY <1>1, LettersFit, Zenon
<1>11. w.free_ent >= FIRST BY <1>1, Zenon DEF WriterFits
<1>12. /\ w'.free_ent \in Nat /\ w'.free_ent <= maxmaxcode /\ w'.free_ent >= FIRST
       /\ w'.free_ent <= w'.maxcode + 1 /\ w'.ent \in Nat /\ w'.ent < w'.free_ent
  BY <1>3, <1>4, <1>7, <1>9, <1>10, <1>11, SMT
<1>13. WidthInv(w') BY <1>4, <1>7, <1>12, Zenon DEF WidthInv
<1>14. \A p \in DOMAIN w'.table : w'.table[p] \in Nat /\ w'.table[p] < w'.free_ent
  <2>1. SUFFICES ASSUME NEW p \in DOMAIN entries
        PROVE  entries[p] \in Nat /\ entries[p] < w'.free_ent
    BY <1>7, Zenon
  <2>2. w'.free_ent = w.free_ent + 1 BY <1>4, <1>7
  <2>3. CASE entries[p] = o.z.free_ent BY <1>4, <1>9, <2>2, <2>3, SMT
  <2>4. CASE p \in DOMAIN w.table /\ entries[p] = w.table[p]
    <3>1. entries[p] \in Nat /\ entries[p] < w.free_ent BY <1>1, <2>4, Zenon DEF WriterFits
    <3>. QED BY <1>9, <2>2, <3>1, SMT
  <2>. QED BY <1>5, <2>3, <2>4
<1>15. WriterFits(w', sent')
  BY <1>2, <1>4, <1>7, <1>8, <1>12, <1>13, <1>14, WholeFits, Zenon DEF WriterFits
<1>. QED BY <1>15, WriterSteps, Zenon DEF WriteNew, Extends

LEMMA WriteFullFits ==
  ASSUME FitInv, NEW c \in Bytes, NEW worse \in BOOLEAN, WriteFull(c, worse) PROVE FitInv'
<1>. DEFINE o == Output([w EXCEPT !.in_count = @ + 1], sent, w.ent)
            z == [o.z EXCEPT !.ent = c]
            z1 == [z EXCEPT !.checkpoint = z.in_count + CHECK_GAP]
            z2 == [z1 EXCEPT !.table = NoTable, !.free_ent = FIRST, !.clear_flg = TRUE]
            o1 == Output(z2, o.s, CLEAR)
<1>1. maxbits \in 1..BITS /\ WriterFits(w, sent) BY Zenon DEF FitInv
<1>2. \/ worse /\ w' = o1.z /\ sent' = o1.s
      \/ ~worse /\ (w' = z1 \/ w' = z) /\ sent' = o.s
  BY Zenon DEF WriteFull
<1>. HIDE DEF o, o1
<1>3. /\ IsWriter(o.z) /\ WidthInv(o.z) /\ ~o.z.clear_flg /\ o.z.free_ent <= o.z.maxcode
      /\ o.z.free_ent = w.free_ent /\ o.z.table = w.table
      /\ FitsGroup(o.z.group, o.z.n_bits) /\ o.s \in Seq(WholeGroups)
  BY EntOutput, Zenon DEF o, Extends, WriteFull
<1>. DEFINE Same(y) ==
       /\ IsWriter(y) /\ y.ent = c /\ y.n_bits = o.z.n_bits /\ y.maxcode = o.z.maxcode
       /\ y.group = o.z.group
            SameTable(y) == y.free_ent = w.free_ent /\ y.clear_flg = FALSE /\ y.table = w.table
<1>4. DOMAIN o.z = WriterFields BY <1>3, Fields, Zenon
<1>5. o.z.clear_flg = FALSE BY <1>3, Zenon DEF WidthInv
<1>6. Same(z) /\ SameTable(z)
  <2>1. DOMAIN z = DOMAIN o.z /\ z = [f \in DOMAIN z |-> z[f]] BY Zenon
  <2>2. IsWriter(z) BY <1>3, <2>1, Fields, Zenon
  <2>. QED BY <1>3, <1>4, <1>5, <2>2, SMT DEF WriterFields
<1>. HIDE DEF z
<1>7. Same(z1) /\ SameTable(z1)
  <2>. DEFINE n == z.in_count + CHECK_GAP
  <2>1. z1 = [z EXCEPT !.checkpoint = n] OBVIOUS
  <2>. HIDE DEF n, z1
  <2>2. DOMAIN z1 = DOMAIN z /\ z1 = [f \in DOMAIN z1 |-> z1[f]] BY <2>1, Zenon
  <2>3. IsWriter(z1) BY <1>6, <2>2, Fields, Zenon
  <2>4. DOMAIN z = WriterFields BY <1>6, Fields, Zenon
  <2>. QED BY <1>6, <2>1, <2>3, <2>4, SMT DEF WriterFields
<1>. HIDE DEF z1
<1>8. /\ Same(z2) /\ z2.free_ent = FIRST /\ z2.clear_flg = TRUE /\ z2.table = NoTable
  <2>1. DOMAIN z2 = DOMAIN z1 /\ z2 = [f \in DOMAIN z2 |-> z2[f]] BY Zenon
  <2>2. IsWriter(z2) BY <1>7, <2>1, Fields, Zenon
  <2>3. DOMAIN z1 = WriterFields BY <1>7, Fields, Zenon
  <2>. HIDE DEF NoTable, FIRST
  <2>. QED BY <1>7, <2>2, <2>3, SMT DEF WriterFields
<1>. HIDE DEF z2
<1>9. /\ FIRST \in Nat /\ c \in Nat /\ c < FIRST /\ CLEAR \in Nat /\ CLEAR < FIRST
  BY <1>1, LettersFit, Zenon
<1>10. w.free_ent \in Nat /\ o.z.maxcode \in Int BY <1>1, <1>3, MaxcodeInt, Zenon DEF WriterFits
<1>11. w.free_ent >= FIRST BY <1>1, Zenon DEF WriterFits
<1>12. o.z.free_ent <= o.z.maxcode + 1 /\ c < w.free_ent /\ FIRST <= o.z.maxcode + 1 /\ FIRST <= FIRST
       /\ FIRST >= FIRST
  BY <1>3, <1>9, <1>10, <1>11, SMT
<1>13. CASE ~worse
  <2>1. PICK y \in {z, z1} : w' = y /\ sent' = o.s BY <1>2, <1>13, Zenon
  <2>2. Same(y) /\ SameTable(y) BY <1>6, <1>7, Zenon
  <2>3. WidthInv(y) BY <1>3, <1>5, <2>2, Zenon DEF WidthInv
  <2>4. \A p \in DOMAIN y.table : y.table[p] \in Nat /\ y.table[p] < y.free_ent
    BY <1>1, <2>2, Zenon DEF WriterFits
  <2>5. y.free_ent >= FIRST /\ y.free_ent <= y.maxcode + 1 /\ y.ent \in Nat /\ y.ent < y.free_ent
    BY <1>3, <1>9, <1>11, <1>12, <2>2, Zenon
  <2>6. WriterFits(y, o.s) BY <1>3, <2>2, <2>3, <2>4, <2>5, WholeFits, Zenon DEF WriterFits
  <2>. QED BY <2>1, <2>6, WriterSteps, Zenon DEF WriteFull, Extends
<1>14. CASE worse
  <2>1. WidthInv(z2) BY <1>3, <1>8, <1>9, <1>12, Zenon DEF WidthInv
  <2>2. z2.free_ent <= z2.maxcode + 1 BY <1>8, <1>12, Zenon
  <2>3. CLEAR < 2^z2.n_bits BY <1>1, <1>8, <1>9, <2>1, <2>2, GivenOutFits, Zenon
  <2>4. MayOutput(z2, o.s, CLEAR)
    BY <1>3, <1>8, <1>9, <2>1, <2>2, <2>3, Zenon DEF MayOutput
  <2>5. /\ IsWriter(o1.z) /\ WidthInv(o1.z) /\ ~o1.z.clear_flg /\ o1.z.free_ent <= o1.z.maxcode
        /\ o1.z.free_ent = z2.free_ent /\ o1.z.table = z2.table /\ o1.z.ent = z2.ent
        /\ FitsGroup(o1.z.group, o1.z.n_bits) /\ o1.s \in Seq(WholeGroups)
    BY <1>1, <2>4, OutputFits, SMT DEF o1
  <2>6. DOMAIN o1.z.table = {}
    <3>1. DOMAIN NoTable = {} BY SMT DEF NoTable
    <3>. QED BY <1>8, <2>5, <3>1, Zenon
  <2>7. o1.z.free_ent = FIRST /\ o1.z.ent = c BY <1>8, <2>5, Zenon
  <2>8. o1.z.maxcode \in Int BY <1>1, <2>5, MaxcodeInt, Zenon
  <2>9. o1.z.free_ent <= o1.z.maxcode + 1 /\ o1.z.free_ent >= FIRST /\ o1.z.ent < o1.z.free_ent
    BY <1>9, <2>5, <2>7, <2>8, SMT
  <2>10. WriterFits(o1.z, o1.s)
    BY <1>9, <2>5, <2>6, <2>7, <2>9, WholeFits, Zenon DEF WriterFits
  <2>11. w' = o1.z /\ sent' = o1.s BY <1>2, <1>14, Zenon
  <2>. QED BY <2>10, <2>11, WriterSteps, Zenon DEF WriteFull, Extends
<1>. QED BY <1>13, <1>14

LEMMA CloseFits == ASSUME FitInv, Close PROVE FitInv'
<1>. DEFINE o == Output(w, sent, w.ent)
            groups == IF o.z.group = <<>> THEN o.s ELSE Flush(o.z, o.s, o.z.group)
<1>1. maxbits \in 1..BITS /\ WriterFits(w, sent) BY Zenon DEF FitInv
<1>2. w' = [o.z EXCEPT !.state = "closed", !.group = <<>>] /\ sent' = groups BY Zenon DEF Close
<1>. HIDE DEF o
<1>3. MayOutput(w, sent, w.ent) BY <1>1, EntFits, Zenon DEF Close
<1>4. /\ IsWriter(o.z) /\ WidthInv(o.z) /\ ~o.z.clear_flg /\ o.z.free_ent <= o.z.maxcode
      /\ o.z.free_ent = w.free_ent /\ o.z.table = w.table /\ o.z.ent = w.ent
      /\ FitsGroup(o.z.group, o.z.n_bits) /\ o.s \in Seq(WholeGroups)
  BY <1>1, <1>3, OutputFits, SMT DEF o
<1>5. groups \in Seq(FitGroups)
  <2>1. o.z.n_bits \in INIT_BITS..BITS BY <1>4, Zenon DEF WidthInv
  <2>2. o.s \in Seq(FitGroups) BY <1>4, WholeFits, Zenon
  <2>3. Flush(o.z, o.s, o.z.group) \in Seq(FitGroups) BY <1>4, <2>1, <2>2, FlushFits, Zenon
  <2>. QED BY <2>2, <2>3, Zenon
<1>. HIDE DEF groups
<1>6. DOMAIN o.z = WriterFields BY <1>4, Fields, Zenon
<1>7. /\ w'.ent = o.z.ent /\ w'.n_bits = o.z.n_bits /\ w'.maxcode = o.z.maxcode
      /\ w'.free_ent = o.z.free_ent /\ w'.clear_flg = o.z.clear_flg /\ w'.table = o.z.table
      /\ w'.group = <<>> /\ w'.state = "closed"
  BY <1>2, <1>6, SMT DEF WriterFields
<1>8. IsWriter(w')
  <2>1. DOMAIN w' = DOMAIN o.z /\ w' = [f \in DOMAIN w' |-> w'[f]] BY <1>2, Zenon
  <2>. QED BY <1>4, <2>1, Fields, Zenon
<1>9. o.z.maxcode \in Int /\ o.z.free_ent \in Nat BY <1>1, <1>4, MaxcodeInt, Zenon
<1>10. w'.free_ent <= w'.maxcode + 1 BY <1>4, <1>7, <1>9, SMT
<1>11. WidthInv(w') BY <1>4, <1>7, Zenon DEF WidthInv
<1>12. /\ w'.free_ent >= FIRST /\ w'.ent \in Nat /\ w'.ent < w'.free_ent
       /\ \A p \in DOMAIN w'.table : w'.table[p] \in Nat /\ w'.table[p] < w'.free_ent
  BY <1>1, <1>4, <1>7, Zenon DEF WriterFits
<1>13. WriterFits(w', sent')
  BY <1>2, <1>4, <1>5, <1>7, <1>8, <1>10, <1>11, <1>12, EmptyFits, Zenon DEF WriterFits
<1>. QED BY <1>13, WriterSteps, Zenon DEF Close

(* A group that is cut off is still a group of codes that fit.             *)
LEMMA CutFits ==
  ASSUME NEW g \in WholeGroups, NEW n \in 1..GroupSize
  PROVE  [g EXCEPT !.codes = SubSeq(@, 1, n)] \in FitGroups
<1>. DEFINE codes == SubSeq(g.codes, 1, n)
            bound == 2^g.width
<1>1. /\ g \in [width : 0..BITS, codes : Seq(Int)] /\ FitsGroup(g.codes, g.width)
      /\ Len(g.codes) = GroupSize
  BY Zenon DEF WholeGroups, FitGroups
<1>2. GroupSize \in Nat /\ n \in Nat BY LzwAssumption, SMT
<1>3. g.codes \in Seq(Int) /\ \A j \in 1..Len(g.codes) : g.codes[j] < bound
  BY <1>1, Zenon DEF FitsGroup
<1>. HIDE DEF bound
<1>4. /\ codes \in Seq(Int) /\ Len(codes) = n /\ \A j \in 1..n : codes[j] = g.codes[j]
  BY <1>1, <1>2, <1>3, SMT
<1>5. \A j \in 1..n : codes[j] < bound BY <1>1, <1>2, <1>3, <1>4, SMT
<1>. HIDE DEF codes
<1>6. FitsGroup(codes, g.width) BY <1>4, <1>5, Zenon DEF FitsGroup, bound
<1>. DEFINE h == [g EXCEPT !.codes = codes]
<1>7. h \in [width : 0..BITS, codes : Seq(Int)] /\ h.codes = codes /\ h.width = g.width
  BY <1>1, <1>4, SMT
<1>8. h \in FitGroups BY <1>6, <1>7, Zenon DEF FitGroups
<1>. QED BY <1>8, Zenon DEF codes

LEMMA KilledFits ==
  ASSUME FitInv, NEW groups \in 0..Len(sent), NEW codes \in 0..GroupSize, Killed(groups, codes)
  PROVE  FitInv'
<1>. DEFINE whole == SubSeq(sent, 1, groups)
            cut == [sent[groups + 1] EXCEPT !.codes = SubSeq(@, 1, codes)]
            last == IF groups < Len(sent) /\ codes > 0 THEN <<cut>> ELSE <<>>
<1>1. maxbits \in 1..BITS /\ WriterFits(w, sent) /\ DOMAIN w = WriterFields
  BY Fields, Zenon DEF FitInv, WriterFits
<1>2. w' = [w EXCEPT !.state = "killed"] /\ sent' = whole \o last BY Zenon DEF Killed
<1>3. sent \in Seq(WholeGroups) BY <1>1, Zenon DEF WriterFits, Killed
<1>4. whole \in Seq(FitGroups)
  <2>1. sent \in Seq(FitGroups) BY <1>3, WholeFits
  <2>. QED BY <2>1, SMT
<1>5. last \in Seq(FitGroups)
  <2>1. CASE ~(groups < Len(sent) /\ codes > 0)
    <3>1. last = <<>> BY <2>1, Zenon
    <3>. QED BY <3>1, SMT
  <2>2. CASE groups < Len(sent) /\ codes > 0
    <3>1. codes \in 1..GroupSize /\ sent[groups + 1] \in WholeGroups
      BY <1>3, <2>2, LzwAssumption, SMT
    <3>2. cut \in FitGroups BY <3>1, CutFits
    <3>3. last = <<cut>> BY <2>2, Zenon
    <3>. HIDE DEF cut, last
    <3>. QED BY <3>2, <3>3, SMT
  <2>. QED BY <2>1, <2>2
<1>. HIDE DEF whole, last
<1>6. sent' \in Seq(FitGroups)
  <2>1. whole \o last \in Seq(FitGroups) BY <1>4, <1>5, ConcatProperties, Zenon
  <2>. QED BY <1>2, <2>1
<1>7. /\ w'.ent = w.ent /\ w'.n_bits = w.n_bits /\ w'.maxcode = w.maxcode
      /\ w'.free_ent = w.free_ent /\ w'.clear_flg = w.clear_flg /\ w'.table = w.table
      /\ w'.group = w.group /\ w'.state = "killed"
  BY <1>1, <1>2, SMT DEF WriterFields
<1>8. IsWriter(w')
  <2>1. DOMAIN w' = DOMAIN w /\ w' = [f \in DOMAIN w' |-> w'[f]] BY <1>2, Zenon
  <2>. QED BY <1>1, <2>1, Fields, Zenon DEF WriterFits
<1>9. WidthInv(w') BY <1>1, <1>7, Zenon DEF WriterFits, WidthInv
<1>10. WriterFits(w', sent') BY <1>1, <1>6, <1>7, <1>8, <1>9, Zenon DEF WriterFits
<1>. QED BY <1>10, WriterSteps, Zenon DEF Killed

LEMMA CloseEmptyFits == ASSUME FitInv, CloseEmpty PROVE FitInv'
<1>1. maxbits \in 1..BITS /\ WriterFits(w, sent) /\ DOMAIN w = WriterFields
  BY Fields, Zenon DEF FitInv, WriterFits
<1>2. w' = [w EXCEPT !.state = "closed"] /\ sent' = sent BY Zenon DEF CloseEmpty
<1>3. /\ w'.ent = w.ent /\ w'.n_bits = w.n_bits /\ w'.maxcode = w.maxcode
      /\ w'.free_ent = w.free_ent /\ w'.clear_flg = w.clear_flg /\ w'.table = w.table
      /\ w'.group = w.group /\ w'.state = "closed"
  BY <1>1, <1>2, SMT DEF WriterFields
<1>4. IsWriter(w')
  <2>1. DOMAIN w' = DOMAIN w /\ w' = [f \in DOMAIN w' |-> w'[f]] BY <1>2, Zenon
  <2>. QED BY <1>1, <2>1, Fields, Zenon DEF WriterFits
<1>5. WidthInv(w') BY <1>1, <1>3, Zenon DEF WriterFits, WidthInv
<1>6. WriterFits(w', sent') BY <1>1, <1>2, <1>3, <1>4, <1>5, Zenon DEF WriterFits
<1>. QED BY <1>6, WriterSteps, Zenon DEF CloseEmpty

-----------------------------------------------------------------------------
(* The reader.                                                             *)

(* a step that leaves the width and the table's size alone *)
LEMMA ReaderSame ==
  ASSUME NEW z, NEW y, ReaderFits(z), DOMAIN y = DOMAIN z, y = [f \in DOMAIN y |-> y[f]],
         y.n_bits = z.n_bits, y.maxcode = z.maxcode, y.free_ent = z.free_ent,
         y.clear_flg = z.clear_flg
  PROVE  ReaderFits(y)
<1>1. IsReader(y) BY Fields, Zenon DEF ReaderFits
<1>2. WidthInv(y) BY Zenon DEF ReaderFits, WidthInv
<1>. QED BY <1>1, <1>2, Zenon DEF ReaderFits

LEMMA AdjustFits ==
  ASSUME maxbits \in 1..BITS, NEW z, ReaderFits(z)
  PROVE  ReaderFits(Adjust(z)) /\ Adjust(z).free_ent = z.free_ent
<1>. DEFINE z1 == IF z.free_ent > z.maxcode THEN Widen(z) ELSE z
<1>1. ReaderFits(z1) /\ z1.free_ent = z.free_ent
  <2>1. CASE z.free_ent > z.maxcode
    <3>1. /\ WidthInv(Widen(z)) /\ Widen(z).free_ent = z.free_ent
          /\ Widen(z) = [z EXCEPT !.n_bits = Widen(z).n_bits, !.maxcode = Widen(z).maxcode]
      BY <2>1, WidenKeeps, Zenon DEF ReaderFits
    <3>2. DOMAIN Widen(z) = DOMAIN z /\ Widen(z) = [f \in DOMAIN Widen(z) |-> Widen(z)[f]]
      BY <3>1, Zenon
    <3>3. IsReader(Widen(z)) BY <3>2, Fields, Zenon DEF ReaderFits
    <3>. QED BY <2>1, <3>1, <3>3, Zenon DEF ReaderFits
  <2>2. CASE ~(z.free_ent > z.maxcode) BY <2>2, Zenon
  <2>. QED BY <2>1, <2>2
<1>2. Adjust(z) = IF z.clear_flg THEN Narrow(z1) ELSE z1 BY Zenon DEF Adjust
<1>. HIDE DEF z1
<1>3. ReaderFits(Narrow(z1)) /\ Narrow(z1).free_ent = z1.free_ent
  <2>1. /\ WidthInv(Narrow(z1)) /\ Narrow(z1).free_ent = z1.free_ent
    BY <1>1, NarrowKeeps, Zenon DEF ReaderFits
  <2>2. DOMAIN Narrow(z1) = DOMAIN z1 /\ Narrow(z1) = [f \in DOMAIN Narrow(z1) |-> Narrow(z1)[f]]
    BY Zenon DEF Narrow
  <2>3. IsReader(Narrow(z1)) BY <1>1, <2>2, Fields, Zenon DEF ReaderFits
  <2>. QED BY <2>1, <2>3, Zenon DEF ReaderFits
<1>. QED BY <1>1, <1>2, <1>3, Zenon

(* getcode(), whatever code it comes to *)
LEMMA GetCodeFits ==
  ASSUME FitInv PROVE ReaderFits(GetCode(r).z)
<1>1. maxbits \in 1..BITS /\ ReaderFits(r) BY Zenon DEF FitInv
<1>. DEFINE z1 == Adjust(r)
            tail == Tail(r.group)
            y0 == [r EXCEPT !.group = tail]
            rest == Tail(sent[r.next].codes)
            n == z1.next + 1
            y1 == [z1 EXCEPT !.group = rest, !.next = n]
<1>2. ReaderFits(z1) BY <1>1, AdjustFits
<1>3. GetCode(r).z \in {y0, z1, y1}
  <2>1. y1 = [z1 EXCEPT !.group = rest, !.next = @ + 1] OBVIOUS
  <2>2. \/ GetCode(r) = [z |-> y0, code |-> Head(r.group)]
        \/ \E code : GetCode(r) = [z |-> z1, code |-> code]
        \/ GetCode(r) = [z |-> y1, code |-> Head(sent[r.next].codes)]
    BY <2>1, Zenon DEF GetCode
  <2>. HIDE DEF z1, y0, y1
  <2>. QED BY <2>2, SMT
<1>. HIDE DEF z1, tail, rest, n
<1>4. ReaderFits(y0)
  <2>1. DOMAIN r = ReaderFields BY <1>1, Fields, Zenon DEF ReaderFits
  <2>2. /\ y0.n_bits = r.n_bits /\ y0.maxcode = r.maxcode /\ y0.free_ent = r.free_ent
        /\ y0.clear_flg = r.clear_flg
    BY <2>1, SMT DEF ReaderFields
  <2>3. DOMAIN y0 = DOMAIN r /\ y0 = [f \in DOMAIN y0 |-> y0[f]] BY Zenon
  <2>. QED BY <1>1, <2>2, <2>3, ReaderSame, Zenon
<1>5. ReaderFits(y1)
  <2>1. DOMAIN z1 = ReaderFields BY <1>2, Fields, Zenon DEF ReaderFits
  <2>2. /\ y1.n_bits = z1.n_bits /\ y1.maxcode = z1.maxcode /\ y1.free_ent = z1.free_ent
        /\ y1.clear_flg = z1.clear_flg
    BY <2>1, SMT DEF ReaderFields
  <2>3. DOMAIN y1 = DOMAIN z1 /\ y1 = [f \in DOMAIN y1 |-> y1[f]] BY Zenon
  <2>. QED BY <1>2, <2>2, <2>3, ReaderSame, Zenon
<1>. QED BY <1>2, <1>3, <1>4, <1>5, Zenon

LEMMA ReadHeaderFailsFits == ASSUME FitInv, ReadHeaderFails PROVE FitInv'
<1>1. ReaderFits(r) /\ DOMAIN r = ReaderFields BY Fields, Zenon DEF FitInv, ReaderFits
<1>2. r' = [r EXCEPT !.state = "error"] BY Zenon DEF ReadHeaderFails
<1>3. /\ r'.n_bits = r.n_bits /\ r'.maxcode = r.maxcode /\ r'.free_ent = r.free_ent
      /\ r'.clear_flg = r.clear_flg
  BY <1>1, <1>2, SMT DEF ReaderFields
<1>4. DOMAIN r' = DOMAIN r /\ r' = [f \in DOMAIN r' |-> r'[f]] BY <1>2, Zenon
<1>5. ReaderFits(r') BY <1>1, <1>3, <1>4, ReaderSame, Zenon
<1>. QED BY <1>5, ReaderSteps, Zenon DEF ReadHeaderFails

LEMMA ReadFirstFits == ASSUME FitInv, ReadFirst PROVE FitInv'
<1>. DEFINE g == GetCode(r)
            z == g.z
<1>1. \/ r' = [z EXCEPT !.state = "eof"]
      \/ \E a, b : r' = [z EXCEPT !.state = "middle", !.oldcode = a, !.finchar = b]
  BY Zenon DEF ReadFirst
<1>. HIDE DEF g
<1>2. ReaderFits(z) BY GetCodeFits, Zenon DEF g
<1>. HIDE DEF z
<1>3. DOMAIN z = ReaderFields BY <1>2, Fields, Zenon DEF ReaderFits
<1>4. /\ r'.n_bits = z.n_bits /\ r'.maxcode = z.maxcode /\ r'.free_ent = z.free_ent
      /\ r'.clear_flg = z.clear_flg
  <2>1. CASE r' = [z EXCEPT !.state = "eof"] BY <1>3, <2>1, SMT DEF ReaderFields
  <2>2. CASE \E a, b : r' = [z EXCEPT !.state = "middle", !.oldcode = a, !.finchar = b]
    <3>1. PICK a, b : r' = [z EXCEPT !.state = "middle", !.oldcode = a, !.finchar = b] BY <2>2
    <3>. QED BY <1>3, <3>1, SMT DEF ReaderFields
  <2>. QED BY <1>1, <2>1, <2>2
<1>5. DOMAIN r' = DOMAIN z /\ r' = [f \in DOMAIN r' |-> r'[f]] BY <1>1, Zenon
<1>6. ReaderFits(r') BY <1>2, <1>4, <1>5, ReaderSame, Zenon
<1>. QED BY <1>6, ReaderSteps, Zenon DEF ReadFirst

LEMMA ReadEndFits == ASSUME FitInv, ReadEnd PROVE FitInv'
<1>. DEFINE z == GetCode(r).z
<1>1. r' = [z EXCEPT !.state = "eof"] BY Zenon DEF ReadEnd
<1>2. ReaderFits(z) BY GetCodeFits, Zenon
<1>. HIDE DEF z
<1>3. DOMAIN z = ReaderFields BY <1>2, Fields, Zenon DEF ReaderFits
<1>4. /\ r'.n_bits = z.n_bits /\ r'.maxcode = z.maxcode /\ r'.free_ent = z.free_ent
      /\ r'.clear_flg = z.clear_flg
  BY <1>1, <1>3, SMT DEF ReaderFields
<1>5. DOMAIN r' = DOMAIN z /\ r' = [f \in DOMAIN r' |-> r'[f]] BY <1>1, Zenon
<1>6. ReaderFits(r') BY <1>2, <1>4, <1>5, ReaderSame, Zenon
<1>. QED BY <1>6, ReaderSteps, Zenon DEF ReadEnd

(* After CLEAR the table is one entry shorter than the writer's.           *)
LEMMA ReadClearFits == ASSUME FitInv, ReadClear PROVE FitInv'
<1>. DEFINE z == GetCode(r).z
            before == FIRST - 1
<1>1. r' = [z EXCEPT !.clear_flg = TRUE, !.free_ent = before] BY Zenon DEF ReadClear
<1>2. ReaderFits(z) BY GetCodeFits, Zenon
<1>. HIDE DEF z
<1>3. DOMAIN z = ReaderFields BY <1>2, Fields, Zenon DEF ReaderFits
<1>4. before \in Nat /\ before <= FIRST BY LzwAssumption, SMT DEF FIRST
<1>. HIDE DEF before
<1>5. /\ r'.n_bits = z.n_bits /\ r'.maxcode = z.maxcode /\ r'.free_ent = before
      /\ r'.clear_flg = TRUE
  BY <1>1, <1>3, SMT DEF ReaderFields
<1>6. DOMAIN r' = DOMAIN z /\ r' = [f \in DOMAIN r' |-> r'[f]] BY <1>1, Zenon
<1>7. IsReader(r') BY <1>2, <1>6, Fields, Zenon DEF ReaderFits
<1>8. WidthInv(r') BY <1>2, <1>4, <1>5, Zenon DEF ReaderFits, WidthInv
<1>9. ReaderFits(r') BY <1>7, <1>8, Zenon DEF ReaderFits
<1>. QED BY <1>9, ReaderSteps, Zenon DEF ReadClear

LEMMA ReadCodeFits == ASSUME FitInv, ReadCode PROVE FitInv'
<1>. DEFINE z == GetCode(r).z
<1>1. \E a, b, c : r' = [z EXCEPT !.incode = a, !.stack = b, !.finchar = c] BY Zenon DEF ReadCode
<1>2. ReaderFits(z) BY GetCodeFits, Zenon
<1>. HIDE DEF z
<1>3. DOMAIN z = ReaderFields BY <1>2, Fields, Zenon DEF ReaderFits
<1>4. /\ r'.n_bits = z.n_bits /\ r'.maxcode = z.maxcode /\ r'.free_ent = z.free_ent
      /\ r'.clear_flg = z.clear_flg
  BY <1>1, <1>3, SMT DEF ReaderFields
<1>5. DOMAIN r' = DOMAIN z /\ r' = [f \in DOMAIN r' |-> r'[f]] BY <1>1, Zenon
<1>6. ReaderFits(r') BY <1>2, <1>4, <1>5, ReaderSame, Zenon
<1>. QED BY <1>6, ReaderSteps, Zenon DEF ReadCode

(* An entry is made while there are codes for one.                         *)
LEMMA AddEntryFits ==
  ASSUME maxbits \in 1..BITS, NEW z, ReaderFits(z) PROVE ReaderFits(AddEntry(z))
<1>. DEFINE n == z.free_ent
            m == n + 1
            prefix == [z.prefix EXCEPT ![n] = z.oldcode]
            suffix == [z.suffix EXCEPT ![n] = z.finchar]
            code == z.incode
            more == [z EXCEPT !.prefix = prefix, !.suffix = suffix, !.free_ent = m]
            z1 == IF n >= maxmaxcode THEN z ELSE more
            y == [z1 EXCEPT !.oldcode = code]
<1>1. AddEntry(z) = y BY Zenon DEF AddEntry
<1>2. DOMAIN z = ReaderFields BY Fields, Zenon DEF ReaderFits
<1>3. ReaderFits(z1)
  <2>1. CASE n >= maxmaxcode BY <2>1, Zenon
  <2>2. CASE ~(n >= maxmaxcode)
    <3>. HIDE DEF prefix, suffix
    <3>1. n \in Nat /\ maxmaxcode \in Nat
      <4>1. WidthInv(z) BY Zenon DEF ReaderFits
      <4>. QED BY <4>1, MaxcodeInt, LettersFit, Zenon
    <3>2. m \in Nat /\ m <= maxmaxcode BY <2>2, <3>1, SMT
    <3>. HIDE DEF m
    <3>3. /\ more.n_bits = z.n_bits /\ more.maxcode = z.maxcode /\ more.free_ent = m
          /\ more.clear_flg = z.clear_flg
      BY <1>2, SMT DEF ReaderFields
    <3>4. DOMAIN more = DOMAIN z /\ more = [f \in DOMAIN more |-> more[f]] BY Zenon
    <3>. HIDE DEF more
    <3>5. IsReader(more) BY <3>4, Fields, Zenon DEF ReaderFits
    <3>6. WidthInv(more) BY <3>2, <3>3, Zenon DEF ReaderFits, WidthInv
    <3>. QED BY <2>2, <3>5, <3>6, Zenon DEF ReaderFits
  <2>. QED BY <2>1, <2>2
<1>. HIDE DEF z1, code
<1>4. DOMAIN z1 = ReaderFields BY <1>3, Fields, Zenon DEF ReaderFits
<1>5. /\ y.n_bits = z1.n_bits /\ y.maxcode = z1.maxcode /\ y.free_ent = z1.free_ent
      /\ y.clear_flg = z1.clear_flg
  BY <1>4, SMT DEF ReaderFields
<1>6. DOMAIN y = DOMAIN z1 /\ y = [f \in DOMAIN y |-> y[f]] BY Zenon
<1>. QED BY <1>1, <1>3, <1>5, <1>6, ReaderSame, Zenon

LEMMA DeliverFits == ASSUME FitInv, Deliver PROVE FitInv'
<1>. DEFINE tail == Tail(r.stack)
            z == [r EXCEPT !.stack = tail]
<1>1. maxbits \in 1..BITS /\ ReaderFits(r) BY Zenon DEF FitInv
<1>2. r' \in {z, AddEntry(z)} BY Zenon DEF Deliver
<1>. HIDE DEF tail
<1>3. ReaderFits(z)
  <2>1. DOMAIN r = ReaderFields BY <1>1, Fields, Zenon DEF ReaderFits
  <2>2. /\ z.n_bits = r.n_bits /\ z.maxcode = r.maxcode /\ z.free_ent = r.free_ent
        /\ z.clear_flg = r.clear_flg
    BY <2>1, SMT DEF ReaderFields
  <2>3. DOMAIN z = DOMAIN r /\ z = [f \in DOMAIN z |-> z[f]] BY Zenon
  <2>. QED BY <1>1, <2>2, <2>3, ReaderSame, Zenon
<1>. HIDE DEF z
<1>4. ReaderFits(r') BY <1>1, <1>2, <1>3, AddEntryFits, Zenon
<1>. QED BY <1>4, ReaderSteps, Zenon DEF Deliver

-----------------------------------------------------------------------------
(* FitInv is kept.                                                        *)

LEMMA FitSame ==
  ASSUME FitInv, UNCHANGED <<maxbits, w, sent, r>> PROVE FitInv'
<1>1. ReaderFits(r') BY Zenon DEF FitInv
<1>. QED BY <1>1, ReaderSteps, Zenon

LEMMA FitNext == FitInv /\ [Next]_vars => FitInv'
<1>. SUFFICES ASSUME FitInv, [Next]_vars PROVE FitInv' OBVIOUS
<1>1. CASE Writer
  <2>1. CASE \E c \in Bytes : WriteFirst(c) \/ WriteMatch(c) \/ WriteNew(c)
    BY <2>1, WriteFirstFits, WriteMatchFits, WriteNewFits, Zenon
  <2>2. CASE \E c \in Bytes, worse \in BOOLEAN : WriteFull(c, worse)
    BY <2>2, WriteFullFits, Zenon
  <2>3. CASE \E g \in 0..Len(sent), c \in 0..GroupSize : Killed(g, c)
    BY <2>3, KilledFits, Zenon
  <2>. QED BY <1>1, <2>1, <2>2, <2>3, CloseFits, CloseEmptyFits, Zenon DEF Writer
<1>2. CASE Reader
  <2>1. CASE NextCall BY <2>1, FitSame, Zenon DEF NextCall
  <2>. QED BY <1>2, <2>1, ReadHeaderFailsFits, ReadFirstFits, ReadEndFits, ReadClearFits, ReadCodeFits,
              DeliverFits, Zenon DEF Reader
<1>3. CASE Done \/ UNCHANGED vars
  <2>1. UNCHANGED vars BY <1>3, Zenon DEF Done
  <2>2. UNCHANGED <<maxbits, w, sent, r>> BY <2>1, SMT DEF vars
  <2>. QED BY <2>2, FitSame
<1>. QED BY <1>1, <1>2, <1>3, Zenon DEF Next

LEMMA FitAlways == Spec => []FitInv
<1>1. Init => FitInv BY InitFits
<1>2. FitInv /\ [Next]_vars => FitInv' BY FitNext
<1>. QED BY <1>1, <1>2, PTL DEF Spec

(***************************************************************************)
(* Neither side ever works with codes of more than BITS bits, the size of  *)
(* its buffers; and every code, written or waiting in the writer's group,  *)
(* fits the width its group is cut into, so that no code spills into its   *)
(* neighbour's bits - for any data, any -b and however the stream ends     *)
(* (output(), getcode() and cl_block(), zopen.cc:415-595).                 *)
(***************************************************************************)
THEOREM CodesFitTheirWidth == Spec => []WidthFits
<1>1. FitInv => WidthFits
  <2>. SUFFICES ASSUME FitInv PROVE WidthFits OBVIOUS
  <2>1. WriterFits(w, sent) /\ WidthInv(w) /\ WidthInv(r)
    BY Zenon DEF FitInv, WriterFits, ReaderFits
  <2>2. w.n_bits <= BITS /\ r.n_bits <= BITS BY <2>1, LzwAssumption, SMT DEF WidthInv
  <2>3. ASSUME NEW i \in 1..Len(sent), NEW j \in 1..Len(sent[i].codes)
        PROVE  sent[i].codes[j] < 2^sent[i].width
    <3>1. sent \in Seq(FitGroups) BY <2>1, Zenon DEF WriterFits
    <3>2. sent[i] \in FitGroups BY <3>1, SMT
    <3>. QED BY <3>2, Zenon DEF FitGroups, FitsGroup
  <2>4. \A j \in 1..Len(w.group) : w.group[j] < 2^w.n_bits
    BY <2>1, Zenon DEF WriterFits, FitsGroup
  <2>. QED BY <2>2, <2>3, <2>4, Zenon DEF WidthFits
<1>. QED BY <1>1, FitAlways, PTL
-----------------------------------------------------------------------------
(* Induction over the numbers, by the least of a set of exceptions.        *)

LEMMA Least ==
  ASSUME NEW S, S \subseteq Nat, S # {} PROVE \E n \in S : \A m \in S : ~(m < n)
<1>1. \A x, y \in Nat : x < y => <<x, y>> \in OpToRel(<, Nat) BY SMT DEF OpToRel
<1>2. \E x \in S : \A y \in S : ~(<<y, x>> \in OpToRel(<, Nat)) BY WFMin, NatLessThanWellFounded
<1>. QED BY <1>1, <1>2

LEMMA Induction ==
  ASSUME NEW S, 0 \in S, \A n \in Nat : n \in S => n + 1 \in S PROVE Nat \subseteq S
<1>. DEFINE T == Nat \ S
<1>1. SUFFICES ASSUME T # {} PROVE FALSE OBVIOUS
<1>2. PICK n \in T : \A m \in T : ~(m < n) BY <1>1, Least
<1>3. n - 1 \in Nat /\ n - 1 < n /\ (n - 1) + 1 = n
  <2>1. n # 0 /\ n \in Nat OBVIOUS
  <2>. QED BY <2>1, SMT
<1>4. n - 1 \in S BY <1>2, <1>3
<1>5. (n - 1) + 1 \in S BY <1>3, <1>4
<1>. QED BY <1>3, <1>5

-----------------------------------------------------------------------------
(* The strings of a reader's table.  A code's string is that of another    *)
(* code and one byte more; the other code was given out before, except for *)
(* the entry that is made in CLEAR's own place.                            *)

NonEmpty == Seq(Bytes) \ {<<>>}
Chained(prefix, suffix) ==
  /\ prefix \in [Codes -> Codes \ {CLEAR}] /\ suffix \in [Codes -> Bytes]
  /\ \A c \in Codes : c > CLEAR => prefix[c] < c
Entry(s, prefix, suffix, c) == Append(s[prefix[c]], suffix[c])
Solves(s, prefix, suffix) ==
  s = [c \in Codes |-> IF c < Letters THEN <<c>> ELSE Entry(s, prefix, suffix, c)]
Strings(prefix, suffix) == CHOOSE s : Solves(s, prefix, suffix)

LEMMA StringIsStrings == \A z : String(z) = Strings(z.prefix, z.suffix)
BY Zenon DEF String, Strings, Solves, Entry

LEMMA CodesFacts ==
  /\ 2^BITS \in Nat /\ Letters \in Nat /\ Letters > 0 /\ CLEAR = Letters /\ FIRST = Letters + 1
  /\ FIRST < 2^BITS /\ Codes = 0..(2^BITS - 1) /\ Bytes = 0..(Letters - 1)
<1>1. BITS \in INIT_BITS..BITS BY LzwAssumption, SMT
<1>2. FIRST < 2^BITS /\ 2^BITS \in Nat BY <1>1, FirstFits
<1>3. Letters \in Nat /\ Letters > 0 BY LzwAssumption, SMT
<1>. QED BY <1>2, <1>3, Zenon DEF CLEAR, FIRST, Codes, Bytes

LEMMA AppendNonEmpty ==
  ASSUME NEW s \in NonEmpty, NEW b \in Bytes PROVE Append(s, b) \in NonEmpty /\ Head(Append(s, b)) = Head(s)
BY SMT DEF NonEmpty

LEMMA ByteNonEmpty == ASSUME NEW b \in Bytes PROVE <<b>> \in NonEmpty /\ Head(<<b>>) = b
BY SMT DEF NonEmpty

LEMMA ChainedFacts ==
  ASSUME NEW prefix, NEW suffix, Chained(prefix, suffix), NEW c \in Codes
  PROVE  /\ prefix[c] \in Codes /\ prefix[c] # CLEAR /\ suffix[c] \in Bytes
         /\ c > CLEAR => prefix[c] < c
BY Zenon DEF Chained

LEMMA StringsExist ==
  ASSUME NEW prefix, NEW suffix, Chained(prefix, suffix)
  PROVE  \E s \in [Codes -> NonEmpty] : Solves(s, prefix, suffix)
<1>. DEFINE top == 2^BITS
            Right(f, n) == \A c \in 0..(n - 1) : c # CLEAR =>
                             f[c] = IF c < Letters THEN <<c>> ELSE Entry(f, prefix, suffix, c)
            Done1(n) == \E f \in [0..(n - 1) -> NonEmpty] : Right(f, n)
            S == {n \in Nat : n <= top => Done1(n)}
<1>0. /\ top \in Nat /\ Letters \in Nat /\ Letters > 0 /\ CLEAR = Letters /\ FIRST = Letters + 1
      /\ FIRST < top /\ Codes = 0..(top - 1) /\ Bytes = 0..(Letters - 1)
  BY CodesFacts
<1>. HIDE DEF top
<1>1. 0 \in S
  <2>. DEFINE f == [c \in 0..(0 - 1) |-> <<0>>]
  <2>1. f \in [0..(0 - 1) -> NonEmpty] /\ Right(f, 0) BY SMT
  <2>. QED BY <2>1
<1>2. ASSUME NEW n \in Nat, n \in S PROVE n + 1 \in S
  <2>1. SUFFICES ASSUME n + 1 <= top PROVE Done1(n + 1) BY SMT
  <2>2. n \in Codes /\ n <= top /\ (n + 1) - 1 = n BY <1>0, <2>1, SMT
  <2>3. PICK f \in [0..(n - 1) -> NonEmpty] : Right(f, n) BY <1>2, <2>2
  <2>. DEFINE new == IF n = CLEAR THEN <<0>> ELSE IF n < Letters THEN <<n>> ELSE Entry(f, prefix, suffix, n)
              g == [c \in 0..n |-> IF c = n THEN new ELSE f[c]]
  <2>4. n > CLEAR => prefix[n] \in 0..(n - 1) /\ prefix[n] # CLEAR /\ suffix[n] \in Bytes
    <3>1. /\ prefix[n] \in Codes /\ prefix[n] # CLEAR /\ suffix[n] \in Bytes
          /\ n > CLEAR => prefix[n] < n
      BY <2>2, ChainedFacts, Zenon
    <3>. QED BY <1>0, <3>1, SMT
  <2>5. new \in NonEmpty
    <3>1. 0 \in Bytes BY <1>0, SMT
    <3>2. CASE n = CLEAR BY <3>1, <3>2, ByteNonEmpty
    <3>3. CASE n # CLEAR /\ n < Letters
      <4>1. n \in Bytes BY <1>0, <3>3, SMT
      <4>. QED BY <3>3, <4>1, ByteNonEmpty
    <3>4. CASE n # CLEAR /\ ~(n < Letters)
      <4>1. n > CLEAR BY <1>0, <3>4, SMT
      <4>2. f[prefix[n]] \in NonEmpty BY <2>4, <4>1
      <4>. QED BY <2>4, <3>4, <4>1, <4>2, AppendNonEmpty DEF Entry
    <3>. QED BY <3>2, <3>3, <3>4
  <2>. HIDE DEF new
  <2>6. g \in [0..n -> NonEmpty] BY <2>5, SMT
  <2>7. Right(g, n + 1)
    <3>1. SUFFICES ASSUME NEW c \in 0..n, c # CLEAR
          PROVE  g[c] = IF c < Letters THEN <<c>> ELSE Entry(g, prefix, suffix, c)
      BY <2>2
    <3>2. c >= Letters => prefix[c] \in 0..(c - 1)
      <4>1. c \in Codes BY <1>0, <2>2, SMT
      <4>2. prefix[c] \in Codes /\ (c > CLEAR => prefix[c] < c) BY <4>1, ChainedFacts, Zenon
      <4>. QED BY <1>0, <3>1, <4>2, SMT
    <3>3. c >= Letters => g[prefix[c]] = f[prefix[c]] /\ prefix[c] \in 0..(n - 1) BY <3>2, SMT
    <3>4. CASE c = n BY <1>0, <3>1, <3>3, <3>4, SMT DEF new, Entry
    <3>5. CASE c # n
      <4>1. c \in 0..(n - 1) BY <3>5, SMT
      <4>2. f[c] = IF c < Letters THEN <<c>> ELSE Entry(f, prefix, suffix, c) BY <2>3, <3>1, <4>1
      <4>. QED BY <1>0, <3>3, <3>5, <4>1, <4>2, SMT DEF Entry
    <3>. QED BY <3>4, <3>5
  <2>. QED BY <2>2, <2>6, <2>7
<1>3. top \in S BY <1>0, <1>1, <1>2, Induction
<1>4. PICK f \in [0..(top - 1) -> NonEmpty] : Right(f, top) BY <1>0, <1>3, SMT
<1>. DEFINE last == Entry(f, prefix, suffix, CLEAR)
            s == [c \in Codes |-> IF c = CLEAR THEN last ELSE f[c]]
<1>5. CLEAR \in Codes /\ prefix[CLEAR] \in Codes /\ suffix[CLEAR] \in Bytes
  BY <1>0, SMT DEF Chained
<1>6. last \in NonEmpty
  <2>1. f[prefix[CLEAR]] \in NonEmpty BY <1>0, <1>5
  <2>. QED BY <1>5, <2>1, AppendNonEmpty DEF Entry
<1>7. \A c \in Codes : ~(c < Letters) => prefix[c] \in Codes /\ prefix[c] # CLEAR
  BY <1>5, SMT DEF Chained
<1>. HIDE DEF last
<1>8. s \in [Codes -> NonEmpty] BY <1>0, <1>6, SMT
<1>9. \A c \in Codes : s[c] = IF c < Letters THEN <<c>> ELSE Entry(s, prefix, suffix, c)
  <2>1. SUFFICES ASSUME NEW c \in Codes
        PROVE  s[c] = IF c < Letters THEN <<c>> ELSE Entry(s, prefix, suffix, c)
    OBVIOUS
  <2>2. ~(c < Letters) => s[prefix[c]] = f[prefix[c]] BY <1>7
  <2>3. CASE c = CLEAR 
    <3>1. s[CLEAR] = last /\ ~(c < Letters) BY <1>0, <1>5, <2>3, SMT
    <3>. QED BY <2>2, <2>3, <3>1, Zenon DEF last, Entry
  <2>4. CASE c # CLEAR
    <3>1. f[c] = IF c < Letters THEN <<c>> ELSE Entry(f, prefix, suffix, c) BY <1>0, <1>4, <2>4
    <3>2. s[c] = f[c] BY <2>4
    <3>. QED BY <2>2, <3>1, <3>2, Zenon DEF Entry
  <2>. QED BY <2>3, <2>4
<1>10. Solves(s, prefix, suffix) BY <1>9, Zenon DEF Solves
<1>. QED BY <1>8, <1>10

(* Whoever follows the entries below n comes to the same strings.          *)
LEMMA StringsAgree ==
  ASSUME NEW prefix, NEW suffix, Chained(prefix, suffix), NEW s, Solves(s, prefix, suffix),
         NEW n \in 0..2^BITS, NEW t, \A b \in Bytes : t[b] = <<b>>,
         \A e \in FIRST..(n - 1) : t[e] = Entry(t, prefix, suffix, e)
  PROVE  \A c \in 0..(n - 1) : c # CLEAR => s[c] = t[c]
<1>. DEFINE T == {c \in 0..(n - 1) : c # CLEAR /\ s[c] # t[c]}
<1>0. /\ Letters \in Nat /\ Letters > 0 /\ CLEAR = Letters /\ FIRST = Letters + 1 /\ 2^BITS \in Nat
      /\ Codes = 0..(2^BITS - 1) /\ Bytes = 0..(Letters - 1) /\ n \in Nat /\ n <= 2^BITS
  BY CodesFacts, SMT
<1>1. SUFFICES ASSUME T # {} PROVE FALSE OBVIOUS
<1>2. T \subseteq Nat BY <1>0, SMT
<1>3. PICK c \in T : \A m \in T : ~(m < c) BY <1>1, <1>2, Least
<1>4. c \in 0..(n - 1) /\ c # CLEAR /\ s[c] # t[c] BY <1>3
<1>5. c \in Codes BY <1>0, <1>4, SMT
<1>6. s[c] = IF c < Letters THEN <<c>> ELSE Entry(s, prefix, suffix, c) BY <1>5, Zenon DEF Solves
<1>7. CASE c < Letters
  <2>1. c \in Bytes BY <1>0, <1>4, <1>7, SMT
  <2>. QED BY <1>4, <1>6, <1>7, <2>1
<1>8. CASE ~(c < Letters)
  <2>1. c > CLEAR /\ c \in FIRST..(n - 1) BY <1>0, <1>4, <1>8, SMT
  <2>2. prefix[c] \in Codes /\ prefix[c] # CLEAR /\ prefix[c] < c BY <1>5, <2>1, ChainedFacts
  <2>3. prefix[c] \in 0..(n - 1) BY <1>0, <1>4, <2>2, SMT
  <2>4. s[prefix[c]] = t[prefix[c]] BY <1>3, <2>2, <2>3
  <2>5. s[c] = Entry(s, prefix, suffix, c) BY <1>6, <1>8
  <2>. QED BY <1>4, <2>1, <2>4, <2>5, Zenon DEF Entry
<1>. QED BY <1>7, <1>8

LEMMA StringsSolve ==
  ASSUME NEW prefix, NEW suffix, Chained(prefix, suffix)
  PROVE  /\ Solves(Strings(prefix, suffix), prefix, suffix)
         /\ Strings(prefix, suffix) \in [Codes -> NonEmpty]
<1>. DEFINE s == Strings(prefix, suffix)
            n == 2^BITS
<1>0. /\ Letters \in Nat /\ Letters > 0 /\ CLEAR = Letters /\ FIRST = Letters + 1 /\ n \in Nat
      /\ Codes = 0..(n - 1) /\ Bytes = 0..(Letters - 1) /\ FIRST < n /\ n \in 0..n
  BY CodesFacts, SMT
<1>1. PICK t \in [Codes -> NonEmpty] : Solves(t, prefix, suffix) BY StringsExist
<1>2. Solves(s, prefix, suffix) BY <1>1, Zenon DEF Strings
<1>. HIDE DEF s
<1>3. \A c \in Codes : t[c] = IF c < Letters THEN <<c>> ELSE Entry(t, prefix, suffix, c)
  BY <1>1, Zenon DEF Solves
<1>4. \A b \in Bytes : t[b] = <<b>>
  <2>1. SUFFICES ASSUME NEW b \in Bytes PROVE t[b] = <<b>> OBVIOUS
  <2>2. b \in Codes /\ b < Letters BY <1>0, SMT
  <2>. QED BY <1>3, <2>2
<1>5. \A e \in FIRST..(n - 1) : t[e] = Entry(t, prefix, suffix, e)
  <2>1. SUFFICES ASSUME NEW e \in FIRST..(n - 1) PROVE t[e] = Entry(t, prefix, suffix, e) OBVIOUS
  <2>2. e \in Codes /\ ~(e < Letters) BY <1>0, SMT
  <2>. QED BY <1>3, <2>2, Zenon
<1>. HIDE DEF n
<1>6. \A c \in 0..(n - 1) : c # CLEAR => s[c] = t[c]
  BY <1>0, <1>2, <1>4, <1>5, StringsAgree DEF n
<1>7. CLEAR \in Codes BY <1>0, SMT
<1>8. prefix[CLEAR] \in Codes /\ prefix[CLEAR] # CLEAR BY <1>7, ChainedFacts
<1>9. s[prefix[CLEAR]] = t[prefix[CLEAR]] BY <1>0, <1>6, <1>8
<1>10. \A c \in Codes : s[c] = IF c < Letters THEN <<c>> ELSE Entry(s, prefix, suffix, c)
  BY <1>2, Zenon DEF Solves
<1>11. s[CLEAR] = t[CLEAR]
  <2>1. ~(CLEAR < Letters) BY <1>0, SMT
  <2>. QED BY <1>3, <1>7, <1>9, <1>10, <2>1, Zenon DEF Entry
<1>12. \A c \in Codes : s[c] \in NonEmpty BY <1>0, <1>6, <1>11
<1>13. DOMAIN s = Codes /\ s = [c \in Codes |-> s[c]] BY <1>2, Zenon DEF Solves
<1>14. s \in [Codes -> NonEmpty] BY <1>12, <1>13
<1>. QED BY <1>2, <1>14 DEF s
-----------------------------------------------------------------------------
(* What the codes of a stream mean.  The state z between two codes is that *)
(* of a reader who has read everything up to here; m is maxbits.           *)

Change(z) == z.clear_flg \/ z.free_ent > z.maxcode
Bits(z) == IF z.clear_flg THEN INIT_BITS ELSE IF z.free_ent > z.maxcode THEN z.n_bits + 1 ELSE z.n_bits
Greatest(m, z) ==
  IF z.clear_flg THEN MAXCODE(INIT_BITS)
  ELSE IF z.free_ent > z.maxcode
  THEN (IF z.n_bits + 1 = m THEN 2^m ELSE MAXCODE(z.n_bits + 1)) ELSE z.maxcode

Decoded(z, c) ==
  IF c >= z.free_ent THEN Append(Strings(z.prefix, z.suffix)[z.oldcode], z.finchar)
  ELSE Strings(z.prefix, z.suffix)[c]

Core(z) ==
  [n_bits |-> z.n_bits, maxcode |-> z.maxcode, free_ent |-> z.free_ent, clear_flg |-> z.clear_flg,
   prefix |-> z.prefix, suffix |-> z.suffix, oldcode |-> z.oldcode, finchar |-> z.finchar]
Start ==
  [n_bits |-> INIT_BITS, maxcode |-> MAXCODE(INIT_BITS), free_ent |-> FIRST, clear_flg |-> FALSE,
   prefix |-> [c \in Codes |-> 0], suffix |-> [c \in Codes |-> 0], oldcode |-> 0, finchar |-> 0]
Started(z, c) ==
  [n_bits |-> z.n_bits, maxcode |-> z.maxcode, free_ent |-> z.free_ent, clear_flg |-> z.clear_flg,
   prefix |-> z.prefix, suffix |-> z.suffix, oldcode |-> c, finchar |-> c]
Cleared(m, z) ==
  [n_bits |-> Bits(z), maxcode |-> Greatest(m, z), free_ent |-> FIRST - 1, clear_flg |-> TRUE,
   prefix |-> z.prefix, suffix |-> z.suffix, oldcode |-> z.oldcode, finchar |-> z.finchar]
Added(m, z, c) ==
  LET n == z.free_ent
      first == Head(Decoded(z, c))
  IN [n_bits |-> Bits(z), maxcode |-> Greatest(m, z),
      free_ent |-> IF n >= 2^m THEN n ELSE n + 1, clear_flg |-> FALSE,
      prefix |-> IF n >= 2^m THEN z.prefix ELSE [z.prefix EXCEPT ![n] = z.oldcode],
      suffix |-> IF n >= 2^m THEN z.suffix ELSE [z.suffix EXCEPT ![n] = first],
      oldcode |-> c, finchar |-> first]

(* the i-th code, c, in state z *)
Then(m, z, c, i) ==
  IF i = 1 THEN Started(z, c) ELSE IF c = CLEAR THEN Cleared(m, z) ELSE Added(m, z, c)
Shown(z, c, i) == IF i = 1 THEN <<c>> ELSE IF c = CLEAR THEN <<>> ELSE Decoded(z, c)

(* a width, and its greatest code *)
Width(m, z) ==
  /\ z.n_bits \in INIT_BITS..BITS
  /\ z.maxcode = IF z.n_bits = INIT_BITS THEN MAXCODE(INIT_BITS)
                 ELSE IF z.n_bits = m THEN 2^m ELSE MAXCODE(z.n_bits)
(* a state that a reader can be in *)
Sound(m, z) ==
  /\ Width(m, z) /\ z.clear_flg \in BOOLEAN
  /\ z.free_ent \in Nat /\ z.free_ent >= CLEAR
  /\ z.free_ent <= FIRST \/ z.free_ent <= 2^m
  /\ Chained(z.prefix, z.suffix)
  /\ z.oldcode \in Codes /\ z.oldcode # CLEAR /\ z.finchar \in Bytes

(***************************************************************************)
(* The history of a stream of n codes: for each the state after it, the    *)
(* text up to it, and its place in a group.  A change of width, and a full *)
(* group, make the next code start a group.                                *)
(***************************************************************************)
Follows(m, a, b, i) ==
  /\ b.code \in Codes /\ (i = 1 => b.code \in Bytes)
  /\ b.z = Then(m, a.z, b.code, i)
  /\ b.text = a.text \o Shown(a.z, b.code, i)
  /\ IF Change(a.z) \/ a.place = GroupSize THEN b.group = a.group + 1 /\ b.place = 1
     ELSE b.group = a.group /\ b.place = a.place + 1
Trace(m, hist, n) ==
  /\ hist[0].z = Start /\ hist[0].text = <<>> /\ hist[0].group = 0 /\ hist[0].place = GroupSize
  /\ \A i \in 1..n : Follows(m, hist[i - 1], hist[i], i)
  /\ \A i \in 0..n : /\ Sound(m, hist[i].z) /\ hist[i].text \in Seq(Bytes)
                     /\ hist[i].group \in Nat /\ hist[i].place \in 1..GroupSize
  /\ \A i, j \in 0..n : i <= j => hist[i].group <= hist[j].group

(* where the codes are in what has been sent, s, and in the group g at hand *)
Sent(hist, i, s) ==
  /\ hist[i].group <= Len(s)
  /\ hist[i].place <= Len(s[hist[i].group].codes)
  /\ s[hist[i].group].codes[hist[i].place] = hist[i].code
  /\ s[hist[i].group].width = Bits(hist[i - 1].z)
Waiting(hist, i, s, g, bits) ==
  /\ hist[i].group = Len(s) + 1 /\ hist[i].place <= Len(g) /\ g[hist[i].place] = hist[i].code
  /\ bits = Bits(hist[i - 1].z)
Kept(hist, n, s, g, bits) == \A i \in 1..n : Sent(hist, i, s) \/ Waiting(hist, i, s, g, bits)

Open(hist, n, s, g, bits) ==
  /\ Kept(hist, n, s, g, bits)
  /\ \/ /\ hist[n].group = Len(s) + 1 /\ hist[n].place = Len(g)
        /\ ~Change(hist[n].z) /\ hist[n].place < GroupSize
     \/ /\ hist[n].group = Len(s) /\ g = <<>>
        /\ Change(hist[n].z) \/ hist[n].place = GroupSize
Ended(hist, n, s) ==
  /\ \A i \in 1..n : Sent(hist, i, s)
  /\ hist[n].group = Len(s)
  /\ Change(hist[n].z) \/ hist[n].place = GroupSize \/ hist[n].place = Len(s[hist[n].group].codes)

(* a stream of the codes of the data given *)
Prefix(a, b) == Len(a) <= Len(b) /\ \A i \in 1..Len(a) : a[i] = b[i]
Stream(m, hist, n, s, data) ==
  /\ Trace(m, hist, n) /\ data \in Seq(Bytes)
  /\ \A i \in 0..n : Prefix(hist[i].text, data)
  /\ \A i \in 1..Len(s) : Len(s[i].codes) <= GroupSize

-----------------------------------------------------------------------------
(* The writer.  S is what its codes stand for.                             *)

GivenOut(free) == {c \in Nat : c < free /\ c # CLEAR}
Spells(S, free) == (\A b \in Bytes : S[b] = <<b>>) /\ (\A c \in GivenOut(free) : S[c] \in NonEmpty)
Table(S, table, free) ==
  \A p \in DOMAIN table : \E q \in GivenOut(free), c \in Bytes :
    /\ p = <<q, c>> /\ table[p] \in GivenOut(free) /\ S[table[p]] = Append(S[q], c)
(* a reader in state z has the same strings *)
Agrees(S, z) ==
  /\ \A e \in FIRST..(z.free_ent - 1) : S[e] = Entry(S, z.prefix, z.suffix, e)
  /\ ~z.clear_flg => z.oldcode < z.free_ent /\ z.finchar = Head(S[z.oldcode])
(* How many entries the reader's table has: it has none to make for its    *)
(* first code; CLEAR it knows before the writer makes an entry; in general *)
(* it is one behind, until the table is full.  There may never be entries. *)
NoEntries(m, z, free) == z.free_ent = CLEAR /\ free = FIRST /\ 2^m <= CLEAR
Behind(m, S, z, n, free, ent) ==
  \/ n = 0 /\ ~z.clear_flg /\ z.free_ent = FIRST /\ free = FIRST
  \/ n > 0 /\ z.clear_flg /\ z.free_ent = CLEAR /\ free = FIRST
  \/ /\ n > 0 /\ ~z.clear_flg /\ z.free_ent + 1 = free /\ free <= 2^m /\ z.free_ent >= FIRST
     /\ S[z.free_ent] = Append(S[z.oldcode], Head(S[ent]))
  \/ /\ n > 0 /\ ~z.clear_flg /\ free >= 2^m /\ (z.free_ent = free \/ NoEntries(m, z, free))

Sync(m, S, x, z, n) ==
  /\ Spells(S, x.free_ent) /\ Table(S, x.table, x.free_ent) /\ Agrees(S, z)
  /\ x.ent \in GivenOut(x.free_ent) /\ x.free_ent \in Nat /\ x.free_ent >= FIRST
  /\ x.free_ent = FIRST \/ x.free_ent <= 2^m
  /\ Behind(m, S, z, n, x.free_ent, x.ent)
  /\ Bits(z) = x.n_bits /\ Greatest(m, z) = x.maxcode

-----------------------------------------------------------------------------
(* One more code: what it stands for, and the state after it.              *)

LEMMA DecodedNonEmpty ==
  ASSUME NEW m \in 1..BITS, NEW z, Sound(m, z), NEW c \in Codes PROVE Decoded(z, c) \in NonEmpty
<1>1. Strings(z.prefix, z.suffix) \in [Codes -> NonEmpty] BY StringsSolve, Zenon DEF Sound
<1>2. z.oldcode \in Codes /\ z.finchar \in Bytes BY Zenon DEF Sound
<1>3. Append(Strings(z.prefix, z.suffix)[z.oldcode], z.finchar) \in NonEmpty
  BY <1>1, <1>2, AppendNonEmpty
<1>. QED BY <1>1, <1>3 DEF Decoded

LEMMA HeadByte == ASSUME NEW s \in NonEmpty PROVE Head(s) \in Bytes
BY SMT DEF NonEmpty

(* The reader decodes the code at hand to what it stands for.              *)
LEMMA DecodesEnt ==
  ASSUME NEW m \in 1..BITS, NEW S, NEW x, NEW z, NEW n \in Nat, Sync(m, S, x, z, n), Sound(m, z)
  PROVE  /\ Shown(z, x.ent, n + 1) = S[x.ent] /\ S[x.ent] \in NonEmpty
         /\ x.ent \in Codes /\ x.ent # CLEAR
         /\ n = 0 => x.ent \in Bytes
         /\ n # 0 => Decoded(z, x.ent) = S[x.ent]
<1>. DEFINE ent == x.ent
            free == x.free_ent
            str == Strings(z.prefix, z.suffix)
<1>0. /\ 2^BITS \in Nat /\ Letters \in Nat /\ Letters > 0 /\ CLEAR = Letters /\ FIRST = Letters + 1
      /\ FIRST < 2^BITS /\ Codes = 0..(2^BITS - 1) /\ Bytes = 0..(Letters - 1)
  BY CodesFacts
<1>1. 2^m \in Nat /\ 2^m <= 2^BITS
  <2>1. m \in 0..BITS /\ BITS \in 0..BITS BY LzwAssumption, SMT
  <2>2. CASE m = BITS BY <2>2, <1>0, SMT
  <2>3. CASE m < BITS BY <2>1, <2>3, PowersGrow, SMT
  <2>. QED BY <2>1, <2>2, <2>3, SMT
<1>2. /\ ent \in Nat /\ ent < free /\ ent # CLEAR /\ free \in Nat /\ S[ent] \in NonEmpty
      /\ free = FIRST \/ free <= 2^m
  BY Zenon DEF Sync, GivenOut, Spells
<1>3. ent \in Codes BY <1>0, <1>1, <1>2, SMT
<1>4. ent < FIRST => ent \in Bytes BY <1>0, <1>2, SMT
<1>5. z.free_ent \in Nat /\ z.free_ent >= CLEAR /\ Chained(z.prefix, z.suffix)
      /\ (z.free_ent <= FIRST \/ z.free_ent <= 2^m) /\ z.oldcode \in Codes /\ z.oldcode # CLEAR
      /\ z.finchar \in Bytes
  BY Zenon DEF Sound
<1>6. z.free_ent \in 0..2^BITS BY <1>0, <1>1, <1>5, SMT
<1>7. \A c \in 0..(z.free_ent - 1) : c # CLEAR => str[c] = S[c]
  <2>1. Solves(str, z.prefix, z.suffix) BY <1>5, StringsSolve
  <2>2. \A b \in Bytes : S[b] = <<b>> BY Zenon DEF Sync, Spells
  <2>3. \A e \in FIRST..(z.free_ent - 1) : S[e] = Entry(S, z.prefix, z.suffix, e)
    BY Zenon DEF Sync, Agrees
  <2>. HIDE DEF str
  <2>. QED BY <1>5, <1>6, <2>1, <2>2, <2>3, StringsAgree
<1>8. CASE n = 0
  <2>1. free = FIRST BY <1>8, SMT DEF Sync, Behind
  <2>2. ent \in Bytes BY <1>2, <1>4, <2>1
  <2>3. S[ent] = <<ent>> BY <2>2, Zenon DEF Sync, Spells
  <2>4. n + 1 = 1 BY <1>8
  <2>. QED BY <1>2, <1>3, <1>8, <2>2, <2>3, <2>4, Zenon DEF Shown
<1>9. CASE n # 0
  <2>1. n + 1 # 1 BY <1>9, SMT
  <2>2. Decoded(z, ent) = S[ent]
    <3>1. CASE ent < z.free_ent
      <4>1. ent \in 0..(z.free_ent - 1) /\ ~(ent >= z.free_ent) BY <1>2, <1>5, <3>1, SMT
      <4>. QED BY <1>2, <1>7, <4>1, Zenon DEF Decoded
    <3>2. CASE ~(ent < z.free_ent)
      <4>1. ~z.clear_flg /\ z.free_ent + 1 = free /\ S[z.free_ent] = Append(S[z.oldcode], Head(S[ent]))
        <5>1. Behind(m, S, z, n, free, ent) BY Zenon DEF Sync
        <5>2. ~(free = FIRST /\ z.free_ent = CLEAR) BY <1>0, <1>2, <3>2, SMT
        <5>3. z.free_ent # free BY <1>2, <3>2, SMT
        <5>. QED BY <1>9, <5>1, <5>2, <5>3, Zenon DEF Behind, NoEntries
      <4>2. ent = z.free_ent BY <1>2, <1>5, <3>2, <4>1, SMT
      <4>3. z.oldcode < z.free_ent /\ z.finchar = Head(S[z.oldcode]) BY <4>1, Zenon DEF Sync, Agrees
      <4>4. z.oldcode \in 0..(z.free_ent - 1) BY <1>0, <1>5, <4>3, SMT
      <4>5. str[z.oldcode] = S[z.oldcode] BY <1>5, <1>7, <4>4
      <4>6. S[z.oldcode] \in NonEmpty
        <5>1. z.oldcode \in Nat /\ z.oldcode # CLEAR
          <6>1. Codes \subseteq Nat BY <1>0, SMT
          <6>. QED BY <1>5, <6>1
        <5>2. z.oldcode < free BY <1>2, <1>5, <4>1, <4>3, <5>1, SMT
        <5>3. z.oldcode \in GivenOut(free) BY <5>1, <5>2, Zenon DEF GivenOut
        <5>. QED BY <5>3, Zenon DEF Sync, Spells
      <4>7. Head(S[ent]) \in Bytes BY <1>2, HeadByte
      <4>8. S[ent] = Append(S[z.oldcode], Head(S[ent])) BY <4>1, <4>2
      <4>9. Head(S[ent]) = Head(S[z.oldcode]) BY <4>6, <4>7, <4>8, AppendNonEmpty
      <4>10. ent >= z.free_ent BY <1>2, <4>2, SMT
      <4>. QED BY <4>3, <4>5, <4>8, <4>9, <4>10, Zenon DEF Decoded
    <3>. QED BY <3>1, <3>2
  <2>. QED BY <1>2, <1>3, <1>9, <2>1, <2>2, Zenon DEF Shown
<1>. QED BY <1>8, <1>9

LEMMA PowerBound == ASSUME NEW m \in 1..BITS PROVE 2^m \in Nat /\ 2^m <= 2^BITS
<1>1. m \in 0..BITS /\ BITS \in 0..BITS /\ 2^BITS \in Nat BY LzwAssumption, CodesFacts, SMT
<1>2. CASE m = BITS BY <1>1, <1>2, SMT
<1>3. CASE m < BITS BY <1>1, <1>3, PowersGrow, SMT
<1>. QED BY <1>1, <1>2, <1>3, SMT

LEMMA FirstBelow ==
  ASSUME NEW m \in 1..BITS, NEW z, Width(m, z) PROVE z.maxcode \in Int /\ FIRST <= z.maxcode
<1>1. z.n_bits \in INIT_BITS..BITS /\ INIT_BITS \in INIT_BITS..BITS BY LzwAssumption, SMT DEF Width
<1>2. /\ FIRST < 2^z.n_bits /\ 2^z.n_bits \in Nat /\ FIRST < 2^INIT_BITS /\ 2^INIT_BITS \in Nat
      /\ FIRST \in Nat
  BY <1>1, FirstFits
<1>3. z.maxcode \in {MAXCODE(INIT_BITS), 2^z.n_bits, MAXCODE(z.n_bits)} BY Zenon DEF Width
<1>. QED BY <1>2, <1>3, SMT DEF MAXCODE

Adds(m, z, c, y) ==
  /\ y.n_bits = Bits(z) /\ y.maxcode = Greatest(m, z) /\ y.clear_flg = FALSE
  /\ y.oldcode = c /\ y.finchar = Head(Decoded(z, c))
  /\ z.free_ent >= 2^m => y.free_ent = z.free_ent /\ y.prefix = z.prefix /\ y.suffix = z.suffix
  /\ ~(z.free_ent >= 2^m) =>
       /\ y.free_ent = z.free_ent + 1
       /\ y.prefix = [z.prefix EXCEPT ![z.free_ent] = z.oldcode]
       /\ y.suffix = [z.suffix EXCEPT ![z.free_ent] = Head(Decoded(z, c))]

LEMMA AddedFields == \A m, z, c : Adds(m, z, c, Added(m, z, c))
<1>. SUFFICES ASSUME NEW m, NEW z, NEW c, NEW y, y = Added(m, z, c) PROVE Adds(m, z, c, y)
  OBVIOUS
<1>. DEFINE first == Head(Decoded(z, c))
            n == z.free_ent
            full == n >= 2^m
            one == n + 1
            prefix == IF full THEN z.prefix ELSE [z.prefix EXCEPT ![n] = z.oldcode]
            suffix == IF full THEN z.suffix ELSE [z.suffix EXCEPT ![n] = first]
            free == IF full THEN n ELSE one
            bits == Bits(z)
            max == Greatest(m, z)
<1>1. y = [n_bits |-> bits, maxcode |-> max, free_ent |-> free, clear_flg |-> FALSE, prefix |-> prefix,
           suffix |-> suffix, oldcode |-> c, finchar |-> first]
  BY Zenon DEF Added
<1>. HIDE DEF prefix, suffix, free, bits, max, first
<1>2. /\ y.n_bits = bits /\ y.maxcode = max /\ y.clear_flg = FALSE /\ y.oldcode = c
      /\ y.finchar = first /\ y.prefix = prefix /\ y.suffix = suffix /\ y.free_ent = free
  BY <1>1, SMT
<1>. QED BY <1>2, Zenon DEF prefix, suffix, free, bits, max, first, Adds

(* An entry keeps the chains of prefixes going down.                       *)
LEMMA ChainedAdd ==
  ASSUME NEW prefix, NEW suffix, Chained(prefix, suffix), NEW n \in Codes, NEW c \in Codes, c # CLEAR,
         NEW b \in Bytes, n = CLEAR \/ c < n
  PROVE  Chained([prefix EXCEPT ![n] = c], [suffix EXCEPT ![n] = b])
<1>1. n > CLEAR => c < n
  <2>1. CLEAR \in Nat BY CodesFacts
  <2>. QED BY <2>1, SMT
<1>2. [prefix EXCEPT ![n] = c] \in [Codes -> Codes \ {CLEAR}] BY Zenon DEF Chained
<1>3. [suffix EXCEPT ![n] = b] \in [Codes -> Bytes] BY Zenon DEF Chained
<1>4. ASSUME NEW d \in Codes, d > CLEAR PROVE [prefix EXCEPT ![n] = c][d] < d
  BY <1>1, <1>4, Zenon DEF Chained
<1>. QED BY <1>2, <1>3, <1>4, Zenon DEF Chained

LEMMA AfterEnt ==
  ASSUME NEW m \in 1..BITS, NEW S, NEW x, NEW z, NEW n \in Nat, Sync(m, S, x, z, n), Sound(m, z),
         Width(m, x), NEW y, y = Then(m, z, x.ent, n + 1)
  PROVE  /\ Sound(m, y) /\ y.clear_flg = FALSE /\ y.n_bits = x.n_bits /\ y.maxcode = x.maxcode
         /\ y.oldcode = x.ent /\ Agrees(S, y)
         /\ y.free_ent = x.free_ent \/ NoEntries(m, y, x.free_ent)
<1>. DEFINE ent == x.ent
            free == x.free_ent
<1>0. /\ 2^BITS \in Nat /\ Letters \in Nat /\ Letters > 0 /\ CLEAR = Letters /\ FIRST = Letters + 1
      /\ FIRST < 2^BITS /\ Codes = 0..(2^BITS - 1) /\ Bytes = 0..(Letters - 1)
  BY CodesFacts
<1>1. 2^m \in Nat /\ 2^m <= 2^BITS BY PowerBound
<1>2. /\ ent \in Nat /\ ent < free /\ ent # CLEAR /\ free \in Nat /\ S[ent] \in NonEmpty
      /\ free = FIRST \/ free <= 2^m
  BY Zenon DEF Sync, GivenOut, Spells
<1>3. /\ Shown(z, ent, n + 1) = S[ent] /\ ent \in Codes /\ (n = 0 => ent \in Bytes)
      /\ n # 0 => Decoded(z, ent) = S[ent]
  BY DecodesEnt
<1>4. z.free_ent \in Nat /\ z.free_ent >= CLEAR /\ Chained(z.prefix, z.suffix)
      /\ (z.free_ent <= FIRST \/ z.free_ent <= 2^m) /\ z.oldcode \in Codes /\ z.oldcode # CLEAR
      /\ z.finchar \in Bytes /\ Width(m, z) /\ z.clear_flg \in BOOLEAN
  BY Zenon DEF Sound
<1>5. Head(S[ent]) \in Bytes BY <1>2, HeadByte
<1>6. Bits(z) = x.n_bits /\ Greatest(m, z) = x.maxcode BY Zenon DEF Sync
<1>7. Behind(m, S, z, n, free, ent) BY Zenon DEF Sync
<1>8. CASE n = 0
  <2>1. n + 1 = 1 BY <1>8
  <2>2. y = Started(z, ent) BY <2>1, Zenon DEF Then
  <2>3. /\ y.n_bits = z.n_bits /\ y.maxcode = z.maxcode /\ y.free_ent = z.free_ent
        /\ y.clear_flg = z.clear_flg /\ y.prefix = z.prefix /\ y.suffix = z.suffix
        /\ y.oldcode = ent /\ y.finchar = ent
    BY <2>2, SMT DEF Started
  <2>4. ~z.clear_flg /\ z.free_ent = FIRST /\ free = FIRST BY <1>7, <1>8, SMT DEF Behind
  <2>5. ~(z.free_ent > z.maxcode)
    <3>1. z.maxcode \in Int /\ FIRST <= z.maxcode BY <1>4, FirstBelow
    <3>. QED BY <1>0, <2>4, <3>1, SMT
  <2>6. y.n_bits = x.n_bits /\ y.maxcode = x.maxcode BY <1>6, <2>3, <2>4, <2>5, Zenon DEF Bits, Greatest
  <2>7. S[ent] = <<ent>> /\ ent \in Bytes BY <1>3, <1>8, Zenon DEF Sync, Spells
  <2>8. y.finchar = Head(S[ent]) BY <2>3, <2>7, ByteNonEmpty
  <2>9. \A e \in FIRST..(y.free_ent - 1) : S[e] = Entry(S, y.prefix, y.suffix, e)
    BY <2>3, Zenon DEF Sync, Agrees
  <2>10. Agrees(S, y) BY <1>2, <2>3, <2>4, <2>8, <2>9, Zenon DEF Agrees
  <2>11. Width(m, y) BY <1>4, <2>3, Zenon DEF Width
  <2>12. Sound(m, y) BY <1>2, <1>3, <1>4, <2>3, <2>7, <2>11, Zenon DEF Sound
  <2>. QED BY <1>4, <2>3, <2>4, <2>6, <2>10, <2>12, Zenon
<1>9. CASE n # 0
  <2>1. n + 1 # 1 BY <1>9, SMT
  <2>2. y = Added(m, z, ent) BY <1>2, <2>1, Zenon DEF Then
  <2>3. Decoded(z, ent) = S[ent] BY <1>3, <1>9
  <2>4. /\ y.n_bits = x.n_bits /\ y.maxcode = x.maxcode /\ y.clear_flg = FALSE
        /\ y.oldcode = ent /\ y.finchar = Head(S[ent])
        /\ z.free_ent >= 2^m => /\ y.free_ent = z.free_ent /\ y.prefix = z.prefix
                                /\ y.suffix = z.suffix
        /\ ~(z.free_ent >= 2^m) =>
             /\ y.free_ent = z.free_ent + 1
             /\ y.prefix = [z.prefix EXCEPT ![z.free_ent] = z.oldcode]
             /\ y.suffix = [z.suffix EXCEPT ![z.free_ent] = Head(S[ent])]
    <3>1. Adds(m, z, x.ent, y) BY <2>2, AddedFields, Zenon
    <3>. QED BY <1>6, <2>3, <3>1, Zenon DEF Adds
  <2>5. Width(m, y) BY <2>4, Zenon DEF Width
  <2>6. CASE z.free_ent >= 2^m
    <3>1. z.free_ent = free \/ NoEntries(m, z, free)
      <4>1. CASE z.clear_flg
        <5>1. z.free_ent = CLEAR /\ free = FIRST BY <1>7, <1>9, <4>1, SMT DEF Behind
        <5>. QED BY <2>6, <5>1, SMT DEF NoEntries
      <4>2. CASE ~z.clear_flg
        <5>1. ~(z.free_ent + 1 = free /\ free <= 2^m) BY <1>1, <1>2, <1>4, <2>6, SMT
        <5>. QED BY <1>7, <1>9, <4>2, <5>1, Zenon DEF Behind
      <4>. QED BY <4>1, <4>2
    <3>2. y.free_ent = free \/ NoEntries(m, y, free) BY <2>4, <2>6, <3>1, Zenon DEF NoEntries
    <3>3. ent < y.free_ent
      <4>1. CASE z.free_ent = free BY <1>2, <2>4, <2>6, <4>1
      <4>2. CASE NoEntries(m, z, free)
        <5>1. z.free_ent = CLEAR /\ free = FIRST BY <4>2, Zenon DEF NoEntries
        <5>2. ent < CLEAR BY <1>0, <1>2, <5>1, SMT
        <5>. QED BY <2>4, <2>6, <5>1, <5>2
      <4>. QED BY <3>1, <4>1, <4>2
    <3>4. Agrees(S, y)
      <4>1. \A e \in FIRST..(y.free_ent - 1) : S[e] = Entry(S, y.prefix, y.suffix, e)
        BY <2>4, <2>6, Zenon DEF Sync, Agrees
      <4>. QED BY <2>4, <3>3, <4>1, Zenon DEF Agrees
    <3>5. Sound(m, y) BY <1>2, <1>3, <1>4, <1>5, <2>4, <2>5, <2>6, Zenon DEF Sound
    <3>. QED BY <2>4, <3>2, <3>4, <3>5
  <2>7. CASE ~(z.free_ent >= 2^m)
    <3>1. z.free_ent \in Codes /\ z.free_ent + 1 \in Nat
      <4>1. z.free_ent \in Nat BY <1>4
      <4>2. PICK next \in Nat : next = z.free_ent BY <4>1
      <4>3. ~(next >= 2^m) BY <2>7, <4>2
      <4>4. next < 2^BITS BY <1>0, <1>1, <4>3, SMT
      <4>5. next \in 0..(2^BITS - 1) /\ next + 1 \in Nat BY <1>0, <4>4, SMT
      <4>. QED BY <1>0, <4>2, <4>5
    <3>2. z.free_ent + 1 = free /\ (z.free_ent = CLEAR \/ z.oldcode < z.free_ent)
      <4>1. CASE z.clear_flg
        <5>1. z.free_ent = CLEAR /\ free = FIRST BY <1>7, <1>9, <4>1, SMT DEF Behind
        <5>. QED BY <1>0, <5>1, SMT
      <4>2. CASE ~z.clear_flg
        <5>1. z.oldcode < z.free_ent BY <4>2, Zenon DEF Sync, Agrees
        <5>2. ~(free >= 2^m /\ (z.free_ent = free \/ NoEntries(m, z, free)))
          <6>1. CASE z.free_ent = free BY <1>1, <1>2, <2>7, <6>1, SMT
          <6>2. CASE NoEntries(m, z, free) BY <1>0, <1>1, <2>7, <6>2, SMT DEF NoEntries
          <6>. QED BY <6>1, <6>2
        <5>3. z.free_ent + 1 = free BY <1>7, <1>9, <4>2, <5>2, Zenon DEF Behind
        <5>. QED BY <5>1, <5>3
      <4>. QED BY <4>1, <4>2
    <3>3. y.free_ent = free BY <2>4, <2>7, <3>2
    <3>4. Chained(y.prefix, y.suffix) BY <1>4, <1>5, <2>4, <2>7, <3>1, <3>2, ChainedAdd
    <3>5. \A e \in FIRST..(y.free_ent - 1) : S[e] = Entry(S, y.prefix, y.suffix, e)
      <4>1. SUFFICES ASSUME NEW e \in FIRST..(y.free_ent - 1)
            PROVE  S[e] = Entry(S, y.prefix, y.suffix, e)
        OBVIOUS
      <4>2. e \in Codes /\ (e # z.free_ent => e \in FIRST..(z.free_ent - 1))
        <5>1. y.free_ent = z.free_ent + 1 BY <3>2, <3>3
        <5>2. PICK last \in Nat : last = z.free_ent /\ last <= 2^BITS - 1 BY <1>0, <1>4, <3>1, SMT
        <5>3. e \in FIRST..last BY <5>1, <5>2, <1>0, SMT
        <5>. QED BY <1>0, <5>2, <5>3, SMT
      <4>3. CASE e # z.free_ent
        <5>1. y.prefix[e] = z.prefix[e] /\ y.suffix[e] = z.suffix[e]
          BY <1>4, <2>4, <2>7, <4>2, <4>3, Zenon DEF Chained
        <5>2. S[e] = Entry(S, z.prefix, z.suffix, e) BY <4>2, <4>3, Zenon DEF Sync, Agrees
        <5>. QED BY <5>1, <5>2, Zenon DEF Entry
      <4>4. CASE e = z.free_ent
        <5>1. y.prefix[e] = z.oldcode /\ y.suffix[e] = Head(S[ent])
          BY <1>4, <2>4, <2>7, <3>1, <4>4, Zenon DEF Chained
        <5>2. z.free_ent >= FIRST BY <4>4, <1>0, <1>4, SMT
        <5>3. S[z.free_ent] = Append(S[z.oldcode], Head(S[ent]))
          <6>1. ~z.clear_flg
            <7>1. z.free_ent # CLEAR BY <1>0, <5>2, SMT
            <7>. QED BY <1>7, <1>9, <7>1, SMT DEF Behind
          <6>2. ~(free >= 2^m /\ (z.free_ent = free \/ NoEntries(m, z, free)))
            <7>1. z.free_ent # free BY <1>4, <3>2, SMT
            <7>2. ~NoEntries(m, z, free) BY <1>0, <5>2, SMT DEF NoEntries
            <7>. QED BY <7>1, <7>2
          <6>. QED BY <1>7, <1>9, <6>1, <6>2, Zenon DEF Behind
        <5>. QED BY <4>4, <5>1, <5>3, Zenon DEF Entry
      <4>. QED BY <4>3, <4>4
    <3>6. Agrees(S, y) BY <1>2, <2>4, <3>3, <3>5, Zenon DEF Agrees
    <3>7. free >= CLEAR /\ (free <= FIRST \/ free <= 2^m) BY <1>0, <1>1, <1>2, <1>4, <3>2, SMT
    <3>8. Sound(m, y) BY <1>2, <1>3, <1>5, <2>4, <2>5, <3>3, <3>4, <3>7, Zenon DEF Sound
    <3>. QED BY <2>4, <3>3, <3>6, <3>8
  <2>. QED BY <2>6, <2>7
<1>. QED BY <1>8, <1>9
-----------------------------------------------------------------------------
(* One more item of the history.                                           *)

Item(m, a, code, i) ==
  LET new == Change(a.z) \/ a.place = GroupSize
  IN [code |-> code, z |-> Then(m, a.z, code, i), text |-> a.text \o Shown(a.z, code, i),
      group |-> IF new THEN a.group + 1 ELSE a.group, place |-> IF new THEN 1 ELSE a.place + 1]
More(m, hist, n, code) ==
  [i \in Nat |-> IF i = n + 1 THEN Item(m, hist[n], code, n + 1) ELSE hist[i]]

IsItem(m, a, code, i, b) ==
  /\ b.code = code /\ b.z = Then(m, a.z, code, i) /\ b.text = a.text \o Shown(a.z, code, i)
  /\ Change(a.z) \/ a.place = GroupSize => b.group = a.group + 1 /\ b.place = 1
  /\ ~(Change(a.z) \/ a.place = GroupSize) => b.group = a.group /\ b.place = a.place + 1

LEMMA ItemFields == \A m, a, code, i : IsItem(m, a, code, i, Item(m, a, code, i))
<1>. SUFFICES ASSUME NEW m, NEW a, NEW code, NEW i, NEW b, b = Item(m, a, code, i)
              PROVE  IsItem(m, a, code, i, b)
  OBVIOUS
<1>. DEFINE new == Change(a.z) \/ a.place = GroupSize
            group == IF new THEN a.group + 1 ELSE a.group
            place == IF new THEN 1 ELSE a.place + 1
            z == Then(m, a.z, code, i)
            text == a.text \o Shown(a.z, code, i)
<1>1. b = [code |-> code, z |-> z, text |-> text, group |-> group, place |-> place] BY Zenon DEF Item
<1>. HIDE DEF group, place, z, text
<1>2. b.code = code /\ b.z = z /\ b.text = text /\ b.group = group /\ b.place = place BY <1>1, SMT
<1>. QED BY <1>2, Zenon DEF group, place, z, text, IsItem

LEMMA TraceGrows ==
  ASSUME NEW m, NEW hist, NEW n \in Nat, Trace(m, hist, n), NEW code \in Codes,
         n = 0 => code \in Bytes,
         Sound(m, Then(m, hist[n].z, code, n + 1)), Shown(hist[n].z, code, n + 1) \in Seq(Bytes),
         NEW hist2, hist2 = More(m, hist, n, code)
  PROVE  /\ Trace(m, hist2, n + 1) /\ hist2[n + 1] = Item(m, hist[n], code, n + 1)
         /\ \A i \in 0..n : hist2[i] = hist[i]
<1>. DEFINE b == Item(m, hist[n], code, n + 1)
<1>1. /\ hist2[n + 1] = b
      /\ \A i \in 0..n : hist2[i] = hist[i]
  BY SMT DEF More
<1>2. /\ b.code = code /\ b.z = Then(m, hist[n].z, code, n + 1)
      /\ b.text = hist[n].text \o Shown(hist[n].z, code, n + 1)
      /\ Change(hist[n].z) \/ hist[n].place = GroupSize => b.group = hist[n].group + 1 /\ b.place = 1
      /\ ~(Change(hist[n].z) \/ hist[n].place = GroupSize) =>
           b.group = hist[n].group /\ b.place = hist[n].place + 1
  <2>1. IsItem(m, hist[n], code, n + 1, b) BY ItemFields, Zenon
  <2>. QED BY <2>1, Zenon DEF IsItem
<1>. HIDE DEF b
<1>3. /\ Sound(m, hist[n].z) /\ hist[n].text \in Seq(Bytes)
      /\ hist[n].group \in Nat /\ hist[n].place \in 1..GroupSize
  BY SMT DEF Trace
<1>4. b.group \in Nat /\ b.group >= hist[n].group /\ b.place \in 1..GroupSize
  <2>1. GroupSize \in Nat /\ GroupSize > 0 BY LzwAssumption, SMT
  <2>2. CASE Change(hist[n].z) \/ hist[n].place = GroupSize
    <3>1. b.group = hist[n].group + 1 /\ b.place = 1 BY <1>2, <2>2
    <3>. QED BY <1>3, <2>1, <3>1, SMT
  <2>3. CASE ~(Change(hist[n].z) \/ hist[n].place = GroupSize)
    <3>1. b.group = hist[n].group /\ b.place = hist[n].place + 1 BY <1>2, <2>3
    <3>. QED BY <1>3, <2>1, <2>3, <3>1, SMT
  <2>. QED BY <2>2, <2>3
<1>5. b.text \in Seq(Bytes) BY <1>2, <1>3, SMT
<1>6. Follows(m, hist[n], b, n + 1)
  <2>1. n + 1 = 1 => code \in Bytes BY SMT
  <2>. QED BY <1>2, <2>1, Zenon DEF Follows
<1>7. ASSUME NEW i \in 1..(n + 1) PROVE Follows(m, hist2[i - 1], hist2[i], i)
  <2>1. CASE i = n + 1
    <3>1. hist2[i - 1] = hist[n] /\ hist2[i] = b BY <1>1, <2>1, SMT
    <3>. QED BY <1>6, <2>1, <3>1
  <2>2. CASE i # n + 1
    <3>1. i \in 1..n /\ i - 1 \in 0..n /\ i \in 0..n BY <2>2, SMT
    <3>2. Follows(m, hist[i - 1], hist[i], i) BY <3>1, Zenon DEF Trace
    <3>. QED BY <1>1, <3>1, <3>2
  <2>. QED BY <2>1, <2>2
<1>8. ASSUME NEW i \in 0..(n + 1)
      PROVE  /\ Sound(m, hist2[i].z) /\ hist2[i].text \in Seq(Bytes)
             /\ hist2[i].group \in Nat /\ hist2[i].place \in 1..GroupSize
  <2>1. CASE i = n + 1
    <3>1. hist2[i] = b BY <1>1, <2>1
    <3>. QED BY <1>2, <1>4, <1>5, <3>1
  <2>2. CASE i # n + 1
    <3>1. i \in 0..n BY <2>2, SMT
    <3>. QED BY <1>1, <3>1, Zenon DEF Trace
  <2>. QED BY <2>1, <2>2
<1>9. ASSUME NEW i \in 0..(n + 1), NEW j \in 0..(n + 1), i <= j PROVE hist2[i].group <= hist2[j].group
  <2>1. CASE j = n + 1 /\ i = n + 1 
    <3>1. hist2[i].group \in Nat /\ i = j BY <1>8, <2>1
    <3>. QED BY <3>1, SMT
  <2>2. CASE j = n + 1 /\ i # n + 1
    <3>1. i \in 0..n /\ n \in 0..n /\ i <= n BY <2>2, SMT
    <3>2. hist[i].group <= hist[n].group BY <3>1, Zenon DEF Trace
    <3>3. hist2[i] = hist[i] /\ hist2[j] = b /\ hist2[i].group \in Nat BY <1>1, <1>8, <2>2, <3>1
    <3>. QED BY <1>3, <1>4, <3>2, <3>3, SMT
  <2>3. CASE j # n + 1
    <3>1. i \in 0..n /\ j \in 0..n BY <1>9, <2>3, SMT
    <3>2. hist[i].group <= hist[j].group BY <1>9, <3>1, Zenon DEF Trace
    <3>. QED BY <1>1, <3>1, <3>2
  <2>. QED BY <2>1, <2>2, <2>3
<1>10. hist2[0] = hist[0] BY <1>1, SMT
<1>11. Trace(m, hist2, n + 1) BY <1>7, <1>8, <1>9, <1>10, Zenon DEF Trace
<1>. QED BY <1>1, <1>11 DEF b
-----------------------------------------------------------------------------
(* Writing a group sends the codes that wait in it.                        *)

LEMMA GroupsStart ==
  ASSUME NEW m, NEW hist, NEW n \in Nat, Trace(m, hist, n), NEW i \in 1..n
  PROVE  hist[i].group \in Nat /\ hist[i].group >= 1 /\ hist[i].place \in 1..GroupSize
<1>1. 1 \in 1..n /\ 1 \in 0..n /\ i \in 0..n /\ 1 <= i /\ 1 - 1 = 0 BY SMT
<1>2. Follows(m, hist[0], hist[1], 1) BY <1>1, Zenon DEF Trace
<1>3. hist[0].place = GroupSize /\ hist[0].group = 0 BY Zenon DEF Trace
<1>4. hist[1].group = 0 + 1 BY <1>2, <1>3, Zenon DEF Follows
<1>5. hist[1].group <= hist[i].group /\ hist[i].group \in Nat /\ hist[i].place \in 1..GroupSize
  BY <1>1, Zenon DEF Trace
<1>. QED BY <1>4, <1>5, SMT

Flushed(z, s, codes, s2) ==
  /\ Len(s2) = Len(s) + 1 /\ \A j \in 1..Len(s) : s2[j] = s[j]
  /\ s2[Len(s) + 1].width = z.n_bits /\ s2[Len(s) + 1].codes = codes

LEMMA FlushFields ==
  ASSUME NEW z, NEW T, NEW s \in Seq(T), NEW codes PROVE Flushed(z, s, codes, Flush(z, s, codes))
<1>. SUFFICES ASSUME NEW s2, s2 = Flush(z, s, codes) PROVE Flushed(z, s, codes, s2) OBVIOUS
<1>. DEFINE g == [width |-> z.n_bits, codes |-> codes]
            U == T \cup {g}
<1>1. g.width = z.n_bits /\ g.codes = codes BY SMT
<1>2. s2 = Append(s, g) BY Zenon DEF Flush
<1>. HIDE DEF g
<1>3. s \in Seq(U) /\ g \in U
  <2>1. T \subseteq U OBVIOUS
  <2>. HIDE DEF U
  <2>2. s \in Seq(U) BY <2>1, SMT
  <2>. QED BY <2>2 DEF U
<1>. HIDE DEF U
<1>. QED BY <1>1, <1>2, <1>3, SMT DEF Flushed

LEMMA FlushSends ==
  ASSUME NEW m, NEW hist, NEW n \in Nat, Trace(m, hist, n), NEW z, NEW T, NEW s \in Seq(T), NEW g,
         Kept(hist, n, s, g, z.n_bits), Len(g) \in Nat, NEW codes, Len(codes) \in Nat,
         Len(g) <= Len(codes), \A j \in 1..Len(g) : codes[j] = g[j], NEW s2, s2 = Flush(z, s, codes)
  PROVE  \A i \in 1..n : Sent(hist, i, s2)
<1>. SUFFICES ASSUME NEW i \in 1..n PROVE Sent(hist, i, s2) OBVIOUS
<1>1. /\ Len(s2) = Len(s) + 1 /\ \A j \in 1..Len(s) : s2[j] = s[j]
      /\ s2[Len(s) + 1].width = z.n_bits /\ s2[Len(s) + 1].codes = codes
  <2>1. Flushed(z, s, codes, s2) BY FlushFields
  <2>. QED BY <2>1, Zenon DEF Flushed
<1>2. hist[i].group \in Nat /\ hist[i].group >= 1 /\ hist[i].place \in 1..GroupSize /\ Len(s) \in Nat
  <2>1. Len(s) \in Nat BY SMT
  <2>. QED BY <2>1, GroupsStart
<1>3. CASE Sent(hist, i, s)
  <2>1. hist[i].group \in 1..Len(s) /\ hist[i].group <= Len(s2) BY <1>1, <1>2, <1>3, SMT DEF Sent
  <2>2. s2[hist[i].group] = s[hist[i].group] BY <1>1, <2>1
  <2>. QED BY <1>3, <2>1, <2>2, Zenon DEF Sent
<1>4. CASE Waiting(hist, i, s, g, z.n_bits)
  <2>1. /\ hist[i].group = Len(s) + 1 /\ hist[i].place <= Len(g) /\ g[hist[i].place] = hist[i].code
        /\ z.n_bits = Bits(hist[i - 1].z)
    BY <1>4, Zenon DEF Waiting
  <2>2. GroupSize \in Nat BY LzwAssumption
  <2>3. hist[i].place \in 1..Len(g) /\ hist[i].place <= Len(codes) /\ hist[i].group <= Len(s2)
    BY <1>1, <1>2, <2>1, <2>2, SMT
  <2>4. codes[hist[i].place] = hist[i].code BY <2>1, <2>3
  <2>. QED BY <1>1, <2>1, <2>3, <2>4, Zenon DEF Sent
<1>. QED BY <1>3, <1>4, Zenon DEF Kept
-----------------------------------------------------------------------------
(* What output() does, case by case.                                       *)

Whole(zw, code) == Len(Append(zw.group, code)) = GroupSize
Put(zw, s, code, o) ==
  LET full == Append(zw.group, code)
  IN /\ Whole(zw, code) => o.s = Flush(zw, s, full) /\ o.z.group = <<>>
     /\ ~Whole(zw, code) /\ Change(zw) => o.s = Flush(zw, s, Pad(full)) /\ o.z.group = <<>>
     /\ ~Whole(zw, code) /\ ~Change(zw) => o.s = s /\ o.z.group = full
     /\ o.z.n_bits = Bits(zw) /\ o.z.maxcode = Greatest(maxbits, zw) /\ o.z.clear_flg = FALSE
     /\ o.z.state = zw.state

LEMMA OutputPuts ==
  ASSUME NEW zw, NEW s, NEW code, MayOutput(zw, s, code)
  PROVE  Put(zw, s, code, Output(zw, s, code))
<1>. DEFINE full == Append(zw.group, code)
            whole == Len(full) = GroupSize
            z1 == [zw EXCEPT !.group = IF whole THEN <<>> ELSE full]
            s1 == IF whole THEN Flush(zw, s, full) ELSE s
            change == z1.free_ent > z1.maxcode \/ z1.clear_flg
            s2 == IF change /\ z1.group # <<>> THEN Flush(z1, s1, Pad(z1.group)) ELSE s1
            zn == IF z1.clear_flg THEN Narrow(z1) ELSE Widen(z1)
            z2 == IF ~change THEN z1 ELSE [zn EXCEPT !.group = <<>>]
<1>0. SUFFICES ASSUME NEW o, o = Output(zw, s, code) PROVE Put(zw, s, code, o) OBVIOUS
<1>1. o = [z |-> z2, s |-> s2] BY <1>0, Zenon DEF Output
<1>. HIDE DEF z2, s2
<1>2. o.z = z2 /\ o.s = s2 BY <1>1, SMT
<1>3. IsWriter(zw) /\ DOMAIN zw = WriterFields BY Fields, Zenon DEF MayOutput
<1>4. full # <<>>
  <2>1. zw.group \in Seq(Int) /\ code \in Int BY SMT DEF MayOutput, FitsGroup
  <2>. QED BY <2>1, SMT
<1>. DEFINE group == IF whole THEN <<>> ELSE full
<1>. HIDE DEF full, s1, z1
<1>5. z1 = [zw EXCEPT !.group = group] BY Zenon DEF z1
<1>. HIDE DEF group, whole
<1>6. /\ z1.group = group /\ z1.n_bits = zw.n_bits /\ z1.maxcode = zw.maxcode
      /\ z1.free_ent = zw.free_ent /\ z1.clear_flg = zw.clear_flg /\ z1.state = zw.state
      /\ DOMAIN z1 = WriterFields
  <2>1. DOMAIN z1 = WriterFields BY <1>3, <1>5, Zenon
  <2>. QED BY <1>3, <1>5, <2>1, SMT DEF WriterFields
<1>7. change <=> Change(zw) BY <1>6, Zenon DEF Change
<1>8. \A codes : Flush(z1, s1, codes) = Flush(zw, s1, codes) BY <1>6, Zenon DEF Flush
<1>9. CASE ~change
  <2>1. z2 = z1 /\ s2 = s1 BY <1>9, Zenon DEF z2, s2
  <2>2. Bits(zw) = zw.n_bits /\ Greatest(maxbits, zw) = zw.maxcode
    BY <1>7, <1>9, Zenon DEF Change, Bits, Greatest
  <2>3. zw.clear_flg = FALSE
    <3>1. zw.clear_flg \in BOOLEAN BY Zenon DEF MayOutput, WidthInv
    <3>. QED BY <1>7, <1>9, <3>1, Zenon DEF Change
  <2>. QED BY <1>2, <1>6, <1>7, <1>9, <2>1, <2>2, <2>3, Zenon DEF Put, Whole, s1, group, whole, full
<1>10. CASE change
  <2>1. /\ zn.n_bits = Bits(zw) /\ zn.maxcode = Greatest(maxbits, zw) /\ zn.clear_flg = FALSE
        /\ zn.state = zw.state /\ DOMAIN zn = WriterFields
    <3>1. CASE z1.clear_flg
      <4>1. zn = [z1 EXCEPT !.n_bits = INIT_BITS, !.maxcode = MAXCODE(INIT_BITS), !.clear_flg = FALSE]
        BY <3>1, Zenon DEF Narrow
      <4>. HIDE DEF MAXCODE, zn
      <4>2. /\ zn.n_bits = INIT_BITS /\ zn.maxcode = MAXCODE(INIT_BITS) /\ zn.clear_flg = FALSE
            /\ zn.state = z1.state
        BY <1>6, <4>1, SMT DEF WriterFields
      <4>3. DOMAIN zn = DOMAIN z1 BY <4>1, Zenon
      <4>. QED BY <1>6, <3>1, <4>2, <4>3, Zenon DEF Bits, Greatest
    <3>2. CASE ~z1.clear_flg
      <4>. DEFINE bits == z1.n_bits + 1
                  max == IF bits = maxbits THEN maxmaxcode ELSE MAXCODE(bits)
      <4>1. zn = [z1 EXCEPT !.n_bits = bits, !.maxcode = max] BY <3>2, Zenon DEF Widen
      <4>. HIDE DEF bits, max, zn
      <4>2. zn.n_bits = bits /\ zn.maxcode = max /\ zn.clear_flg = z1.clear_flg /\ zn.state = z1.state
        BY <1>6, <4>1, SMT DEF WriterFields
      <4>3. DOMAIN zn = DOMAIN z1 BY <4>1, Zenon
      <4>4. zw.clear_flg = FALSE
        <5>1. zw.clear_flg \in BOOLEAN BY Zenon DEF MayOutput, WidthInv
        <5>. QED BY <1>6, <3>2, <5>1, Zenon
      <4>5. zw.free_ent > zw.maxcode BY <1>6, <1>10, <3>2, Zenon
      <4>6. Bits(zw) = bits /\ Greatest(maxbits, zw) = max
        BY <1>6, <4>4, <4>5, Zenon DEF Bits, Greatest, bits, max, maxmaxcode
      <4>. QED BY <1>6, <4>2, <4>3, <4>4, <4>6
    <3>. QED BY <3>1, <3>2
  <2>. HIDE DEF zn
  <2>2. z2 = [zn EXCEPT !.group = <<>>] BY <1>10, Zenon DEF z2
  <2>3. z2.n_bits = zn.n_bits /\ z2.maxcode = zn.maxcode /\ z2.clear_flg = zn.clear_flg
        /\ z2.state = zn.state /\ z2.group = <<>>
    BY <2>1, <2>2, SMT DEF WriterFields
  <2>4. CASE whole
    <3>1. s2 = s1 /\ s1 = Flush(zw, s, full) BY <1>6, <2>4, Zenon DEF s2, s1, group
    <3>. QED BY <1>2, <1>7, <1>10, <2>1, <2>3, <2>4, <3>1, Zenon DEF Put, Whole, whole, full
  <2>5. CASE ~whole
    <3>1. z1.group = full /\ s1 = s BY <1>6, <2>5, Zenon DEF s1, group
    <3>2. s2 = Flush(zw, s, Pad(full)) BY <1>4, <1>8, <1>10, <3>1, Zenon DEF s2
    <3>. QED BY <1>2, <1>7, <1>10, <2>1, <2>3, <2>5, <3>2, Zenon DEF Put, Whole, whole, full
  <2>. QED BY <2>4, <2>5
<1>. QED BY <1>9, <1>10
(* A code that is output is the next of the stream.                        *)
Longer(s, s2) == Len(s) <= Len(s2) /\ \A j \in 1..Len(s) : s2[j] = s[j]

Extended(hist, n, s, code, y, o, hist2) ==
  /\ Trace(maxbits, hist2, n + 1) /\ Open(hist2, n + 1, o.s, o.z.group, o.z.n_bits)
  /\ hist2[n + 1].z = y /\ hist2[n + 1].text = hist[n].text \o Shown(hist[n].z, code, n + 1)
  /\ \A i \in 0..n : hist2[i] = hist[i]
  /\ Longer(s, o.s)

LEMMA PutCode ==
  ASSUME maxbits \in 1..BITS, NEW hist, NEW n \in Nat, Trace(maxbits, hist, n), NEW zw, NEW s, NEW code,
         MayOutput(zw, s, code), code \in Codes, n = 0 => code \in Bytes,
         Open(hist, n, s, zw.group, zw.n_bits), Bits(hist[n].z) = zw.n_bits,
         NEW y, y = Then(maxbits, hist[n].z, code, n + 1), Sound(maxbits, y),
         Shown(hist[n].z, code, n + 1) \in Seq(Bytes), Change(y) <=> Change(zw), Bits(y) = Bits(zw),
         NEW o, o = Output(zw, s, code), NEW hist2, hist2 = More(maxbits, hist, n, code)
  PROVE  Extended(hist, n, s, code, y, o, hist2)
<1>. DEFINE g == zw.group
            full == Append(g, code)
            b == hist2[n + 1]
<1>1. /\ Trace(maxbits, hist2, n + 1) /\ b = Item(maxbits, hist[n], code, n + 1)
      /\ \A i \in 0..n : hist2[i] = hist[i]
  BY TraceGrows
<1>2. IsItem(maxbits, hist[n], code, n + 1, b) BY <1>1, ItemFields, Zenon
<1>3. /\ b.code = code /\ b.z = y /\ b.text = hist[n].text \o Shown(hist[n].z, code, n + 1)
      /\ Change(hist[n].z) \/ hist[n].place = GroupSize => b.group = hist[n].group + 1 /\ b.place = 1
      /\ ~(Change(hist[n].z) \/ hist[n].place = GroupSize) =>
           b.group = hist[n].group /\ b.place = hist[n].place + 1
  BY <1>2, Zenon DEF IsItem
<1>. HIDE DEF b
<1>4. /\ g \in Seq(Int) /\ code \in Int /\ s \in Seq(WholeGroups) /\ Len(g) \in Nat /\ Len(s) \in Nat
      /\ GroupSize \in Nat /\ GroupSize > 0
  BY LzwAssumption, SMT DEF MayOutput, FitsGroup
<1>5. /\ Len(full) = Len(g) + 1 /\ full[Len(g) + 1] = code /\ \A j \in 1..Len(g) : full[j] = g[j]
      /\ Len(full) \in Nat /\ full \in Seq(Int)
  BY <1>4, SMT
<1>. HIDE DEF full
<1>6. b.group = Len(s) + 1 /\ b.place = Len(full) /\ Len(full) <= GroupSize
  <2>1. CASE /\ hist[n].group = Len(s) + 1 /\ hist[n].place = Len(g)
             /\ ~Change(hist[n].z) /\ hist[n].place < GroupSize
    <3>1. hist[n].place # GroupSize BY <1>4, <2>1, SMT
    <3>2. b.group = hist[n].group /\ b.place = hist[n].place + 1 BY <1>3, <2>1, <3>1
    <3>. QED BY <1>4, <1>5, <2>1, <3>2, SMT
  <2>2. CASE /\ hist[n].group = Len(s) /\ g = <<>>
             /\ Change(hist[n].z) \/ hist[n].place = GroupSize
    <3>1. b.group = hist[n].group + 1 /\ b.place = 1 BY <1>3, <2>2
    <3>2. Len(g) = 0 BY <2>2, SMT
    <3>. QED BY <1>4, <1>5, <2>2, <3>1, <3>2, SMT
  <2>. QED BY <2>1, <2>2, Zenon DEF Open
<1>7. Kept(hist2, n + 1, s, full, zw.n_bits)
  <2>1. SUFFICES ASSUME NEW i \in 1..(n + 1)
        PROVE  Sent(hist2, i, s) \/ Waiting(hist2, i, s, full, zw.n_bits)
    BY DEF Kept
  <2>2. CASE i = n + 1
    <3>1. hist2[i] = b /\ hist2[i - 1] = hist[n] BY <1>1, <2>2, SMT DEF b
    <3>2. full[b.place] = b.code /\ b.place <= Len(full) BY <1>3, <1>5, <1>6, SMT
    <3>. QED BY <1>6, <3>1, <3>2, Zenon DEF Waiting
  <2>3. CASE i # n + 1
    <3>1. i \in 1..n /\ i \in 0..n /\ i - 1 \in 0..n BY <2>3, SMT
    <3>2. hist2[i] = hist[i] /\ hist2[i - 1] = hist[i - 1] BY <1>1, <3>1
    <3>3. Sent(hist, i, s) \/ Waiting(hist, i, s, g, zw.n_bits) BY <3>1, Zenon DEF Open, Kept
    <3>4. CASE Sent(hist, i, s) BY <3>2, <3>4, Zenon DEF Sent
    <3>5. CASE Waiting(hist, i, s, g, zw.n_bits)
      <4>1. /\ hist[i].group = Len(s) + 1 /\ hist[i].place <= Len(g)
            /\ g[hist[i].place] = hist[i].code /\ zw.n_bits = Bits(hist[i - 1].z)
        BY <3>5, Zenon DEF Waiting
      <4>2. hist[i].place \in 1..GroupSize BY <3>1, GroupsStart
      <4>3. hist[i].place \in 1..Len(g) /\ hist[i].place <= Len(full)
        <5>1. \A p \in 1..GroupSize : p <= Len(g) => p \in 1..Len(g) /\ p <= Len(g) + 1 BY <1>4, SMT
        <5>. QED BY <1>5, <4>1, <4>2, <5>1, Zenon
      <4>4. full[hist[i].place] = hist[i].code BY <1>5, <4>1, <4>3
      <4>. QED BY <3>2, <4>1, <4>3, <4>4, Zenon DEF Waiting
    <3>. QED BY <3>3, <3>4, <3>5
  <2>. QED BY <2>2, <2>3
<1>8. Put(zw, s, code, o) BY OutputPuts, Zenon
<1>9. o.z.n_bits = Bits(y) BY <1>8, Zenon DEF Put
<1>10. ASSUME NEW codes, o.s = Flush(zw, s, codes), o.z.group = <<>>, Len(codes) \in Nat,
              Len(full) <= Len(codes), \A j \in 1..Len(full) : codes[j] = full[j],
              Change(zw) \/ Len(full) = GroupSize
       PROVE  Open(hist2, n + 1, o.s, o.z.group, o.z.n_bits) /\ Longer(s, o.s)
  <2>1. n + 1 \in Nat /\ Len(full) \in Nat BY <1>5, SMT
  <2>2. \A i \in 1..(n + 1) : Sent(hist2, i, o.s) BY <1>1, <1>4, <1>7, <1>10, <2>1, FlushSends
  <2>3. Flushed(zw, s, codes, o.s) BY <1>4, <1>10, FlushFields
  <2>4. Len(o.s) = Len(s) + 1 /\ \A j \in 1..Len(s) : o.s[j] = s[j] BY <2>3, Zenon DEF Flushed
  <2>5. Longer(s, o.s) BY <1>4, <2>4, SMT DEF Longer
  <2>6. hist2[n + 1].group = Len(o.s) BY <1>6, <2>4 DEF b
  <2>7. Change(hist2[n + 1].z) \/ hist2[n + 1].place = GroupSize BY <1>3, <1>6, <1>10 DEF b
  <2>. QED BY <1>10, <2>2, <2>5, <2>6, <2>7, Zenon DEF Open, Kept
<1>11. Open(hist2, n + 1, o.s, o.z.group, o.z.n_bits) /\ Longer(s, o.s)
  <2>1. CASE Whole(zw, code)
    <3>1. o.s = Flush(zw, s, full) /\ o.z.group = <<>> /\ Len(full) = GroupSize
      BY <1>8, <2>1, Zenon DEF Put, Whole, full
    <3>2. Len(full) <= Len(full) BY <1>5, SMT
    <3>. QED BY <1>5, <1>10, <3>1, <3>2
  <2>2. CASE ~Whole(zw, code) /\ Change(zw)
    <3>1. o.s = Flush(zw, s, Pad(full)) /\ o.z.group = <<>> BY <1>8, <2>2, Zenon DEF Put, full
    <3>2. /\ Len(Pad(full)) \in Nat /\ Len(full) <= Len(Pad(full))
          /\ \A j \in 1..Len(full) : Pad(full)[j] = full[j]
      <4>1. Pad(full) = [i \in 1..GroupSize |-> IF i <= Len(full) THEN full[i] ELSE JUNK]
        BY Zenon DEF Pad
      <4>2. Len(Pad(full)) = GroupSize
        <5>1. Pad(full) \in Seq(Int)
          <6>1. \A i \in 1..GroupSize : (IF i <= Len(full) THEN full[i] ELSE JUNK) \in Int
            BY <1>5, <1>4, SMT DEF JUNK
          <6>. QED BY <1>4, <4>1, <6>1, SMT
        <5>. QED BY <1>4, <4>1, <5>1, SMT
      <4>3. Len(full) \in Nat /\ Len(full) <= GroupSize /\ GroupSize \in Nat BY <1>4, <1>5, <1>6
      <4>4. \A i \in 1..Len(full) : i \in 1..GroupSize /\ i <= Len(full) BY <4>3, SMT
      <4>5. \A i \in 1..Len(full) : Pad(full)[i] = full[i] BY <4>1, <4>4, Zenon
      <4>. QED BY <4>2, <4>3, <4>5
    <3>. QED BY <1>10, <2>2, <3>1, <3>2
  <2>3. CASE ~Whole(zw, code) /\ ~Change(zw)
    <3>1. o.s = s /\ o.z.group = full /\ Len(full) # GroupSize
      BY <1>8, <2>3, Zenon DEF Put, Whole, full
    <3>2. Bits(zw) = zw.n_bits BY <2>3, Zenon DEF Change, Bits
    <3>3. o.z.n_bits = zw.n_bits BY <1>9, <3>2
    <3>4. hist2[n + 1].group = Len(o.s) + 1 /\ hist2[n + 1].place = Len(o.z.group)
          /\ ~Change(hist2[n + 1].z)
      BY <1>3, <1>6, <2>3, <3>1 DEF b
    <3>5. hist2[n + 1].place < GroupSize BY <1>4, <1>5, <1>6, <3>1, SMT DEF b
    <3>6. Longer(s, o.s) BY <1>4, <3>1, SMT DEF Longer
    <3>. QED BY <1>7, <3>1, <3>3, <3>4, <3>5, <3>6, Zenon DEF Open
  <2>. QED BY <2>1, <2>2, <2>3
<1>. QED BY <1>1, <1>3, <1>11, Zenon DEF b, Extended
-----------------------------------------------------------------------------
(* Sequences of bytes.                                                     *)

LEMMA PrefixSelf == ASSUME NEW s \in Seq(Bytes) PROVE Prefix(s, s)
BY SMT DEF Prefix

LEMMA PrefixGrows ==
  ASSUME NEW a \in Seq(Bytes), NEW b \in Seq(Bytes), NEW c \in Bytes, Prefix(a, b)
  PROVE  Prefix(a, Append(b, c))
BY SMT DEF Prefix

LEMMA ConcatGrows ==
  ASSUME NEW a \in Seq(Bytes), NEW b \in Seq(Bytes), NEW c \in Bytes
  PROVE  Append(a \o b, c) = a \o Append(b, c)
BY SMT

-----------------------------------------------------------------------------
(* The code at hand is put into the stream.                                *)

At(m, hist, n, S, x, s, data) ==
  /\ Stream(m, hist, n, s, data) /\ Sync(m, S, x, hist[n].z, n)
  /\ data = hist[n].text \o S[x.ent] /\ Open(hist, n, s, x.group, x.n_bits)
(* what is left to do is to take up the next byte *)
After(S, x, o, y) ==
  /\ Sound(maxbits, y) /\ y.clear_flg = FALSE /\ y.oldcode = x.ent /\ Agrees(S, y)
  /\ y.free_ent = x.free_ent \/ NoEntries(maxbits, y, x.free_ent)
  /\ Bits(y) = o.z.n_bits /\ Greatest(maxbits, y) = o.z.maxcode

Proceeds(hist, n, s, data, o, hist2) ==
  /\ Stream(maxbits, hist2, n + 1, o.s, data) /\ hist2[n + 1].text = data
  /\ Open(hist2, n + 1, o.s, o.z.group, o.z.n_bits)
  /\ (\A i \in 0..n : hist2[i] = hist[i]) /\ Longer(s, o.s)

LEMMA StreamGrows ==
  ASSUME NEW hist, NEW n \in Nat, NEW s, NEW code, NEW y, NEW o, NEW hist2, NEW data,
         Stream(maxbits, hist, n, s, data), Extended(hist, n, s, code, y, o, hist2),
         hist2[n + 1].text = data, o.s \in Seq(WholeGroups)
  PROVE  Stream(maxbits, hist2, n + 1, o.s, data)
<1>1. data \in Seq(Bytes) /\ \A i \in 0..n : Prefix(hist[i].text, data) BY Zenon DEF Stream
<1>2. Trace(maxbits, hist2, n + 1) /\ \A i \in 0..n : hist2[i] = hist[i] BY Zenon DEF Extended
<1>3. ASSUME NEW i \in 0..(n + 1) PROVE Prefix(hist2[i].text, data)
  <2>1. CASE i = n + 1 BY <1>1, <2>1, PrefixSelf
  <2>2. CASE i # n + 1
    <3>1. i \in 0..n BY <2>2, SMT
    <3>. QED BY <1>1, <1>2, <3>1
  <2>. QED BY <2>1, <2>2
<1>4. \A i \in 1..Len(o.s) : Len(o.s[i].codes) <= GroupSize
  <2>1. \A i \in 1..Len(o.s) : o.s[i] \in WholeGroups BY SMT
  <2>2. \A g \in WholeGroups : Len(g.codes) = GroupSize BY Zenon DEF WholeGroups
  <2>3. GroupSize <= GroupSize BY LzwAssumption, SMT
  <2>. QED BY <2>1, <2>2, <2>3, Zenon
<1>. QED BY <1>1, <1>2, <1>3, <1>4, Zenon DEF Stream

LEMMA PutEnt ==
  ASSUME maxbits \in 1..BITS, NEW hist, NEW n \in Nat, NEW S, NEW x, NEW s, WriterFits(x, s),
         x.state = "middle", NEW data, At(maxbits, hist, n, S, x, s, data),
         NEW o, o = Output(x, s, x.ent), NEW hist2, hist2 = More(maxbits, hist, n, x.ent)
  PROVE  Proceeds(hist, n, s, data, o, hist2) /\ After(S, x, o, hist2[n + 1].z)
<1>. DEFINE z == hist[n].z
            y == Then(maxbits, z, x.ent, n + 1)
<1>1. /\ Trace(maxbits, hist, n) /\ data \in Seq(Bytes) /\ \A i \in 0..n : Prefix(hist[i].text, data)
      /\ Sync(maxbits, S, x, z, n) /\ data = hist[n].text \o S[x.ent]
      /\ Open(hist, n, s, x.group, x.n_bits)
  BY Zenon DEF At, Stream
<1>2. Sound(maxbits, z) /\ hist[n].text \in Seq(Bytes) BY <1>1, SMT DEF Trace
<1>3. MayOutput(x, s, x.ent) BY EntFits
<1>4. Width(maxbits, x) /\ x.clear_flg = FALSE /\ x.maxcode \in Int /\ x.free_ent \in Nat
  <2>1. WidthInv(x) /\ ~x.clear_flg BY Zenon DEF WriterFits
  <2>2. x.maxcode \in Int /\ x.free_ent \in Nat BY <2>1, MaxcodeInt
  <2>. QED BY <2>1, <2>2, Zenon DEF WidthInv, Width, maxmaxcode
<1>5. /\ Shown(z, x.ent, n + 1) = S[x.ent] /\ S[x.ent] \in NonEmpty
      /\ x.ent \in Codes /\ (n = 0 => x.ent \in Bytes)
  BY <1>1, <1>2, DecodesEnt
<1>. HIDE DEF z, y
<1>6. /\ Sound(maxbits, y) /\ y.clear_flg = FALSE /\ y.n_bits = x.n_bits /\ y.maxcode = x.maxcode
      /\ y.oldcode = x.ent /\ Agrees(S, y)
      /\ y.free_ent = x.free_ent \/ NoEntries(maxbits, y, x.free_ent)
  BY <1>1, <1>2, <1>4, AfterEnt DEF y
<1>7. (Change(y) <=> Change(x)) /\ Bits(y) = Bits(x) /\ Greatest(maxbits, y) = Greatest(maxbits, x)
  <2>1. y.free_ent > y.maxcode <=> x.free_ent > x.maxcode
    <3>1. CASE y.free_ent = x.free_ent BY <1>6, <3>1
    <3>2. CASE NoEntries(maxbits, y, x.free_ent)
      <4>1. y.free_ent = CLEAR /\ x.free_ent = FIRST BY <3>2, Zenon DEF NoEntries
      <4>2. FIRST <= x.maxcode BY <1>4, FirstBelow
      <4>3. FIRST \in Nat /\ CLEAR \in Nat /\ CLEAR < FIRST BY LettersFit
      <4>. QED BY <1>4, <1>6, <4>1, <4>2, <4>3, SMT
    <3>. QED BY <1>6, <3>1, <3>2
  <2>. QED BY <1>4, <1>6, <2>1, Zenon DEF Change, Bits, Greatest
<1>8. Put(x, s, x.ent, o) BY <1>3, OutputPuts, Zenon
<1>9. Bits(y) = o.z.n_bits /\ Greatest(maxbits, y) = o.z.maxcode BY <1>7, <1>8, Zenon DEF Put
<1>10. Bits(z) = x.n_bits BY <1>1, Zenon DEF Sync
<1>11. Shown(z, x.ent, n + 1) \in Seq(Bytes) BY <1>5, Zenon DEF NonEmpty
<1>12. Extended(hist, n, s, x.ent, y, o, hist2)
  BY <1>1, <1>3, <1>5, <1>6, <1>7, <1>10, <1>11, PutCode DEF z, y
<1>13. /\ hist2[n + 1].z = y /\ hist2[n + 1].text = data
       /\ (\A i \in 0..n : hist2[i] = hist[i]) /\ Longer(s, o.s)
       /\ Open(hist2, n + 1, o.s, o.z.group, o.z.n_bits)
  BY <1>1, <1>5, <1>12, Zenon DEF Extended, z
<1>14. o.s \in Seq(WholeGroups) BY <1>3, OutputFits
<1>15. Stream(maxbits, hist2, n + 1, o.s, data)
  <2>1. Stream(maxbits, hist, n, s, data) BY Zenon DEF At
  <2>. QED BY <1>12, <1>13, <1>14, <2>1, StreamGrows
<1>16. After(S, x, o, hist2[n + 1].z) BY <1>6, <1>9, <1>13, Zenon DEF After
<1>. QED BY <1>13, <1>15, <1>16, Zenon DEF Proceeds

(* CLEAR shows nothing, and the table is not kept.                         *)
IsCleared(m, z, y) ==
  /\ y.n_bits = Bits(z) /\ y.maxcode = Greatest(m, z) /\ y.free_ent = FIRST - 1 /\ y.clear_flg = TRUE
  /\ y.prefix = z.prefix /\ y.suffix = z.suffix /\ y.oldcode = z.oldcode /\ y.finchar = z.finchar

LEMMA ClearedFields == \A m, z : IsCleared(m, z, Cleared(m, z))
<1>. SUFFICES ASSUME NEW m, NEW z, NEW y, y = Cleared(m, z) PROVE IsCleared(m, z, y) OBVIOUS
<1>. DEFINE bits == Bits(z)
            max == Greatest(m, z)
            free == FIRST - 1
<1>1. y = [n_bits |-> bits, maxcode |-> max, free_ent |-> free, clear_flg |-> TRUE,
           prefix |-> z.prefix, suffix |-> z.suffix, oldcode |-> z.oldcode, finchar |-> z.finchar]
  BY Zenon DEF Cleared
<1>. HIDE DEF bits, max, free
<1>2. /\ y.n_bits = bits /\ y.maxcode = max /\ y.free_ent = free /\ y.clear_flg = TRUE
      /\ y.prefix = z.prefix /\ y.suffix = z.suffix /\ y.oldcode = z.oldcode /\ y.finchar = z.finchar
  BY <1>1, SMT
<1>. QED BY <1>2, Zenon DEF IsCleared, bits, max, free

Clears(hist, n, s, data, o, hist2) ==
  /\ Proceeds(hist, n, s, data, o, hist2) /\ IsCleared(maxbits, hist[n].z, hist2[n + 1].z)
  /\ Bits(hist2[n + 1].z) = o.z.n_bits /\ Greatest(maxbits, hist2[n + 1].z) = o.z.maxcode

LEMMA PutClear ==
  ASSUME maxbits \in 1..BITS, NEW hist, NEW n \in Nat \ {0}, NEW x, NEW s, MayOutput(x, s, CLEAR),
         x.clear_flg = TRUE, NEW data, Stream(maxbits, hist, n, s, data), hist[n].text = data,
         Open(hist, n, s, x.group, x.n_bits),
         Bits(hist[n].z) = x.n_bits, Greatest(maxbits, hist[n].z) = x.maxcode,
         NEW o, o = Output(x, s, CLEAR), NEW hist2, hist2 = More(maxbits, hist, n, CLEAR)
  PROVE  Clears(hist, n, s, data, o, hist2)
<1>. DEFINE z == hist[n].z
            y == Then(maxbits, z, CLEAR, n + 1)
<1>1. n \in Nat /\ n + 1 # 1 /\ n # 0 BY SMT
<1>2. Trace(maxbits, hist, n) BY Zenon DEF Stream
<1>3. Sound(maxbits, z) /\ hist[n].text \in Seq(Bytes) BY <1>1, <1>2, SMT DEF Trace
<1>4. y = Cleared(maxbits, z) /\ Shown(z, CLEAR, n + 1) = <<>> BY <1>1, Zenon DEF Then, Shown
<1>. HIDE DEF z, y
<1>5. IsCleared(maxbits, z, y) BY <1>4, ClearedFields, Zenon
<1>6. /\ y.n_bits = x.n_bits /\ y.maxcode = x.maxcode /\ y.free_ent = FIRST - 1 /\ y.clear_flg = TRUE
      /\ y.prefix = z.prefix /\ y.suffix = z.suffix /\ y.oldcode = z.oldcode /\ y.finchar = z.finchar
  BY <1>5, Zenon DEF IsCleared, z
<1>7. FIRST \in Nat /\ FIRST - 1 \in Nat /\ FIRST - 1 >= CLEAR /\ FIRST - 1 <= FIRST /\ CLEAR \in Codes
  BY CodesFacts, SMT
<1>8. Sound(maxbits, y)
  <2>1. Width(maxbits, y) BY <1>6, Zenon DEF MayOutput, WidthInv, Width, maxmaxcode
  <2>. QED BY <1>3, <1>6, <1>7, <2>1, Zenon DEF Sound
<1>9. (Change(y) <=> Change(x)) /\ Bits(y) = Bits(x) /\ Greatest(maxbits, y) = Greatest(maxbits, x)
  BY <1>6, Zenon DEF Change, Bits, Greatest
<1>10. Put(x, s, CLEAR, o) BY OutputPuts, Zenon
<1>11. Bits(y) = o.z.n_bits /\ Greatest(maxbits, y) = o.z.maxcode BY <1>9, <1>10, Zenon DEF Put
<1>12. <<>> \in Seq(Bytes) /\ hist[n].text \o <<>> = hist[n].text BY <1>3, SMT
<1>13. Extended(hist, n, s, CLEAR, y, o, hist2)
  BY <1>1, <1>2, <1>4, <1>7, <1>8, <1>9, <1>12, PutCode DEF z, y
<1>14. /\ hist2[n + 1].z = y /\ hist2[n + 1].text = data
       /\ (\A i \in 0..n : hist2[i] = hist[i]) /\ Longer(s, o.s)
       /\ Open(hist2, n + 1, o.s, o.z.group, o.z.n_bits)
  BY <1>4, <1>12, <1>13, Zenon DEF Extended, z
<1>15. o.s \in Seq(WholeGroups) BY OutputFits
<1>16. Stream(maxbits, hist2, n + 1, o.s, data) BY <1>1, <1>13, <1>14, <1>15, StreamGrows
<1>. QED BY <1>5, <1>11, <1>14, <1>16, Zenon DEF z, Proceeds, Clears

-----------------------------------------------------------------------------
(* The next byte is taken up.                                              *)

LEMMA ByteGivenOut ==
  ASSUME NEW c \in Bytes, NEW free \in Nat, free >= FIRST PROVE c \in GivenOut(free)
<1>1. Letters \in Nat /\ CLEAR = Letters /\ FIRST = Letters + 1 /\ Bytes = 0..(Letters - 1)
  BY CodesFacts
<1>. QED BY <1>1, SMT DEF GivenOut

LEMMA SyncFirst ==
  ASSUME maxbits \in 1..BITS, NEW x, NEW c \in Bytes, x.ent = c, x.free_ent = FIRST, x.n_bits = INIT_BITS,
         x.maxcode = MAXCODE(INIT_BITS), DOMAIN x.table = {}, NEW z, z = Start
  PROVE  \E S : Sync(maxbits, S, x, z, 0) /\ S[c] = <<c>>
<1>. DEFINE S == [q \in Nat |-> <<q>>]
<1>0. /\ Letters \in Nat /\ Letters > 0 /\ CLEAR = Letters /\ FIRST = Letters + 1
      /\ FIRST < 2^BITS /\ Codes = 0..(2^BITS - 1) /\ Bytes = 0..(Letters - 1)
  BY CodesFacts
<1>1. /\ z.n_bits = INIT_BITS /\ z.maxcode = MAXCODE(INIT_BITS) /\ z.free_ent = FIRST
      /\ z.clear_flg = FALSE /\ z.oldcode = 0 /\ z.finchar = 0
  <2>. HIDE DEF MAXCODE, FIRST, Codes
  <2>. QED BY SMT DEF Start
<1>2. \A b \in Bytes : S[b] = <<b>> BY <1>0, SMT
<1>3. \A q \in GivenOut(FIRST) : S[q] \in NonEmpty
  <2>1. SUFFICES ASSUME NEW q \in GivenOut(FIRST) PROVE S[q] \in NonEmpty OBVIOUS
  <2>2. q \in Bytes BY <1>0, SMT DEF GivenOut
  <2>. QED BY <1>2, <2>2, ByteNonEmpty
<1>4. S[0] = <<0>> /\ Head(S[0]) = 0 /\ 0 < FIRST
  <2>1. 0 \in Bytes /\ 0 < FIRST BY <1>0, SMT
  <2>. QED BY <1>2, <2>1, ByteNonEmpty
<1>. HIDE DEF S
<1>5. Agrees(S, z)
  <2>1. FIRST..(z.free_ent - 1) = {} BY <1>0, <1>1, SMT
  <2>. QED BY <1>1, <1>4, <2>1, Zenon DEF Agrees
<1>6. FIRST \in Nat /\ FIRST >= FIRST /\ c \in GivenOut(FIRST)
  <2>1. FIRST \in Nat /\ FIRST >= FIRST BY <1>0, SMT
  <2>. QED BY <2>1, ByteGivenOut
<1>7. Spells(S, FIRST) /\ Table(S, x.table, FIRST) BY <1>2, <1>3, Zenon DEF Spells, Table
<1>8. Behind(maxbits, S, z, 0, FIRST, c) BY <1>1, Zenon DEF Behind
<1>9. Bits(z) = INIT_BITS /\ Greatest(maxbits, z) = MAXCODE(INIT_BITS)
  <2>1. Width(maxbits, z)
    <3>1. INIT_BITS \in INIT_BITS..BITS BY LzwAssumption, SMT
    <3>. QED BY <1>1, <3>1, Zenon DEF Width
  <2>2. z.maxcode \in Int /\ FIRST <= z.maxcode BY <2>1, FirstBelow
  <2>3. ~(z.free_ent > z.maxcode) BY <1>1, <1>6, <2>2, SMT
  <2>. QED BY <1>1, <2>3, Zenon DEF Bits, Greatest
<1>10. Sync(maxbits, S, x, z, 0) BY <1>5, <1>6, <1>7, <1>8, <1>9, Zenon DEF Sync
<1>. QED BY <1>2, <1>10

Lengthens(S, a, b, c) == S[a] = Append(S[b], c)

LEMMA SyncMatch ==
  ASSUME maxbits \in 1..BITS, NEW S, NEW x, NEW z, NEW n \in Nat, Sync(maxbits, S, x, z, n),
         NEW c \in Bytes, NEW p \in DOMAIN x.table, p = <<x.ent, c>>,
         NEW x2, x2.ent = x.table[p], x2.free_ent = x.free_ent, x2.table = x.table,
         x2.n_bits = x.n_bits, x2.maxcode = x.maxcode
  PROVE  Sync(maxbits, S, x2, z, n) /\ Lengthens(S, x2.ent, x.ent, c)
<1>1. /\ Spells(S, x.free_ent) /\ Table(S, x.table, x.free_ent) /\ Agrees(S, z)
      /\ x.ent \in GivenOut(x.free_ent) /\ x.free_ent \in Nat /\ x.free_ent >= FIRST
      /\ x.free_ent = FIRST \/ x.free_ent <= 2^maxbits
      /\ Behind(maxbits, S, z, n, x.free_ent, x.ent)
      /\ Bits(z) = x.n_bits /\ Greatest(maxbits, z) = x.maxcode
  BY Zenon DEF Sync
<1>2. PICK q \in GivenOut(x.free_ent), d \in Bytes :
        /\ <<x.ent, c>> = <<q, d>> /\ x2.ent \in GivenOut(x.free_ent)
        /\ S[x2.ent] = Append(S[q], d)
  BY <1>1, Zenon DEF Table
<1>3. q = x.ent /\ d = c BY <1>2, SMT
<1>4. S[x2.ent] = Append(S[x.ent], c) BY <1>2, <1>3
<1>5. Head(S[x2.ent]) = Head(S[x.ent])
  <2>1. S[x.ent] \in NonEmpty BY <1>1, Zenon DEF Spells
  <2>. QED BY <1>4, <2>1, AppendNonEmpty
<1>6. Behind(maxbits, S, z, n, x.free_ent, x2.ent) BY <1>1, <1>5, Zenon DEF Behind
<1>. QED BY <1>1, <1>2, <1>4, <1>6, Zenon DEF Sync, Lengthens

Resumes(S, x, y, n, c) == Sync(maxbits, S, x, y, n) /\ S[c] = <<c>>

LEMMA SyncNew ==
  ASSUME maxbits \in 1..BITS, NEW S, NEW x, NEW z, NEW n \in Nat, Sync(maxbits, S, x, z, n),
         NEW o, NEW y, After(S, x, o, y), NEW c \in Bytes, x.free_ent < 2^maxbits,
         NEW x2, x2.ent = c, x2.free_ent = x.free_ent + 1, x2.n_bits = o.z.n_bits, x2.maxcode = o.z.maxcode,
         NEW e, e = <<x.ent, c>>,
         \A p \in DOMAIN x2.table : \/ p = e /\ x2.table[p] = x.free_ent
                                    \/ p \in DOMAIN x.table /\ x2.table[p] = x.table[p]
  PROVE  \E S2 : Resumes(S2, x2, y, n + 1, c)
<1>. DEFINE free == x.free_ent
            new == Append(S[x.ent], c)
            S2 == [q \in Nat |-> IF q = free THEN new ELSE S[q]]
<1>0. /\ Letters \in Nat /\ Letters > 0 /\ CLEAR = Letters /\ FIRST = Letters + 1
      /\ Bytes = 0..(Letters - 1) /\ 2^maxbits \in Nat
  BY CodesFacts, PowerBound
<1>1. /\ Spells(S, free) /\ Table(S, x.table, free)
      /\ x.ent \in GivenOut(free) /\ free \in Nat /\ free >= FIRST
      /\ free = FIRST \/ free <= 2^maxbits
  BY Zenon DEF Sync
<1>2. /\ Sound(maxbits, y) /\ y.clear_flg = FALSE /\ y.oldcode = x.ent /\ Agrees(S, y)
      /\ y.free_ent = free \/ NoEntries(maxbits, y, free)
      /\ Bits(y) = o.z.n_bits /\ Greatest(maxbits, y) = o.z.maxcode
  BY Zenon DEF After
<1>3. y.free_ent = free BY <1>0, <1>1, <1>2, SMT DEF NoEntries
<1>4. new \in NonEmpty /\ S[x.ent] \in NonEmpty
  <2>1. S[x.ent] \in NonEmpty BY <1>1, Zenon DEF Spells
  <2>. QED BY <2>1, AppendNonEmpty
<1>. HIDE DEF new
<1>5. S2[free] = new /\ \A q \in GivenOut(free) : S2[q] = S[q] BY <1>1, SMT DEF GivenOut
<1>. HIDE DEF S2
<1>6. /\ GivenOut(free) \subseteq GivenOut(free + 1) /\ free \in GivenOut(free + 1)
      /\ \A q \in GivenOut(free + 1) : q \in GivenOut(free) \/ q = free
  <2>1. FIRST \in Nat /\ free \in Nat /\ free >= FIRST /\ FIRST = CLEAR + 1 /\ CLEAR \in Nat
    BY <1>0, <1>1
  <2>2. free # CLEAR /\ free < free + 1 /\ \A q \in Nat : q < free + 1 <=> q < free \/ q = free
    BY <2>1, SMT
  <2>. QED BY <2>1, <2>2, Zenon DEF GivenOut
<1>7. \A b \in Bytes : b \in GivenOut(free) BY <1>1, ByteGivenOut
<1>8. Spells(S2, free + 1)
  <2>1. \A b \in Bytes : S2[b] = <<b>> BY <1>1, <1>5, <1>7, Zenon DEF Spells
  <2>2. \A q \in GivenOut(free + 1) : S2[q] \in NonEmpty BY <1>1, <1>4, <1>5, <1>6, Zenon DEF Spells
  <2>. QED BY <2>1, <2>2 DEF Spells
<1>9. Table(S2, x2.table, free + 1)
  <2>1. SUFFICES ASSUME NEW p \in DOMAIN x2.table
        PROVE  \E q \in GivenOut(free + 1), d \in Bytes :
                 /\ p = <<q, d>> /\ x2.table[p] \in GivenOut(free + 1)
                 /\ S2[x2.table[p]] = Append(S2[q], d)
    BY DEF Table
  <2>2. CASE p = e /\ x2.table[p] = free
    <3>1. S2[free] = Append(S2[x.ent], c) BY <1>1, <1>5, Zenon DEF new
    <3>. QED BY <1>1, <1>6, <2>2, <3>1, Zenon
  <2>3. CASE p \in DOMAIN x.table /\ x2.table[p] = x.table[p]
    <3>1. PICK q \in GivenOut(free), d \in Bytes :
            p = <<q, d>> /\ x.table[p] \in GivenOut(free) /\ S[x.table[p]] = Append(S[q], d)
      BY <1>1, <2>3, Zenon DEF Table
    <3>2. S2[x.table[p]] = Append(S2[q], d) BY <1>5, <3>1, Zenon
    <3>. QED BY <1>6, <2>3, <3>1, <3>2, Zenon
  <2>. QED BY <2>2, <2>3
<1>10. y.oldcode < free /\ y.finchar = Head(S[y.oldcode])
       /\ \A i \in FIRST..(y.free_ent - 1) : S[i] = Entry(S, y.prefix, y.suffix, i)
  BY <1>2, <1>3, Zenon DEF Agrees
<1>11. Agrees(S2, y)
  <2>1. \A i \in FIRST..(y.free_ent - 1) : S2[i] = Entry(S2, y.prefix, y.suffix, i)
    <3>1. SUFFICES ASSUME NEW i \in FIRST..(y.free_ent - 1)
          PROVE  S2[i] = Entry(S2, y.prefix, y.suffix, i)
      OBVIOUS
    <3>2. Chained(y.prefix, y.suffix) BY <1>2, Zenon DEF Sound
    <3>3. i \in Codes /\ i > CLEAR /\ i \in GivenOut(free)
      <4>1. 2^maxbits <= 2^BITS /\ 2^BITS \in Nat /\ Codes = 0..(2^BITS - 1) BY CodesFacts, PowerBound
      <4>2. i \in FIRST..(free - 1) /\ free \in Nat /\ FIRST = CLEAR + 1 /\ CLEAR \in Nat BY <1>0, <1>1, <1>3
      <4>3. i \in Nat /\ i > CLEAR /\ i # CLEAR /\ i < free /\ FIRST < free BY <4>2, SMT
      <4>4. free <= 2^maxbits BY <1>1, <4>2, <4>3, SMT
      <4>5. i \in Codes BY <1>0, <4>1, <4>2, <4>3, <4>4, SMT
      <4>. QED BY <4>3, <4>5, Zenon DEF GivenOut
    <3>4. y.prefix[i] \in Codes /\ y.prefix[i] # CLEAR /\ y.prefix[i] < i BY <3>2, <3>3, ChainedFacts
    <3>5. y.prefix[i] \in GivenOut(free)
      <4>1. Codes \subseteq Nat BY CodesFacts, SMT
      <4>2. \A p \in Nat : p < i /\ p # CLEAR => p \in GivenOut(free)
        BY <1>1, <3>3, SMT DEF GivenOut
      <4>. QED BY <3>4, <4>1, <4>2, Zenon
    <3>. QED BY <1>5, <1>10, <3>3, <3>5, Zenon DEF Entry
  <2>2. S2[y.oldcode] = S[y.oldcode] BY <1>1, <1>2, <1>5
  <2>3. y.oldcode < y.free_ent BY <1>3, <1>10
  <2>. QED BY <1>10, <2>1, <2>2, <2>3, Zenon DEF Agrees
<1>12. c \in GivenOut(free) /\ S2[c] = <<c>> /\ Head(S2[c]) = c
  <2>1. c \in GivenOut(free) /\ S2[c] = <<c>> BY <1>7, <1>8, Zenon DEF Spells
  <2>. QED BY <2>1, ByteNonEmpty
<1>13. Behind(maxbits, S2, y, n + 1, free + 1, c)
  <2>1. n + 1 > 0 /\ free + 1 <= 2^maxbits BY <1>0, <1>1, SMT
  <2>2. S2[free] = Append(S2[y.oldcode], Head(S2[c])) BY <1>1, <1>2, <1>5, <1>12, Zenon DEF new
  <2>. QED BY <1>1, <1>2, <1>3, <2>1, <2>2, Zenon DEF Behind
<1>14. free + 1 \in Nat /\ free + 1 >= FIRST /\ free + 1 <= 2^maxbits BY <1>0, <1>1, SMT
<1>15. Sync(maxbits, S2, x2, y, n + 1)
  BY <1>2, <1>6, <1>8, <1>9, <1>11, <1>12, <1>13, <1>14, Zenon DEF Sync
<1>16. Resumes(S2, x2, y, n + 1, c) BY <1>12, <1>15, Zenon DEF Resumes
<1>. QED BY <1>16

LEMMA SyncFull ==
  ASSUME maxbits \in 1..BITS, NEW S, NEW x, NEW z, NEW n \in Nat, Sync(maxbits, S, x, z, n),
         NEW o, NEW y, After(S, x, o, y), NEW c \in Bytes, x.free_ent >= 2^maxbits,
         NEW x2, x2.ent = c, x2.free_ent = x.free_ent, x2.n_bits = o.z.n_bits, x2.maxcode = o.z.maxcode,
         x2.table = x.table
  PROVE  Sync(maxbits, S, x2, y, n + 1) /\ S[c] = <<c>>
<1>1. /\ Spells(S, x.free_ent) /\ Table(S, x.table, x.free_ent)
      /\ x.free_ent \in Nat /\ x.free_ent >= FIRST
      /\ x.free_ent = FIRST \/ x.free_ent <= 2^maxbits
  BY Zenon DEF Sync
<1>2. /\ y.clear_flg = FALSE /\ Agrees(S, y)
      /\ y.free_ent = x.free_ent \/ NoEntries(maxbits, y, x.free_ent)
      /\ Bits(y) = o.z.n_bits /\ Greatest(maxbits, y) = o.z.maxcode
  BY Zenon DEF After
<1>3. c \in GivenOut(x.free_ent) BY <1>1, ByteGivenOut
<1>4. Behind(maxbits, S, y, n + 1, x.free_ent, c)
  <2>1. n + 1 > 0 BY SMT
  <2>. QED BY <1>2, <2>1, Zenon DEF Behind
<1>5. S[c] = <<c>> BY <1>1, Zenon DEF Spells
<1>. QED BY <1>1, <1>2, <1>3, <1>4, <1>5, Zenon DEF Sync

LEMMA SyncClear ==
  ASSUME maxbits \in 1..BITS, NEW S, NEW x, NEW z, NEW n \in Nat, Sync(maxbits, S, x, z, n),
         NEW y, NEW y2, IsCleared(maxbits, y, y2), NEW c \in Bytes, NEW k \in Nat \ {0},
         NEW x2, x2.ent = c, x2.free_ent = FIRST, DOMAIN x2.table = {},
         Bits(y2) = x2.n_bits, Greatest(maxbits, y2) = x2.maxcode
  PROVE  Sync(maxbits, S, x2, y2, k) /\ S[c] = <<c>>
<1>0. Letters \in Nat /\ Letters > 0 /\ CLEAR = Letters /\ FIRST = Letters + 1 BY CodesFacts
<1>1. Spells(S, x.free_ent) /\ x.free_ent \in Nat /\ x.free_ent >= FIRST BY Zenon DEF Sync
<1>2. GivenOut(FIRST) \subseteq GivenOut(x.free_ent) BY <1>0, <1>1, SMT DEF GivenOut
<1>3. Spells(S, FIRST) /\ Table(S, x2.table, FIRST) BY <1>1, <1>2, Zenon DEF Spells, Table
<1>4. y2.free_ent = FIRST - 1 /\ y2.clear_flg = TRUE BY Zenon DEF IsCleared
<1>5. Agrees(S, y2)
  <2>1. FIRST..(y2.free_ent - 1) = {} BY <1>0, <1>4, SMT
  <2>. QED BY <1>4, <2>1, Zenon DEF Agrees
<1>6. Behind(maxbits, S, y2, k, FIRST, c)
  <2>1. k > 0 /\ FIRST - 1 = CLEAR BY <1>0, SMT
  <2>. QED BY <1>4, <2>1, Zenon DEF Behind
<1>7. c \in GivenOut(FIRST) /\ FIRST \in Nat /\ FIRST >= FIRST
  <2>1. FIRST \in Nat /\ FIRST >= FIRST BY <1>0, SMT
  <2>. QED BY <2>1, ByteGivenOut
<1>8. S[c] = <<c>> BY <1>3, Zenon DEF Spells
<1>. QED BY <1>3, <1>5, <1>6, <1>7, <1>8, Zenon DEF Sync
-----------------------------------------------------------------------------
(***************************************************************************)
(* Writer and reader of a stream of n codes, of which k have been read.    *)
(***************************************************************************)
WriterAt(m, hist, n, x, s, data) ==
  \/ /\ x.state = "start" /\ n = 0 /\ s = <<>> /\ data = <<>> /\ x.group = <<>>
     /\ x.free_ent = FIRST /\ x.n_bits = INIT_BITS /\ x.maxcode = MAXCODE(INIT_BITS)
     /\ DOMAIN x.table = {}
  \/ /\ x.state = "middle"
     /\ \E S : /\ Sync(m, S, x, hist[n].z, n) /\ data = hist[n].text \o S[x.ent]
               /\ Open(hist, n, s, x.group, x.n_bits)
  \/ x.state = "closed" /\ Ended(hist, n, s) /\ data = hist[n].text
  \/ x.state = "killed" /\ Ended(hist, n, s)

(* what is left of the p-th code's group *)
Rest(s, g, p) == IF g = 0 THEN <<>> ELSE SubSeq(s[g].codes, p + 1, Len(s[g].codes))
(* the state after the string on the stack has been delivered *)
Pending(m, z) ==
  [n_bits |-> z.n_bits, maxcode |-> z.maxcode,
   free_ent |-> IF z.free_ent >= 2^m THEN z.free_ent ELSE z.free_ent + 1, clear_flg |-> z.clear_flg,
   prefix |-> IF z.free_ent >= 2^m THEN z.prefix ELSE [z.prefix EXCEPT ![z.free_ent] = z.oldcode],
   suffix |-> IF z.free_ent >= 2^m THEN z.suffix ELSE [z.suffix EXCEPT ![z.free_ent] = z.finchar],
   oldcode |-> z.incode, finchar |-> z.finchar]
ReaderAt(m, hist, k, z, s, out) ==
  /\ out \in Seq(Bytes) /\ z.state \in {"start", "middle", "eof", "error"}
  /\ z.state = "start" => k = 0 /\ z.stack = <<>>
  /\ z.state = "middle" => k # 0
  /\ z.state \in {"eof", "error"} => z.stack = <<>>
  /\ z.state \in {"start", "middle"} =>
       /\ z.stack \in Seq(Bytes) /\ out \o z.stack = hist[k].text
       /\ z.next = hist[k].group + 1 /\ hist[k].group <= Len(s)
       /\ z.group = Rest(s, hist[k].group, hist[k].place)
       /\ hist[k].z = IF z.stack = <<>> THEN Core(z) ELSE Pending(m, z)

ChanAt(hist, n, k) ==
  /\ n \in Nat /\ k \in 0..n
  /\ Stream(maxbits, hist, n, sent, input)
  /\ WriterAt(maxbits, hist, n, w, sent, input)
  /\ ReaderAt(maxbits, hist, k, r, sent, output)
ChanInv == \E hist, n, k : ChanAt(hist, n, k)

-----------------------------------------------------------------------------
(* The writer's steps.                                                     *)

LEMMA ReaderStays ==
  ASSUME NEW m, NEW hist, NEW n \in Nat, Trace(m, hist, n), NEW k \in 0..n, NEW hist2, hist2[k] = hist[k],
         NEW z, NEW s, NEW out, ReaderAt(m, hist, k, z, s, out), NEW s2,
         hist[k].group <= Len(s2), \A j \in 1..hist[k].group : s2[j] = s[j]
  PROVE  ReaderAt(m, hist2, k, z, s2, out)
<1>1. hist[k].group \in Nat BY Zenon DEF Trace
<1>2. Rest(s2, hist[k].group, hist[k].place) = Rest(s, hist[k].group, hist[k].place)
  <2>1. CASE hist[k].group = 0 BY <2>1, Zenon DEF Rest
  <2>2. CASE hist[k].group # 0
    <3>1. hist[k].group \in 1..hist[k].group BY <1>1, <2>2, SMT
    <3>2. s2[hist[k].group] = s[hist[k].group] BY <3>1
    <3>. QED BY <3>2, Zenon DEF Rest
  <2>. QED BY <2>1, <2>2
<1>. QED BY <1>2, Zenon DEF ReaderAt

LEMMA WriterMoves ==
  ASSUME NEW hist, NEW n, NEW k, ChanAt(hist, n, k), NEW hist2, NEW n2 \in Nat, n <= n2,
         \A i \in 0..n : hist2[i] = hist[i], maxbits' = maxbits, r' = r, output' = output,
         Longer(sent, sent'), Len(sent) \in Nat, Len(sent') \in Nat,
         Stream(maxbits, hist2, n2, sent', input'), WriterAt(maxbits, hist2, n2, w', sent', input')
  PROVE  ChanInv'
<1>1. n \in Nat /\ k \in 0..n /\ Trace(maxbits, hist, n) /\ ReaderAt(maxbits, hist, k, r, sent, output)
  BY Zenon DEF ChanAt, Stream
<1>2. hist2[k] = hist[k] /\ k \in 0..n2 BY <1>1, SMT
<1>3. ReaderAt(maxbits, hist2, k, r, sent', output)
  <2>1. CASE r.state \in {"start", "middle"}
    <3>1. hist[k].group \in Nat /\ hist[k].group <= Len(sent) BY <1>1, <2>1, Zenon DEF Trace, ReaderAt
    <3>2. Len(sent) <= Len(sent') /\ \A j \in 1..Len(sent) : sent'[j] = sent[j] BY Zenon DEF Longer
    <3>3. hist[k].group <= Len(sent') /\ \A j \in 1..hist[k].group : j \in 1..Len(sent)
      BY <3>1, <3>2, SMT
    <3>4. \A j \in 1..hist[k].group : sent'[j] = sent[j] BY <3>2, <3>3
    <3>. QED BY <1>1, <1>2, <3>3, <3>4, ReaderStays
  <2>2. CASE r.state \notin {"start", "middle"} BY <1>1, <2>2, Zenon DEF ReaderAt
  <2>. QED BY <2>1, <2>2
<1>4. ChanAt(hist2, n2, k)' BY <1>2, <1>3, Zenon DEF ChanAt
<1>. QED BY <1>4, Zenon DEF ChanInv

LEMMA StreamGiven ==
  ASSUME NEW m, NEW hist, NEW n \in Nat, NEW s, NEW data, Stream(m, hist, n, s, data), NEW c \in Bytes
  PROVE  Stream(m, hist, n, s, Append(data, c))
<1>1. data \in Seq(Bytes) /\ Trace(m, hist, n) BY Zenon DEF Stream
<1>2. Append(data, c) \in Seq(Bytes) BY <1>1, SMT
<1>3. ASSUME NEW i \in 0..n PROVE Prefix(hist[i].text, Append(data, c))
  <2>1. hist[i].text \in Seq(Bytes) /\ Prefix(hist[i].text, data) BY Zenon DEF Stream, Trace
  <2>. QED BY <1>1, <2>1, PrefixGrows
<1>. QED BY <1>2, <1>3, Zenon DEF Stream

LEMMA SameLonger == ASSUME NEW T, NEW s \in Seq(T) PROVE Longer(s, s) /\ Len(s) \in Nat
BY SMT DEF Longer

LEMMA MiddleAt ==
  ASSUME NEW hist, NEW n, NEW k, ChanAt(hist, n, k), w.state = "middle"
  PROVE  n \in Nat /\ \E S : At(maxbits, hist, n, S, w, sent, input)
<1>1. n \in Nat /\ Stream(maxbits, hist, n, sent, input) /\ WriterAt(maxbits, hist, n, w, sent, input)
  BY Zenon DEF ChanAt
<1>2. w.state # "start" /\ w.state # "closed" /\ w.state # "killed" BY SMT
<1>3. PICK S : /\ Sync(maxbits, S, w, hist[n].z, n) /\ input = hist[n].text \o S[w.ent]
               /\ Open(hist, n, sent, w.group, w.n_bits)
  BY <1>1, <1>2, Zenon DEF WriterAt
<1>. QED BY <1>1, <1>3, Zenon DEF At

LEMMA WriteFirstKeeps == ASSUME FitInv, ChanInv, NEW c \in Bytes, WriteFirst(c) PROVE ChanInv'
<1>1. PICK hist, n, k : ChanAt(hist, n, k) BY Zenon DEF ChanInv
<1>2. /\ w.state = "start" /\ w' = [w EXCEPT !.state = "middle", !.ent = c] /\ input' = <<c>>
      /\ maxbits' = maxbits /\ sent' = sent /\ r' = r /\ output' = output
  BY Zenon DEF WriteFirst
<1>3. maxbits \in 1..BITS /\ DOMAIN w = WriterFields
  BY Fields, Zenon DEF FitInv, WriterFits
<1>4. Stream(maxbits, hist, n, sent, input) /\ WriterAt(maxbits, hist, n, w, sent, input)
  BY <1>1, Zenon DEF ChanAt
<1>5. /\ n = 0 /\ sent = <<>> /\ input = <<>> /\ w.group = <<>>
      /\ w.free_ent = FIRST /\ w.n_bits = INIT_BITS /\ w.maxcode = MAXCODE(INIT_BITS) /\ DOMAIN w.table = {}
  <2>1. w.state # "middle" /\ w.state # "closed" /\ w.state # "killed" BY <1>2, SMT
  <2>. QED BY <1>4, <2>1, Zenon DEF WriterAt
<1>6. /\ w'.state = "middle" /\ w'.ent = c /\ w'.free_ent = w.free_ent /\ w'.n_bits = w.n_bits
      /\ w'.maxcode = w.maxcode /\ w'.table = w.table /\ w'.group = w.group
  BY <1>2, <1>3, SMT DEF WriterFields
<1>7. /\ hist[0].z = Start /\ hist[0].text = <<>> /\ hist[0].group = 0 /\ hist[0].place = GroupSize
  BY <1>4, Zenon DEF Stream, Trace
<1>8. PICK S : Sync(maxbits, S, w', hist[0].z, 0) /\ S[c] = <<c>>
  BY <1>3, <1>5, <1>6, <1>7, SyncFirst
<1>9. Len(<<>>) = 0 /\ <<>> \o <<c>> = <<c>> /\ Append(<<>>, c) = <<c>> /\ 1..0 = {} BY SMT
<1>10. Open(hist, 0, sent', w'.group, w'.n_bits)
  BY <1>2, <1>5, <1>6, <1>7, <1>9, Zenon DEF Open, Kept
<1>11. WriterAt(maxbits, hist, 0, w', sent', input')
  BY <1>2, <1>6, <1>7, <1>8, <1>9, <1>10, Zenon DEF WriterAt
<1>12. Stream(maxbits, hist, 0, sent', input')
  <2>1. Stream(maxbits, hist, 0, sent, Append(input, c)) BY <1>4, <1>5, StreamGiven
  <2>. QED BY <1>2, <1>5, <1>9, <2>1
<1>13. Longer(sent, sent') /\ Len(sent) \in Nat /\ Len(sent') \in Nat
  <2>1. sent \in Seq(FitGroups) BY Zenon DEF FitInv, WriterFits
  <2>. QED BY <1>2, <2>1, SameLonger
<1>14. 0 \in Nat /\ n <= 0 BY <1>5, SMT
<1>. QED BY <1>1, <1>2, <1>11, <1>12, <1>13, <1>14, WriterMoves

LEMMA WriteMatchKeeps == ASSUME FitInv, ChanInv, NEW c \in Bytes, WriteMatch(c) PROVE ChanInv'
<1>. DEFINE ent == w.table[<<w.ent, c>>]
<1>1. PICK hist, n, k : ChanAt(hist, n, k) BY Zenon DEF ChanInv
<1>2. /\ w.state = "middle" /\ w' = [w EXCEPT !.ent = ent, !.in_count = @ + 1]
      /\ input' = Append(input, c) /\ <<w.ent, c>> \in DOMAIN w.table
      /\ maxbits' = maxbits /\ sent' = sent /\ r' = r /\ output' = output
  BY Zenon DEF WriteMatch, Extends, Known
<1>3. maxbits \in 1..BITS /\ DOMAIN w = WriterFields /\ sent \in Seq(FitGroups)
  BY Fields, Zenon DEF FitInv, WriterFits
<1>4. n \in Nat /\ \E S : At(maxbits, hist, n, S, w, sent, input) BY <1>1, <1>2, MiddleAt
<1>5. PICK S : At(maxbits, hist, n, S, w, sent, input) BY <1>4
<1>6. /\ Stream(maxbits, hist, n, sent, input) /\ Sync(maxbits, S, w, hist[n].z, n)
      /\ input = hist[n].text \o S[w.ent] /\ Open(hist, n, sent, w.group, w.n_bits)
  BY <1>5, Zenon DEF At
<1>. HIDE DEF ent
<1>7. /\ w'.state = w.state /\ w'.ent = ent /\ w'.free_ent = w.free_ent /\ w'.n_bits = w.n_bits
      /\ w'.maxcode = w.maxcode /\ w'.table = w.table /\ w'.group = w.group
  BY <1>2, <1>3, SMT DEF WriterFields
<1>8. Sync(maxbits, S, w', hist[n].z, n) /\ S[w'.ent] = Append(S[w.ent], c)
  <2>1. w'.ent = w.table[<<w.ent, c>>] BY <1>7 DEF ent
  <2>2. Sync(maxbits, S, w, hist[n].z, n) /\ <<w.ent, c>> \in DOMAIN w.table /\ n \in Nat
    BY <1>2, <1>4, <1>6
  <2>3. /\ w'.free_ent = w.free_ent /\ w'.table = w.table /\ w'.n_bits = w.n_bits
        /\ w'.maxcode = w.maxcode
    BY <1>7
  <2>4. PICK p : p = <<w.ent, c>> OBVIOUS
  <2>5. w'.ent = w.table[p] /\ p \in DOMAIN w.table BY <2>1, <2>2, <2>4
  <2>6. Sync(maxbits, S, w', hist[n].z, n) /\ Lengthens(S, w'.ent, w.ent, c)
    BY <1>3, <2>2, <2>3, <2>4, <2>5, SyncMatch
  <2>. QED BY <2>6, Zenon DEF Lengthens
<1>9. input' = hist[n].text \o S[w'.ent]
  <2>1. hist[n].text \in Seq(Bytes) BY <1>4, <1>6, SMT DEF Stream, Trace
  <2>2. S[w.ent] \in Seq(Bytes) BY <1>6, Zenon DEF Sync, Spells, NonEmpty
  <2>3. PICK a, b, d, e : a = hist[n].text /\ b = S[w.ent] /\ d = S[w'.ent] /\ e = input OBVIOUS
  <2>4. /\ a \in Seq(Bytes) /\ b \in Seq(Bytes) /\ d = Append(b, c) /\ e = a \o b /\ input' = Append(e, c)
    BY <1>2, <1>6, <1>8, <2>1, <2>2, <2>3
  <2>5. Append(a \o b, c) = a \o Append(b, c) BY <2>4, ConcatGrows
  <2>6. input' = a \o d BY <2>4, <2>5
  <2>. QED BY <2>3, <2>6
<1>10. WriterAt(maxbits, hist, n, w', sent', input')
  BY <1>2, <1>6, <1>7, <1>8, <1>9, Zenon DEF WriterAt
<1>11. Stream(maxbits, hist, n, sent', input') BY <1>2, <1>4, <1>6, StreamGiven
<1>12. Longer(sent, sent') /\ Len(sent) \in Nat /\ Len(sent') \in Nat BY <1>2, <1>3, SameLonger
<1>13. n <= n BY <1>4, SMT
<1>. QED BY <1>1, <1>2, <1>4, <1>10, <1>11, <1>12, <1>13, WriterMoves
(* The byte is counted.                                                    *)
LEMMA Counted ==
  ASSUME FitInv, w.state = "middle", NEW hist, NEW n, NEW S, At(maxbits, hist, n, S, w, sent, input),
         NEW x, x = [w EXCEPT !.in_count = @ + 1]
  PROVE  /\ WriterFits(x, sent) /\ x.state = "middle" /\ At(maxbits, hist, n, S, x, sent, input)
         /\ x.ent = w.ent /\ x.free_ent = w.free_ent /\ x.table = w.table /\ x.group = w.group
<1>1. WriterFits(w, sent) /\ DOMAIN w = WriterFields BY Fields, Zenon DEF FitInv, WriterFits
<1>2. PICK i : x = [w EXCEPT !.in_count = i] BY Zenon
<1>3. /\ x.ent = w.ent /\ x.n_bits = w.n_bits /\ x.maxcode = w.maxcode
      /\ x.free_ent = w.free_ent /\ x.clear_flg = w.clear_flg /\ x.table = w.table
      /\ x.group = w.group /\ x.state = w.state
  BY <1>1, <1>2, SMT DEF WriterFields
<1>4. IsWriter(x)
  <2>1. DOMAIN x = DOMAIN w /\ x = [f \in DOMAIN x |-> x[f]] BY <1>2, Zenon
  <2>. QED BY <1>1, <2>1, Fields, Zenon DEF WriterFits
<1>5. WidthInv(x) BY <1>1, <1>3, Zenon DEF WriterFits, WidthInv
<1>6. WriterFits(x, sent) BY <1>1, <1>3, <1>4, <1>5, Zenon DEF WriterFits
<1>7. At(maxbits, hist, n, S, x, sent, input) BY <1>3, Zenon DEF At, Sync
<1>. QED BY <1>3, <1>6, <1>7

LEMMA TakenUp ==
  ASSUME NEW hist, NEW n \in Nat, NEW s, NEW data, Stream(maxbits, hist, n, s, data),
         hist[n].text = data, NEW x, x.state = "middle", NEW c \in Bytes, x.ent = c,
         NEW S, Sync(maxbits, S, x, hist[n].z, n), S[c] = <<c>>, Open(hist, n, s, x.group, x.n_bits)
  PROVE  /\ Stream(maxbits, hist, n, s, Append(data, c))
         /\ WriterAt(maxbits, hist, n, x, s, Append(data, c))
<1>1. Stream(maxbits, hist, n, s, Append(data, c)) BY StreamGiven
<1>2. data \in Seq(Bytes) BY Zenon DEF Stream
<1>3. Append(data, c) = hist[n].text \o S[x.ent]
  <2>1. Append(data, c) = data \o <<c>> BY <1>2, SMT
  <2>. QED BY <2>1
<1>. QED BY <1>1, <1>3, Zenon DEF WriterAt

LEMMA WriteNewKeeps == ASSUME FitInv, ChanInv, NEW c \in Bytes, WriteNew(c) PROVE ChanInv'
<1>. DEFINE x == [w EXCEPT !.in_count = @ + 1]
            o == Output(x, sent, w.ent)
            entries == NewEntry(o.z, c)
<1>1. PICK hist, n, k : ChanAt(hist, n, k) BY Zenon DEF ChanInv
<1>2. /\ w.state = "middle" /\ w' = [o.z EXCEPT !.ent = c, !.table = entries, !.free_ent = @ + 1]
      /\ input' = Append(input, c) /\ w.free_ent < maxmaxcode
      /\ maxbits' = maxbits /\ sent' = o.s /\ r' = r /\ output' = output
  BY Zenon DEF WriteNew, Extends
<1>3. maxbits \in 1..BITS /\ sent \in Seq(FitGroups) BY Zenon DEF FitInv, WriterFits
<1>4. n \in Nat /\ \E S : At(maxbits, hist, n, S, w, sent, input) BY <1>1, <1>2, MiddleAt
<1>5. PICK S : At(maxbits, hist, n, S, w, sent, input) BY <1>4
<1>. HIDE DEF x
<1>6. /\ WriterFits(x, sent) /\ x.state = "middle" /\ At(maxbits, hist, n, S, x, sent, input)
      /\ x.ent = w.ent /\ x.free_ent = w.free_ent /\ x.table = w.table
  BY <1>2, <1>5, Counted, Zenon DEF x
<1>7. /\ IsWriter(o.z) /\ o.z.table = w.table /\ o.z.ent = w.ent /\ o.z.free_ent = w.free_ent
      /\ o.s \in Seq(WholeGroups)
  BY <1>2, EntOutput, Zenon DEF x
<1>8. Put(x, sent, x.ent, o)
  <2>1. MayOutput(x, sent, x.ent) BY <1>3, <1>6, EntFits
  <2>. QED BY <1>6, <2>1, OutputPuts, Zenon
<1>. DEFINE hist2 == More(maxbits, hist, n, x.ent)
            y == hist2[n + 1].z
<1>9. o = Output(x, sent, x.ent) BY <1>6
<1>. HIDE DEF o, hist2
<1>10. /\ Stream(maxbits, hist2, n + 1, o.s, input) /\ After(S, x, o, y)
       /\ hist2[n + 1].text = input /\ Open(hist2, n + 1, o.s, o.z.group, o.z.n_bits)
       /\ (\A i \in 0..n : hist2[i] = hist[i]) /\ Longer(sent, o.s)
  <2>1. Proceeds(hist, n, sent, input, o, hist2) /\ After(S, x, o, y)
    BY <1>3, <1>4, <1>6, <1>9, PutEnt DEF hist2
  <2>. QED BY <2>1, Zenon DEF Proceeds
<1>10e. PICK e : e = <<x.ent, c>> OBVIOUS
<1>11. /\ e = <<x.ent, c>>
       /\ \A p \in DOMAIN entries : \/ p = e /\ entries[p] = x.free_ent
                                    \/ p \in DOMAIN x.table /\ entries[p] = x.table[p]
  <2>1. \A p \in DOMAIN entries : \/ p = <<x.ent, c>> /\ entries[p] = x.free_ent
                                  \/ p \in DOMAIN x.table /\ entries[p] = x.table[p]
    BY <1>6, <1>7, Zenon DEF NewEntry
  <2>. HIDE DEF entries
  <2>. QED BY <1>10e, <2>1
<1>. HIDE DEF entries, y
<1>12. DOMAIN o.z = WriterFields BY <1>7, Fields, Zenon
<1>13. /\ w'.ent = c /\ w'.n_bits = o.z.n_bits /\ w'.maxcode = o.z.maxcode
       /\ w'.free_ent = o.z.free_ent + 1 /\ w'.table = entries
       /\ w'.group = o.z.group /\ w'.state = o.z.state
  BY <1>2, <1>12, SMT DEF WriterFields
<1>14. w'.state = "middle" /\ w'.free_ent = x.free_ent + 1 BY <1>6, <1>7, <1>8, <1>13, Zenon DEF Put
<1>15. x.free_ent < 2^maxbits BY <1>2, <1>6, Zenon DEF maxmaxcode
<1>16. Sync(maxbits, S, x, hist[n].z, n) BY <1>6, Zenon DEF At
<1>17. PICK S2 : Resumes(S2, w', y, n + 1, c)
  <2>1. n \in Nat BY <1>4
  <2>2. \A p \in DOMAIN w'.table : \/ p = e /\ w'.table[p] = x.free_ent
                                   \/ p \in DOMAIN x.table /\ w'.table[p] = x.table[p]
    BY <1>11, <1>13, Zenon
  <2>3. w'.ent = c /\ w'.n_bits = o.z.n_bits /\ w'.maxcode = o.z.maxcode BY <1>13
  <2>4. After(S, x, o, y) BY <1>10
  <2>5. e = <<x.ent, c>> BY <1>11
  <2>. QED BY <1>3, <1>14, <1>15, <1>16, <2>1, <2>2, <2>3, <2>4, <2>5, SyncNew
<1>18. n + 1 \in Nat /\ n <= n + 1 BY <1>4, SMT
<1>19. Stream(maxbits, hist2, n + 1, sent', input') /\ WriterAt(maxbits, hist2, n + 1, w', sent', input')
  <2>1. Open(hist2, n + 1, o.s, w'.group, w'.n_bits) BY <1>10, <1>13
  <2>2. w'.ent = c BY <1>13
  <2>3. Sync(maxbits, S2, w', hist2[n + 1].z, n + 1) /\ S2[c] = <<c>> BY <1>17, Zenon DEF Resumes, y
  <2>. QED BY <1>2, <1>10, <1>14, <1>18, <2>1, <2>2, <2>3, TakenUp
<1>20. Longer(sent, sent') /\ Len(sent) \in Nat /\ Len(sent') \in Nat BY <1>2, <1>3, <1>7, <1>10, SameLonger
<1>. QED BY <1>1, <1>2, <1>10, <1>18, <1>19, <1>20, WriterMoves
(* The table is full: the byte is taken up as it is, or after CLEAR.       *)
TakesUp(y, z, c) ==
  /\ IsWriter(y) /\ y.ent = c /\ y.n_bits = z.n_bits /\ y.maxcode = z.maxcode /\ y.group = z.group
  /\ y.state = z.state

LEMMA FullShape ==
  ASSUME FitInv, NEW c \in Bytes, NEW worse \in BOOLEAN, WriteFull(c, worse),
         NEW o, o = Output([w EXCEPT !.in_count = @ + 1], sent, w.ent)
  PROVE  \/ /\ TakesUp(w', o.z, c) /\ sent' = o.s
            /\ w'.free_ent = w.free_ent /\ w'.clear_flg = FALSE /\ w'.table = w.table
         \/ \E z : /\ TakesUp(z, o.z, c) /\ MayOutput(z, o.s, CLEAR)
                   /\ z.free_ent = FIRST /\ z.clear_flg = TRUE /\ z.table = NoTable
                   /\ w' = Output(z, o.s, CLEAR).z /\ sent' = Output(z, o.s, CLEAR).s
<1>. DEFINE z == [o.z EXCEPT !.ent = c]
            z1 == [z EXCEPT !.checkpoint = z.in_count + CHECK_GAP]
            z2 == [z1 EXCEPT !.table = NoTable, !.free_ent = FIRST, !.clear_flg = TRUE]
<1>1. maxbits \in 1..BITS /\ WriterFits(w, sent) BY Zenon DEF FitInv
<1>2. \/ worse /\ w' = Output(z2, o.s, CLEAR).z /\ sent' = Output(z2, o.s, CLEAR).s
      \/ ~worse /\ (w' = z1 \/ w' = z) /\ sent' = o.s
  BY Zenon DEF WriteFull
<1>3. /\ IsWriter(o.z) /\ WidthInv(o.z) /\ ~o.z.clear_flg /\ o.z.free_ent <= o.z.maxcode
      /\ o.z.free_ent = w.free_ent /\ o.z.table = w.table
      /\ FitsGroup(o.z.group, o.z.n_bits) /\ o.s \in Seq(WholeGroups)
  BY EntOutput, Zenon DEF Extends, WriteFull
<1>. DEFINE SameTable(y) == y.free_ent = w.free_ent /\ y.clear_flg = FALSE /\ y.table = w.table
<1>4. DOMAIN o.z = WriterFields BY <1>3, Fields, Zenon
<1>5. o.z.clear_flg = FALSE BY <1>3, Zenon DEF WidthInv
<1>6. TakesUp(z, o.z, c) /\ SameTable(z)
  <2>1. DOMAIN z = DOMAIN o.z /\ z = [f \in DOMAIN z |-> z[f]] BY Zenon
  <2>2. IsWriter(z) BY <1>3, <2>1, Fields, Zenon
  <2>. QED BY <1>3, <1>4, <1>5, <2>2, SMT DEF WriterFields, TakesUp
<1>. HIDE DEF z
<1>7. TakesUp(z1, o.z, c) /\ SameTable(z1)
  <2>. DEFINE n == z.in_count + CHECK_GAP
  <2>1. z1 = [z EXCEPT !.checkpoint = n] OBVIOUS
  <2>. HIDE DEF n, z1
  <2>2. DOMAIN z1 = DOMAIN z /\ z1 = [f \in DOMAIN z1 |-> z1[f]] BY <2>1, Zenon
  <2>3. IsWriter(z1) BY <1>6, <2>2, Fields, Zenon DEF TakesUp
  <2>4. DOMAIN z = WriterFields BY <1>6, Fields, Zenon DEF TakesUp
  <2>. QED BY <1>6, <2>1, <2>3, <2>4, SMT DEF WriterFields, TakesUp
<1>. HIDE DEF z1
<1>8. TakesUp(z2, o.z, c) /\ z2.free_ent = FIRST /\ z2.clear_flg = TRUE /\ z2.table = NoTable
  <2>1. DOMAIN z2 = DOMAIN z1 /\ z2 = [f \in DOMAIN z2 |-> z2[f]] BY Zenon
  <2>2. IsWriter(z2) BY <1>7, <2>1, Fields, Zenon DEF TakesUp
  <2>3. DOMAIN z1 = WriterFields BY <1>7, Fields, Zenon DEF TakesUp
  <2>. HIDE DEF NoTable, FIRST
  <2>. QED BY <1>7, <2>2, <2>3, SMT DEF WriterFields, TakesUp
<1>. HIDE DEF z2
<1>9. CASE ~worse BY <1>2, <1>6, <1>7, <1>9, Zenon
<1>10. CASE worse
  <2>1. FIRST \in Nat /\ CLEAR \in Nat /\ CLEAR < FIRST BY <1>1, LettersFit, Zenon
  <2>2. w.free_ent \in Nat /\ o.z.maxcode \in Int /\ w.free_ent >= FIRST
    BY <1>1, <1>3, MaxcodeInt, Zenon DEF WriterFits
  <2>3. FIRST <= o.z.maxcode + 1 /\ FIRST <= FIRST BY <1>3, <2>1, <2>2, SMT
  <2>4. WidthInv(z2) BY <1>3, <1>8, <2>1, <2>3, Zenon DEF WidthInv, TakesUp
  <2>5. z2.free_ent <= z2.maxcode + 1 BY <1>8, <2>3, Zenon DEF TakesUp
  <2>6. CLEAR < 2^z2.n_bits BY <1>1, <1>8, <2>1, <2>4, <2>5, GivenOutFits, Zenon
  <2>7. MayOutput(z2, o.s, CLEAR)
    BY <1>3, <1>8, <2>1, <2>4, <2>5, <2>6, Zenon DEF MayOutput, TakesUp
  <2>. QED BY <1>2, <1>8, <1>10, <2>7, Zenon
<1>. QED BY <1>9, <1>10

LEMMA WriteFullKeeps ==
  ASSUME FitInv, ChanInv, NEW c \in Bytes, NEW worse \in BOOLEAN, WriteFull(c, worse) PROVE ChanInv'
<1>. DEFINE x == [w EXCEPT !.in_count = @ + 1]
            o == Output(x, sent, w.ent)
<1>1. PICK hist, n, k : ChanAt(hist, n, k) BY Zenon DEF ChanInv
<1>2. /\ w.state = "middle" /\ input' = Append(input, c) /\ w.free_ent >= maxmaxcode
      /\ maxbits' = maxbits /\ r' = r /\ output' = output
  BY Zenon DEF WriteFull, Extends
<1>3. maxbits \in 1..BITS /\ sent \in Seq(FitGroups) BY Zenon DEF FitInv, WriterFits
<1>4. n \in Nat /\ \E S : At(maxbits, hist, n, S, w, sent, input) BY <1>1, <1>2, MiddleAt
<1>5. PICK S : At(maxbits, hist, n, S, w, sent, input) BY <1>4
<1>. HIDE DEF x
<1>6. /\ WriterFits(x, sent) /\ x.state = "middle" /\ At(maxbits, hist, n, S, x, sent, input)
      /\ x.ent = w.ent /\ x.free_ent = w.free_ent /\ x.table = w.table
  BY <1>2, <1>5, Counted, Zenon DEF x
<1>7. o.s \in Seq(WholeGroups) BY <1>2, EntOutput, Zenon DEF x
<1>8. Put(x, sent, x.ent, o)
  <2>1. MayOutput(x, sent, x.ent) BY <1>3, <1>6, EntFits
  <2>. QED BY <1>6, <2>1, OutputPuts, Zenon
<1>. DEFINE hist2 == More(maxbits, hist, n, x.ent)
            y == hist2[n + 1].z
<1>9. o = Output(x, sent, x.ent) BY <1>6
<1>10. \/ /\ TakesUp(w', o.z, c) /\ sent' = o.s
          /\ w'.free_ent = w.free_ent /\ w'.clear_flg = FALSE /\ w'.table = w.table
       \/ \E z : /\ TakesUp(z, o.z, c) /\ MayOutput(z, o.s, CLEAR)
                 /\ z.free_ent = FIRST /\ z.clear_flg = TRUE /\ z.table = NoTable
                 /\ w' = Output(z, o.s, CLEAR).z /\ sent' = Output(z, o.s, CLEAR).s
  BY FullShape, Zenon DEF x
<1>. HIDE DEF o, hist2
<1>11. /\ Stream(maxbits, hist2, n + 1, o.s, input) /\ After(S, x, o, y)
       /\ hist2[n + 1].text = input /\ Open(hist2, n + 1, o.s, o.z.group, o.z.n_bits)
       /\ (\A i \in 0..n : hist2[i] = hist[i]) /\ Longer(sent, o.s)
  <2>1. Proceeds(hist, n, sent, input, o, hist2) /\ After(S, x, o, y)
    BY <1>3, <1>4, <1>6, <1>9, PutEnt DEF hist2
  <2>. QED BY <2>1, Zenon DEF Proceeds
<1>12. Sync(maxbits, S, x, hist[n].z, n) BY <1>6, Zenon DEF At
<1>13. n \in Nat /\ n + 1 \in Nat /\ n <= n + 1 /\ n + 1 \in Nat \ {0} /\ n <= (n + 1) + 1
       /\ (n + 1) + 1 \in Nat \ {0} /\ (n + 1) + 1 \in Nat
  BY <1>4, SMT
<1>14. o.z.state = "middle" BY <1>6, <1>8, Zenon DEF Put
<1>15. Len(sent) \in Nat /\ Len(o.s) \in Nat BY <1>3, <1>7, SameLonger
<1>16. CASE /\ TakesUp(w', o.z, c) /\ sent' = o.s
            /\ w'.free_ent = w.free_ent /\ w'.clear_flg = FALSE /\ w'.table = w.table
  <2>1. /\ w'.ent = c /\ w'.n_bits = o.z.n_bits /\ w'.maxcode = o.z.maxcode
        /\ w'.group = o.z.group /\ w'.state = "middle" /\ w'.free_ent = x.free_ent
        /\ w'.table = x.table
    BY <1>6, <1>14, <1>16, Zenon DEF TakesUp
  <2>2. x.free_ent >= 2^maxbits BY <1>2, <1>6, Zenon DEF maxmaxcode
  <2>3. Sync(maxbits, S, w', y, n + 1) /\ S[c] = <<c>>
    <3>1. After(S, x, o, y) BY <1>11
    <3>. QED BY <1>3, <1>12, <1>13, <2>1, <2>2, <3>1, SyncFull
  <2>4. Stream(maxbits, hist2, n + 1, sent', input') /\ WriterAt(maxbits, hist2, n + 1, w', sent', input')
    <3>1. Open(hist2, n + 1, o.s, w'.group, w'.n_bits) BY <1>11, <2>1
    <3>. QED BY <1>2, <1>11, <1>13, <1>16, <2>1, <2>3, <3>1, TakenUp
  <2>. QED BY <1>1, <1>2, <1>11, <1>13, <1>15, <1>16, <2>4, WriterMoves
<1>17. ASSUME NEW z, TakesUp(z, o.z, c), MayOutput(z, o.s, CLEAR),
              z.free_ent = FIRST, z.clear_flg = TRUE, z.table = NoTable,
              w' = Output(z, o.s, CLEAR).z, sent' = Output(z, o.s, CLEAR).s
       PROVE  ChanInv'
  <2>. DEFINE o1 == Output(z, o.s, CLEAR)
              hist3 == More(maxbits, hist2, n + 1, CLEAR)
              y2 == hist3[(n + 1) + 1].z
  <2>1. z.ent = c /\ z.n_bits = o.z.n_bits /\ z.maxcode = o.z.maxcode /\ z.group = o.z.group
        /\ z.state = "middle"
    BY <1>14, <1>17, Zenon DEF TakesUp
  <2>2. w' = o1.z /\ sent' = o1.s BY <1>17
  <2>3. Put(z, o.s, CLEAR, o1) BY <1>17, OutputPuts, Zenon
  <2>4. /\ o1.z.free_ent = z.free_ent /\ o1.z.table = z.table /\ o1.z.ent = z.ent
        /\ o1.s \in Seq(WholeGroups)
    BY <1>3, <1>17, OutputFits, SMT
  <2>. HIDE DEF o1, hist3
  <2>5. Bits(y) = z.n_bits /\ Greatest(maxbits, y) = z.maxcode BY <1>11, <2>1, Zenon DEF After
  <2>6. Open(hist2, n + 1, o.s, z.group, z.n_bits) BY <1>11, <2>1
  <2>7. /\ Stream(maxbits, hist3, (n + 1) + 1, o1.s, input) /\ hist3[(n + 1) + 1].text = input
        /\ IsCleared(maxbits, y, y2)
        /\ Bits(y2) = o1.z.n_bits /\ Greatest(maxbits, y2) = o1.z.maxcode
        /\ Open(hist3, (n + 1) + 1, o1.s, o1.z.group, o1.z.n_bits)
        /\ (\A i \in 0..(n + 1) : hist3[i] = hist2[i]) /\ Longer(o.s, o1.s)
    <3>1. /\ Proceeds(hist2, n + 1, o.s, input, o1, hist3) /\ IsCleared(maxbits, y, y2)
          /\ Bits(y2) = o1.z.n_bits /\ Greatest(maxbits, y2) = o1.z.maxcode
      <4>1. PICK i \in Nat \ {0} : i = n + 1 BY <1>13
      <4>2. /\ Stream(maxbits, hist2, i, o.s, input) /\ hist2[i].text = input
            /\ Bits(hist2[i].z) = z.n_bits /\ Greatest(maxbits, hist2[i].z) = z.maxcode
            /\ Open(hist2, i, o.s, z.group, z.n_bits)
        BY <1>11, <2>5, <2>6, <4>1
      <4>3. hist3 = More(maxbits, hist2, i, CLEAR) /\ o1 = Output(z, o.s, CLEAR) BY <4>1 DEF hist3, o1
      <4>4. Clears(hist2, i, o.s, input, o1, hist3) BY <1>3, <1>17, <4>2, <4>3, PutClear
      <4>. QED BY <4>1, <4>4, Zenon DEF Clears
    <3>. QED BY <3>1, Zenon DEF Proceeds
  <2>. HIDE DEF y2
  <2>8. w'.state = "middle" /\ w'.ent = c /\ w'.free_ent = FIRST BY <1>17, <2>1, <2>2, <2>3, <2>4, Zenon DEF Put
  <2>9. DOMAIN w'.table = {}
    <3>1. DOMAIN NoTable = {} BY SMT DEF NoTable
    <3>. QED BY <1>17, <2>2, <2>4, <3>1, Zenon
  <2>10. Sync(maxbits, S, w', y2, (n + 1) + 1) /\ S[c] = <<c>>
    <3>1. IsCleared(maxbits, y, y2) /\ Bits(y2) = w'.n_bits /\ Greatest(maxbits, y2) = w'.maxcode
      BY <2>2, <2>7
    <3>. HIDE DEF y
    <3>. QED BY <1>3, <1>12, <1>13, <2>8, <2>9, <3>1, SyncClear
  <2>11. Stream(maxbits, hist3, (n + 1) + 1, sent', input')
         /\ WriterAt(maxbits, hist3, (n + 1) + 1, w', sent', input')
    <3>1. Open(hist3, (n + 1) + 1, o1.s, w'.group, w'.n_bits) BY <2>2, <2>7
    <3>. QED BY <1>2, <1>13, <2>2, <2>7, <2>8, <2>10, <3>1, TakenUp DEF y2
  <2>12. \A i \in 0..n : hist3[i] = hist[i]
    <3>1. \A i \in 0..n : i \in 0..(n + 1) BY <1>4, SMT
    <3>. QED BY <1>11, <2>7, <3>1
  <2>13. Longer(sent, sent') /\ Len(sent') \in Nat
    <3>1. Len(o1.s) \in Nat BY <2>4, SameLonger
    <3>2. Longer(sent, o1.s) BY <1>11, <1>15, <2>7, <3>1, SMT DEF Longer
    <3>. QED BY <2>2, <3>1, <3>2
  <2>. QED BY <1>1, <1>2, <1>13, <1>15, <2>11, <2>12, <2>13, WriterMoves
<1>. QED BY <1>10, <1>16, <1>17
LEMMA CloseKeeps == ASSUME FitInv, ChanInv, Close PROVE ChanInv'
<1>. DEFINE o == Output(w, sent, w.ent)
            g == o.z.group
<1>1. PICK hist, n, k : ChanAt(hist, n, k) BY Zenon DEF ChanInv
<1>2. /\ w.state = "middle" /\ w' = [o.z EXCEPT !.state = "closed", !.group = <<>>]
      /\ sent' = IF g = <<>> THEN o.s ELSE Flush(o.z, o.s, g)
      /\ maxbits' = maxbits /\ r' = r /\ output' = output /\ input' = input
  BY Zenon DEF Close
<1>3. maxbits \in 1..BITS /\ sent \in Seq(FitGroups) /\ WriterFits(w, sent) BY Zenon DEF FitInv, WriterFits
<1>4. n \in Nat /\ \E S : At(maxbits, hist, n, S, w, sent, input) BY <1>1, <1>2, MiddleAt
<1>5. PICK S : At(maxbits, hist, n, S, w, sent, input) BY <1>4
<1>. DEFINE hist2 == More(maxbits, hist, n, w.ent)
            n2 == n + 1
<1>6. MayOutput(w, sent, w.ent) BY <1>2, <1>3, EntFits
<1>7. IsWriter(o.z) /\ o.s \in Seq(WholeGroups) /\ FitsGroup(g, o.z.n_bits) BY <1>3, <1>6, OutputFits, SMT
<1>8. Proceeds(hist, n, sent, input, o, hist2) BY <1>2, <1>3, <1>4, <1>5, PutEnt
<1>. HIDE DEF o, hist2
<1>9. /\ Stream(maxbits, hist2, n2, o.s, input) /\ hist2[n2].text = input
      /\ Open(hist2, n2, o.s, g, o.z.n_bits)
      /\ (\A i \in 0..n : hist2[i] = hist[i]) /\ Longer(sent, o.s)
  BY <1>8, Zenon DEF Proceeds
<1>10. n2 \in Nat /\ n <= n2 /\ n2 \in 1..n2 /\ n2 \in 0..n2 BY <1>4, SMT
<1>. HIDE DEF n2
<1>11. Trace(maxbits, hist2, n2) BY <1>9, Zenon DEF Stream
<1>12. hist2[n2].place \in 1..GroupSize /\ \A i \in 1..n2 : hist2[i].place \in 1..GroupSize
  BY <1>10, <1>11, GroupsStart
<1>13. GroupSize \in Nat /\ g \in Seq(Int) /\ Len(g) \in Nat
  BY <1>7, LzwAssumption, SMT DEF FitsGroup
<1>14. w'.state = "closed"
  <2>1. DOMAIN o.z = WriterFields BY <1>7, Fields, Zenon
  <2>. QED BY <1>2, <2>1, SMT DEF WriterFields
<1>15. Len(sent) \in Nat /\ Len(o.s) \in Nat BY <1>3, <1>7, SameLonger
<1>16. CASE g = <<>>
  <2>1. sent' = o.s BY <1>2, <1>16
  <2>2. Len(g) = 0 /\ \A p \in 1..GroupSize : ~(p <= 0) /\ p # 0 BY <1>16, SMT
  <2>3. \A i \in 1..n2 : Sent(hist2, i, o.s)
    <3>1. ASSUME NEW i \in 1..n2 PROVE ~Waiting(hist2, i, o.s, g, o.z.n_bits)
      BY <1>12, <2>2, Zenon DEF Waiting
    <3>. QED BY <1>9, <3>1, Zenon DEF Open, Kept
  <2>4. hist2[n2].group = Len(o.s) /\ (Change(hist2[n2].z) \/ hist2[n2].place = GroupSize)
    BY <1>9, <1>12, <2>2, Zenon DEF Open
  <2>5. Ended(hist2, n2, sent') BY <2>1, <2>3, <2>4, Zenon DEF Ended
  <2>6. WriterAt(maxbits, hist2, n2, w', sent', input')
    BY <1>2, <1>9, <1>14, <2>5, Zenon DEF WriterAt
  <2>7. Stream(maxbits, hist2, n2, sent', input') BY <1>2, <1>9, <2>1
  <2>. QED BY <1>1, <1>2, <1>9, <1>10, <1>15, <2>1, <2>6, <2>7, WriterMoves
<1>17. CASE g # <<>>
  <2>1. sent' = Flush(o.z, o.s, g) BY <1>2, <1>17
  <2>2. Flushed(o.z, o.s, g, sent') BY <1>7, <2>1, FlushFields
  <2>3. /\ Len(sent') = Len(o.s) + 1 /\ \A j \in 1..Len(o.s) : sent'[j] = o.s[j]
        /\ sent'[Len(o.s) + 1].codes = g
    BY <2>2, Zenon DEF Flushed
  <2>4. \A i \in 1..n2 : Sent(hist2, i, sent')
    <3>1. Kept(hist2, n2, o.s, g, o.z.n_bits) BY <1>9, Zenon DEF Open
    <3>2. Len(g) <= Len(g) /\ \A j \in 1..Len(g) : g[j] = g[j] BY <1>13, SMT
    <3>. QED BY <1>7, <1>10, <1>11, <1>13, <2>1, <3>1, <3>2, FlushSends
  <2>5. hist2[n2].group = Len(o.s) + 1 /\ hist2[n2].place = Len(g) /\ hist2[n2].place < GroupSize
    BY <1>9, <1>17, Zenon DEF Open
  <2>6. hist2[n2].group = Len(sent') /\ hist2[n2].place = Len(sent'[hist2[n2].group].codes)
    BY <2>3, <2>5
  <2>7. Ended(hist2, n2, sent') BY <2>4, <2>6, Zenon DEF Ended
  <2>8. WriterAt(maxbits, hist2, n2, w', sent', input')
    BY <1>2, <1>9, <1>14, <2>7, Zenon DEF WriterAt
  <2>9. \A i \in 1..Len(sent') : Len(sent'[i].codes) <= GroupSize
    <3>1. Len(g) <= GroupSize BY <1>13, <2>5, SMT
    <3>2. \A i \in 1..Len(o.s) : Len(o.s[i].codes) <= GroupSize BY <1>9, Zenon DEF Stream
    <3>3. \A i \in 1..Len(sent') : i \in 1..Len(o.s) \/ i = Len(o.s) + 1 BY <1>15, <2>3, SMT
    <3>. QED BY <2>3, <3>1, <3>2, <3>3, Zenon
  <2>10. Stream(maxbits, hist2, n2, sent', input') BY <1>2, <1>9, <2>9, Zenon DEF Stream
  <2>11. Longer(sent, sent') /\ Len(sent') \in Nat BY <1>9, <1>15, <2>3, SMT DEF Longer
  <2>. QED BY <1>1, <1>2, <1>9, <1>10, <1>15, <2>8, <2>10, <2>11, WriterMoves
<1>. QED BY <1>16, <1>17

LEMMA CloseEmptyKeeps == ASSUME FitInv, ChanInv, CloseEmpty PROVE ChanInv'
<1>1. PICK hist, n, k : ChanAt(hist, n, k) BY Zenon DEF ChanInv
<1>2. /\ w.state = "start" /\ w' = [w EXCEPT !.state = "closed"]
      /\ input' = input /\ maxbits' = maxbits /\ sent' = sent /\ r' = r /\ output' = output
  BY Zenon DEF CloseEmpty
<1>3. DOMAIN w = WriterFields /\ sent \in Seq(FitGroups) BY Fields, Zenon DEF FitInv, WriterFits
<1>4. Stream(maxbits, hist, n, sent, input) /\ WriterAt(maxbits, hist, n, w, sent, input) /\ n \in Nat
  BY <1>1, Zenon DEF ChanAt
<1>5. n = 0 /\ sent = <<>> /\ input = <<>>
  <2>1. w.state # "middle" /\ w.state # "closed" /\ w.state # "killed" BY <1>2, SMT
  <2>. QED BY <1>4, <2>1, Zenon DEF WriterAt
<1>6. w'.state = "closed" BY <1>2, <1>3, SMT DEF WriterFields
<1>7. hist[0].text = <<>> /\ hist[0].group = 0 /\ hist[0].place = GroupSize
  BY <1>4, Zenon DEF Stream, Trace
<1>8. Ended(hist, n, sent)
  <2>1. 1..0 = {} /\ Len(<<>>) = 0 BY SMT
  <2>. QED BY <1>5, <1>7, <2>1, Zenon DEF Ended
<1>9. WriterAt(maxbits, hist, n, w', sent', input') BY <1>2, <1>5, <1>6, <1>7, <1>8, Zenon DEF WriterAt
<1>10. Stream(maxbits, hist, n, sent', input') BY <1>2, <1>4
<1>11. Longer(sent, sent') /\ Len(sent) \in Nat /\ Len(sent') \in Nat BY <1>2, <1>3, SameLonger
<1>12. n <= n BY <1>4, SMT
<1>. QED BY <1>1, <1>2, <1>4, <1>9, <1>10, <1>11, <1>12, WriterMoves
-----------------------------------------------------------------------------
(* The writer is killed: what is left is a stream of fewer codes, of which *)
(* the reader has not read more.                                           *)

Left(s, groups, codes) == groups < Len(s) /\ codes > 0
IsCut(s, groups, codes, s2) ==
  /\ \A j \in 1..groups : s2[j] = s[j]
  /\ ~Left(s, groups, codes) => Len(s2) = groups
  /\ Left(s, groups, codes) =>
       /\ Len(s2) = groups + 1 /\ s2[groups + 1].width = s[groups + 1].width
       /\ Len(s2[groups + 1].codes) = codes
       /\ \A j \in 1..codes : s2[groups + 1].codes[j] = s[groups + 1].codes[j]

LEMMA CutShape ==
  ASSUME NEW s \in Seq(WholeGroups), NEW groups \in 0..Len(s), NEW codes \in 0..GroupSize,
         NEW s2, s2 = SubSeq(s, 1, groups) \o
                        (IF groups < Len(s) /\ codes > 0
                         THEN <<[s[groups + 1] EXCEPT !.codes = SubSeq(@, 1, codes)]>> ELSE <<>>)
  PROVE  IsCut(s, groups, codes, s2)
<1>. DEFINE left == groups < Len(s) /\ codes > 0
            whole == SubSeq(s, 1, groups)
            g == s[groups + 1]
            cut == [g EXCEPT !.codes = SubSeq(@, 1, codes)]
<1>1. whole \in Seq(WholeGroups) /\ Len(whole) = groups /\ \A j \in 1..groups : whole[j] = s[j]
  BY SMT
<1>2. s2 = whole \o (IF left THEN <<cut>> ELSE <<>>) OBVIOUS
<1>. HIDE DEF whole
<1>3. CASE ~left
  <2>1. s2 = whole \o <<>> BY <1>2, <1>3
  <2>2. s2 = whole BY <1>1, <2>1, SMT
  <2>. QED BY <1>1, <1>3, <2>2, Zenon DEF IsCut, Left
<1>4. CASE left
  <2>1. g \in WholeGroups /\ codes \in 1..GroupSize BY <1>4, LzwAssumption, SMT
  <2>2. /\ g \in [width : 0..BITS, codes : Seq(Int)] /\ Len(g.codes) = GroupSize
    BY <2>1, Zenon DEF WholeGroups, FitGroups
  <2>. HIDE DEF g
  <2>3. GroupSize \in Nat /\ codes \in Nat BY LzwAssumption, SMT
  <2>4. /\ cut.width = g.width /\ Len(cut.codes) = codes /\ \A j \in 1..codes : cut.codes[j] = g.codes[j]
    <3>. DEFINE part == SubSeq(g.codes, 1, codes)
    <3>1. g.codes \in Seq(Int) BY <2>2, SMT
    <3>2. Len(part) = codes /\ \A j \in 1..codes : part[j] = g.codes[j]
      BY <2>1, <2>2, <2>3, <3>1, SMT
    <3>3. cut = [g EXCEPT !.codes = part] OBVIOUS
    <3>. HIDE DEF part, cut
    <3>4. cut.width = g.width /\ cut.codes = part BY <2>2, <3>3, SMT
    <3>. QED BY <3>2, <3>4
  <2>5. s2 = whole \o <<cut>> BY <1>2, <1>4
  <2>. HIDE DEF cut
  <2>6. Len(s2) = groups + 1 /\ s2[groups + 1] = cut /\ \A j \in 1..groups : s2[j] = whole[j]
    <3>. DEFINE T == WholeGroups \cup {cut}
    <3>1. WholeGroups \subseteq T /\ cut \in T OBVIOUS
    <3>. HIDE DEF T
    <3>2. whole \in Seq(T) BY <1>1, <3>1, SMT
    <3>3. groups \in Nat BY SMT
    <3>. DEFINE one == <<cut>>
    <3>4. one \in Seq(T) /\ Len(one) = 1 /\ one[1] = cut BY <3>1, SMT
    <3>5. s2 = whole \o one BY <2>5
    <3>. HIDE DEF one
    <3>. DEFINE both == whole \o one
    <3>6. /\ Len(both) = Len(whole) + Len(one)
          /\ \A j \in 1..Len(whole) + Len(one) :
               both[j] = IF j <= Len(whole) THEN whole[j] ELSE one[j - Len(whole)]
      BY <3>2, <3>4, ConcatProperties, Zenon
    <3>. HIDE DEF both
    <3>7. Len(s2) = groups + 1 BY <1>1, <3>4, <3>5, <3>6 DEF both
    <3>8. s2[groups + 1] = one[1]
      <4>1. groups + 1 \in 1..groups + 1 /\ ~(groups + 1 <= groups) /\ groups + 1 - groups = 1 BY <3>3, SMT
      <4>2. groups + 1 \in 1..Len(whole) + Len(one) BY <1>1, <3>4, <4>1
      <4>3. both[groups + 1] = IF groups + 1 <= Len(whole) THEN whole[groups + 1] ELSE one[groups + 1 - Len(whole)]
        BY <3>6, <4>2
      <4>. QED BY <1>1, <3>5, <4>1, <4>3 DEF both
    <3>9. ASSUME NEW j \in 1..groups PROVE s2[j] = whole[j]
      <4>1. j \in 1..groups + 1 /\ j <= groups BY <3>3, SMT
      <4>2. j \in 1..Len(whole) + Len(one) /\ j <= Len(whole) BY <1>1, <3>4, <4>1
      <4>. QED BY <3>5, <3>6, <4>2 DEF both
    <3>. QED BY <3>4, <3>7, <3>8, <3>9
  <2>7. \A j \in 1..groups : s2[j] = s[j] BY <1>1, <2>6
  <2>. QED BY <1>4, <2>4, <2>6, <2>7, Zenon DEF IsCut, Left, g
<1>. QED BY <1>3, <1>4

LEMMA TraceShorter ==
  ASSUME NEW m, NEW hist, NEW n \in Nat, Trace(m, hist, n), NEW k \in 0..n PROVE Trace(m, hist, k)
<1>1. (\A i \in 0..k : i \in 0..n) /\ (\A i \in 1..k : i \in 1..n) BY SMT
<1>. QED BY <1>1, Zenon DEF Trace

LEMMA CutEnds ==
  ASSUME NEW m, NEW hist, NEW n \in Nat, Trace(m, hist, n), NEW s \in Seq(WholeGroups), NEW g, NEW bits,
         Open(hist, n, s, g, bits), NEW groups \in 0..Len(s), NEW codes \in 0..GroupSize, NEW s2,
         IsCut(s, groups, codes, s2)
  PROVE  \E k \in 0..n : Ended(hist, k, s2) /\ \A i \in 0..n : hist[i].group <= groups => i <= k
<1>. DEFINE left == Left(s, groups, codes)
            Good(i) == \/ hist[i].group <= groups
                       \/ hist[i].group = groups + 1 /\ left /\ hist[i].place <= codes
            Bad == {i \in 1..n : ~Good(i)}
<1>0. /\ Len(s) \in Nat /\ groups \in Nat /\ groups <= Len(s) /\ codes \in Nat /\ GroupSize \in Nat
      /\ left => groups < Len(s) /\ codes > 0
  BY LzwAssumption, SMT DEF Left
<1>1. /\ \A j \in 1..groups : s2[j] = s[j]
      /\ ~left => Len(s2) = groups
      /\ left => /\ Len(s2) = groups + 1 /\ s2[groups + 1].width = s[groups + 1].width
                 /\ Len(s2[groups + 1].codes) = codes
                 /\ \A j \in 1..codes : s2[groups + 1].codes[j] = s[groups + 1].codes[j]
  BY Zenon DEF IsCut
<1>. HIDE DEF left
<1>2. /\ \A i \in 0..n : hist[i].group \in Nat /\ hist[i].place \in 1..GroupSize
      /\ \A i, j \in 0..n : i <= j => hist[i].group <= hist[j].group
      /\ hist[0].group = 0
  BY Zenon DEF Trace
<1>3. Good(0) BY <1>0, <1>2
<1>4. \A i \in 0..n : i \notin Bad => Good(i)
  <2>1. \A i \in 0..n : i = 0 \/ i \in 1..n BY SMT
  <2>. QED BY <1>3, <2>1
<1>5. ASSUME NEW k \in 0..n, \A i \in 1..k : Good(i) PROVE \A i \in 1..k : Sent(hist, i, s2)
  <2>1. SUFFICES ASSUME NEW i \in 1..k PROVE Sent(hist, i, s2) OBVIOUS
  <2>2. i \in 1..n BY SMT
  <2>3. hist[i].group \in Nat /\ hist[i].group >= 1 /\ hist[i].place \in 1..GroupSize BY <2>2, GroupsStart
  <2>4. Sent(hist, i, s) \/ Waiting(hist, i, s, g, bits) BY <2>2, Zenon DEF Open, Kept
  <2>5. CASE hist[i].group <= groups
    <3>1. hist[i].group \in 1..groups /\ hist[i].group # Len(s) + 1 BY <1>0, <2>3, <2>5, SMT
    <3>2. Sent(hist, i, s) BY <2>4, <3>1, Zenon DEF Waiting
    <3>3. s2[hist[i].group] = s[hist[i].group] BY <1>1, <3>1
    <3>4. hist[i].group <= Len(s2)
      <4>1. CASE left
        <5>1. Len(s2) = groups + 1 BY <1>1, <4>1
        <5>. QED BY <1>0, <2>3, <2>5, <5>1, SMT
      <4>2. CASE ~left BY <1>1, <2>5, <4>2
      <4>. QED BY <4>1, <4>2
    <3>. QED BY <3>2, <3>3, <3>4, Zenon DEF Sent
  <2>6. CASE hist[i].group = groups + 1 /\ left /\ hist[i].place <= codes
    <3>1. hist[i].group # Len(s) + 1 BY <1>0, <2>3, <2>6, SMT
    <3>2. Sent(hist, i, s) BY <2>4, <3>1, Zenon DEF Waiting
    <3>3. hist[i].group <= Len(s2) /\ hist[i].place \in 1..codes
          /\ hist[i].place <= Len(s2[groups + 1].codes)
      BY <1>0, <1>1, <2>3, <2>6, SMT
    <3>4. s2[groups + 1].codes[hist[i].place] = s[groups + 1].codes[hist[i].place]
      BY <1>1, <2>6, <3>3
    <3>. QED BY <1>1, <2>6, <3>2, <3>3, <3>4, Zenon DEF Sent
  <2>. QED BY <1>5, <2>5, <2>6
<1>6. CASE Bad = {}
  <2>1. n \in 0..n /\ \A i \in 1..n : Good(i) /\ i \in 0..n BY <1>4, <1>6, SMT
  <2>2. Good(n) /\ hist[n].group \in Nat BY <1>2, <1>4, <1>6, <2>1
  <2>3. hist[n].group # Len(s) + 1 BY <1>0, <2>2, SMT
  <2>4. hist[n].group = Len(s) /\ (Change(hist[n].z) \/ hist[n].place = GroupSize)
    BY <2>3, Zenon DEF Open
  <2>5. Len(s2) = Len(s)
    <3>1. CASE left
      <4>1. Len(s2) = groups + 1 BY <1>1, <3>1
      <4>. QED BY <1>0, <2>2, <2>4, <3>1, <4>1, SMT
    <3>2. CASE ~left
      <4>1. Len(s2) = groups BY <1>1, <3>2
      <4>. QED BY <1>0, <2>2, <2>4, <3>2, <4>1, SMT
    <3>. QED BY <3>1, <3>2
  <2>6. Ended(hist, n, s2) BY <1>5, <2>1, <2>4, <2>5, Zenon DEF Ended
  <2>7. \A i \in 0..n : i <= n BY SMT
  <2>. QED BY <2>1, <2>6, <2>7
<1>7. CASE Bad # {}
  <2>1. Bad \subseteq Nat BY SMT
  <2>2. PICK b \in Bad : \A i \in Bad : ~(i < b) BY <1>7, <2>1, Least
  <2>3. b \in 1..n /\ ~Good(b) BY <2>2
  <2>. DEFINE k == b - 1
  <2>4. /\ k \in 0..n /\ b \in 0..n /\ k + 1 = b /\ \A i \in 0..k : i \in 0..n /\ i < b /\ i \notin Bad
    <3>1. /\ k \in 0..n /\ b \in 0..n /\ k + 1 = b /\ \A i \in 0..k : i \in 0..n /\ i < b
      BY <2>3, SMT
    <3>. QED BY <2>2, <3>1
  <2>5. \A i \in 0..k : Good(i) BY <1>4, <2>4
  <2>6. Good(k) /\ \A i \in 1..k : Good(i)
    <3>1. k \in 0..k /\ \A i \in 1..k : i \in 0..k BY <2>4, SMT
    <3>. QED BY <2>5, <3>1
  <2>7. Follows(m, hist[k], hist[b], b) BY <2>3, Zenon DEF Trace
  <2>. HIDE DEF k
  <2>8. /\ hist[k].group \in Nat /\ hist[k].place \in 1..GroupSize
        /\ hist[b].group \in Nat /\ hist[b].place \in 1..GroupSize
    BY <1>2, <2>4
  <2>9. /\ hist[k].group = Len(s2)
        /\ Change(hist[k].z) \/ hist[k].place = GroupSize \/ hist[k].place = Len(s2[hist[k].group].codes)
    <3>1. CASE Change(hist[k].z) \/ hist[k].place = GroupSize
      <4>1. hist[b].group = hist[k].group + 1 /\ hist[b].place = 1 BY <2>7, <3>1, Zenon DEF Follows
      <4>2. CASE left
        <5>1. hist[k].group <= groups + 1
          <6>1. hist[k].group <= groups => hist[k].group <= groups + 1 BY <1>0, <2>8, SMT
          <6>2. hist[k].group = groups + 1 => hist[k].group <= groups + 1 BY <1>0, SMT
          <6>. QED BY <2>6, <6>1, <6>2
        <5>2. ~(hist[b].group <= groups) /\ ~(hist[b].group = groups + 1 /\ hist[b].place <= codes)
          BY <2>3, <4>2
        <5>3. 1 <= codes BY <1>0, <4>2, SMT
        <5>4. hist[b].group # groups + 1 BY <4>1, <5>2, <5>3
        <5>5. hist[k].group = groups + 1 BY <1>0, <2>8, <4>1, <5>1, <5>2, <5>4, SMT
        <5>. QED BY <1>1, <3>1, <4>2, <5>5
      <4>3. CASE ~left
        <5>1. hist[k].group = groups BY <1>0, <2>3, <2>6, <2>8, <4>1, <4>3, SMT
        <5>. QED BY <1>1, <3>1, <4>3, <5>1
      <4>. QED BY <4>2, <4>3
    <3>2. CASE ~(Change(hist[k].z) \/ hist[k].place = GroupSize)
      <4>1. hist[b].group = hist[k].group /\ hist[b].place = hist[k].place + 1
        BY <2>7, <3>2, Zenon DEF Follows
      <4>2. left /\ hist[k].group = groups + 1 /\ hist[k].place = codes
        BY <1>0, <2>3, <2>6, <2>8, <4>1, SMT
      <4>. QED BY <1>1, <4>2
    <3>. QED BY <3>1, <3>2
  <2>10. Ended(hist, k, s2) BY <1>5, <2>4, <2>6, <2>9, Zenon DEF Ended
  <2>11. ASSUME NEW i \in 0..n, hist[i].group <= groups PROVE i <= k
    <3>1. SUFFICES ASSUME b <= i PROVE FALSE BY <2>3, <2>4, SMT
    <3>2. hist[b].group <= hist[i].group BY <1>2, <2>4, <3>1
    <3>3. hist[i].group \in Nat BY <1>2
    <3>4. hist[b].group <= groups BY <1>0, <2>8, <2>11, <3>2, <3>3, SMT
    <3>. QED BY <2>3, <3>4
  <2>. QED BY <2>4, <2>10, <2>11
<1>. QED BY <1>6, <1>7

LEMMA KilledKeeps ==
  ASSUME FitInv, ChanInv, NEW groups \in 0..Len(sent), NEW codes \in 0..GroupSize, Killed(groups, codes)
  PROVE  ChanInv'
<1>1. PICK hist, n, k : ChanAt(hist, n, k) BY Zenon DEF ChanInv
<1>2. /\ w.state = "middle" /\ groups \in r.next - 1..Len(sent) /\ w' = [w EXCEPT !.state = "killed"]
      /\ sent' = SubSeq(sent, 1, groups) \o
                   (IF groups < Len(sent) /\ codes > 0
                    THEN <<[sent[groups + 1] EXCEPT !.codes = SubSeq(@, 1, codes)]>> ELSE <<>>)
      /\ maxbits' = maxbits /\ r' = r /\ output' = output /\ input' = input
  BY Zenon DEF Killed
<1>3. sent \in Seq(WholeGroups) /\ DOMAIN w = WriterFields
  BY <1>2, Fields, Zenon DEF FitInv, WriterFits
<1>4. /\ n \in Nat /\ k \in 0..n /\ Stream(maxbits, hist, n, sent, input) /\ Trace(maxbits, hist, n)
      /\ ReaderAt(maxbits, hist, k, r, sent, output)
  BY <1>1, Zenon DEF ChanAt, Stream
<1>5. Open(hist, n, sent, w.group, w.n_bits) BY <1>1, <1>2, MiddleAt, Zenon DEF At
<1>6. IsCut(sent, groups, codes, sent') BY <1>2, <1>3, CutShape
<1>7. PICK k2 \in 0..n : Ended(hist, k2, sent') /\ \A i \in 0..n : hist[i].group <= groups => i <= k2
  BY <1>3, <1>4, <1>5, <1>6, CutEnds
<1>8. WriterAt(maxbits, hist, k2, w', sent', input')
  <2>1. w'.state = "killed" BY <1>2, <1>3, SMT DEF WriterFields
  <2>. QED BY <1>7, <2>1, Zenon DEF WriterAt
<1>9. /\ Len(sent) \in Nat /\ groups \in Nat /\ groups <= Len(sent) /\ codes \in Nat /\ codes <= GroupSize
      /\ GroupSize \in Nat /\ Left(sent, groups, codes) => groups < Len(sent)
  BY <1>3, LzwAssumption, SMT DEF Left
<1>10. /\ \A j \in 1..groups : sent'[j] = sent[j]
       /\ ~Left(sent, groups, codes) => Len(sent') = groups
       /\ Left(sent, groups, codes) => Len(sent') = groups + 1 /\ Len(sent'[groups + 1].codes) = codes
  BY <1>6, Zenon DEF IsCut
<1>11. \A i \in 1..Len(sent') : Len(sent'[i].codes) <= GroupSize
  <2>1. SUFFICES ASSUME NEW i \in 1..Len(sent') PROVE Len(sent'[i].codes) <= GroupSize OBVIOUS
  <2>2. CASE i \in 1..groups
    <3>1. i \in 1..Len(sent) BY <1>9, <2>2, SMT
    <3>2. Len(sent[i].codes) <= GroupSize BY <1>4, <3>1, Zenon DEF Stream
    <3>. QED BY <1>10, <2>2, <3>2
  <2>3. CASE i \notin 1..groups
    <3>1. Left(sent, groups, codes) BY <1>9, <1>10, <2>3, SMT
    <3>2. i = groups + 1 BY <1>9, <1>10, <2>3, <3>1, SMT
    <3>. QED BY <1>9, <1>10, <3>1, <3>2
  <2>. QED BY <2>2, <2>3
<1>12. k2 \in Nat /\ \A i \in 0..k2 : i \in 0..n BY <1>4, SMT
<1>13. Stream(maxbits, hist, k2, sent', input')
  <2>1. Trace(maxbits, hist, k2) BY <1>4, TraceShorter
  <2>. QED BY <1>2, <1>4, <1>11, <1>12, <2>1, Zenon DEF Stream
<1>14. \E i \in 0..k2 : ReaderAt(maxbits, hist, i, r, sent', output)
  <2>1. CASE r.state \in {"start", "middle"}
    <3>1. r.next = hist[k].group + 1 /\ hist[k].group <= Len(sent) BY <1>4, <2>1, Zenon DEF ReaderAt
    <3>2. hist[k].group \in Nat BY <1>4, Zenon DEF Trace
    <3>3. hist[k].group <= groups BY <1>2, <1>9, <3>1, <3>2, SMT
    <3>4. k <= k2 BY <1>4, <1>7, <3>3
    <3>5. k \in 0..k2 BY <1>4, <1>12, <3>4, SMT
    <3>6. Len(sent') \in {groups, groups + 1} BY <1>10
    <3>7. hist[k].group <= Len(sent') /\ \A j \in 1..hist[k].group : j \in 1..groups
      BY <1>9, <3>2, <3>3, <3>6, SMT
    <3>8. \A j \in 1..hist[k].group : sent'[j] = sent[j] BY <1>10, <3>7
    <3>9. ReaderAt(maxbits, hist, k, r, sent', output) BY <1>4, <3>7, <3>8, ReaderStays
    <3>. QED BY <3>5, <3>9
  <2>2. CASE r.state \notin {"start", "middle"}
    <3>1. 0 \in 0..k2 BY <1>12, SMT
    <3>2. r.state # "middle" /\ r.state # "start" BY <2>2
    <3>3. ReaderAt(maxbits, hist, 0, r, sent', output)  BY <1>4, <2>2, <3>2, Zenon DEF ReaderAt
    <3>. QED BY <3>1, <3>3
  <2>. QED BY <2>1, <2>2
<1>15. PICK i \in 0..k2 : ReaderAt(maxbits, hist, i, r, sent', output) BY <1>14
<1>16. ChanAt(hist, k2, i)' BY <1>2, <1>8, <1>12, <1>13, <1>15, Zenon DEF ChanAt
<1>. QED BY <1>16, Zenon DEF ChanInv
-----------------------------------------------------------------------------
(* The reader takes codes one after the other.                             *)

LEMMA RestEmpty ==
  ASSUME NEW c \in Seq(Int), NEW p \in Nat, p >= Len(c) PROVE SubSeq(c, p + 1, Len(c)) = <<>>
BY SMT

RestOf(c, p, a) == a \in Seq(Int) /\ Len(a) = Len(c) - p /\ \A i \in 1..Len(c) - p : a[i] = c[p + i]

LEMMA TailShifts ==
  ASSUME NEW c \in Seq(Int), NEW p \in Nat, p + 1 <= Len(c), NEW a, RestOf(c, p, a),
         NEW b, RestOf(c, p + 1, b)
  PROVE  a # <<>> /\ Head(a) = c[p + 1] /\ Tail(a) = b
<1>1. a \in Seq(Int) /\ Len(a) = Len(c) - p /\ \A i \in 1..Len(c) - p : a[i] = c[p + i] BY DEF RestOf
<1>2. b \in Seq(Int) /\ Len(b) = Len(c) - (p + 1) /\ \A i \in 1..Len(c) - (p + 1) : b[i] = c[(p + 1) + i]
  BY DEF RestOf
<1>3. Len(c) \in Nat /\ Len(c) - p >= 1 BY SMT
<1>4. a # <<>> /\ Head(a) = a[1] /\ a[1] = c[p + 1]
  <2>1. 1 \in 1..Len(c) - p BY <1>3, SMT
  <2>2. a[1] = c[p + 1] BY <1>1, <2>1
  <2>3. Len(a) # 0 BY <1>1, <1>3, SMT
  <2>4. a # <<>> BY <2>3, SMT
  <2>5. Head(a) = a[1] BY <1>1, <2>4, SMT
  <2>. QED BY <2>2, <2>4, <2>5
<1>. DEFINE t == Tail(a)
<1>5. t \in Seq(Int) /\ Len(t) = Len(a) - 1 /\ \A i \in 1..Len(a) - 1 : t[i] = a[i + 1]
  BY <1>1, <1>4, SMT
<1>. HIDE DEF t
<1>6. Len(t) = Len(b)
  <2>1. (Len(c) - p) - 1 = Len(c) - (p + 1) BY <1>3, SMT
  <2>. QED BY <1>1, <1>2, <1>5, <2>1
<1>7. \A i \in 1..Len(t) : t[i] = b[i]
  <2>1. SUFFICES ASSUME NEW i \in 1..Len(t) PROVE t[i] = b[i] OBVIOUS
  <2>. DEFINE m == Len(c)
  <2>2. m \in Nat /\ i \in 1..(m - p) - 1 BY <1>1, <1>3, <1>5
  <2>. HIDE DEF m
  <2>3. i + 1 \in 1..m - p /\ i \in 1..m - (p + 1) /\ p + (i + 1) = (p + 1) + i BY <2>2, SMT
  <2>4. t[i] = a[i + 1] BY <1>1, <1>5, <2>2 DEF m
  <2>5. a[i + 1] = c[p + (i + 1)] BY <1>1, <2>3 DEF m
  <2>6. b[i] = c[(p + 1) + i] BY <1>2, <2>3 DEF m
  <2>. QED BY <2>3, <2>4, <2>5, <2>6
<1>8. t = b BY <1>2, <1>5, <1>6, <1>7, SeqEqual
<1>. QED BY <1>4, <1>8 DEF t

LEMMA RestElements ==
  ASSUME NEW c \in Seq(Int), NEW p \in Nat, p <= Len(c), NEW a, a = SubSeq(c, p + 1, Len(c))
  PROVE  RestOf(c, p, a)
BY SMT DEF RestOf

LEMMA RestNext ==
  ASSUME NEW c \in Seq(Int), NEW p \in Nat, p + 1 <= Len(c),
         NEW a, a = SubSeq(c, p + 1, Len(c)), NEW b, b = SubSeq(c, (p + 1) + 1, Len(c))
  PROVE  a # <<>> /\ Head(a) = c[p + 1] /\ Tail(a) = b
<1>1. RestOf(c, p, a)
  <2>1. PICK l \in Nat : l = Len(c) OBVIOUS
  <2>2. p + 1 <= l BY <2>1
  <2>3. p <= l BY <2>2
  <2>. QED BY <2>1, <2>3, RestElements
<1>2. RestOf(c, p + 1, b)
  <2>1. p + 1 \in Nat /\ p + 1 <= Len(c) BY SMT
  <2>. QED BY <2>1, RestElements
<1>. QED BY <1>1, <1>2, TailShifts, Zenon

LEMMA TailIsRest ==
  ASSUME NEW c \in Seq(Int), 1 <= Len(c), NEW b, b = SubSeq(c, 1 + 1, Len(c))
  PROVE  Tail(c) = b /\ Head(c) = c[1]
<1>1. Len(c) \in Nat BY SMT
<1>2. SubSeq(c, 0 + 1, Len(c)) = c BY SMT
<1>3. 0 \in Nat /\ 0 + 1 <= Len(c) /\ 0 + 1 = 1 BY <1>1, SMT
<1>. QED BY <1>2, <1>3, RestNext

(* The rest of a group, as the reader has it.                              *)
GroupAt(s, g, p) ==
  /\ g = 0 => Rest(s, g, p) = <<>>
  /\ g # 0 => /\ s[g].codes \in Seq(Int) /\ Len(s[g].codes) \in Nat
              /\ p >= Len(s[g].codes) => Rest(s, g, p) = <<>>
              /\ p + 1 <= Len(s[g].codes) =>
                   /\ Rest(s, g, p) # <<>> /\ Head(Rest(s, g, p)) = s[g].codes[p + 1]
                   /\ Tail(Rest(s, g, p)) = Rest(s, g, p + 1)

LEMMA GroupLeft ==
  ASSUME NEW s \in Seq(FitGroups), NEW g \in 0..Len(s), NEW p \in 1..GroupSize PROVE GroupAt(s, g, p)
<1>0. p \in Nat BY LzwAssumption, SMT
<1>1. CASE g = 0 BY <1>1, Zenon DEF Rest, GroupAt
<1>2. CASE g # 0
  <2>. DEFINE c == s[g].codes
              a == SubSeq(c, p + 1, Len(c))
              b == SubSeq(c, (p + 1) + 1, Len(c))
  <2>1. c \in Seq(Int)
    <3>1. Len(s) \in Nat BY SMT
    <3>2. g \in 1..Len(s) BY <1>2, <3>1, SMT
    <3>3. s[g] \in FitGroups BY <3>2, SMT
    <3>. QED BY <3>3, SMT DEF FitGroups
  <2>2. Rest(s, g, p) = a /\ Rest(s, g, p + 1) = b BY <1>2, Zenon DEF Rest
  <2>. HIDE DEF c
  <2>3. Len(c) \in Nat BY <2>1, SMT
  <2>4. p >= Len(c) => a = <<>> BY <1>0, <2>1, RestEmpty
  <2>5. p + 1 <= Len(c) => a # <<>> /\ Head(a) = c[p + 1] /\ Tail(a) = b BY <1>0, <2>1, RestNext
  <2>. QED BY <1>2, <2>1, <2>2, <2>3, <2>4, <2>5, Zenon DEF GroupAt, c
<1>. QED BY <1>1, <1>2

(* what the reader is about to read *)
Reads(hist, n, k) ==
  /\ ChanAt(hist, n, k) /\ r.state \in {"start", "middle"} /\ r.stack = <<>>

LEMMA ReadsAt ==
  ASSUME FitInv, NEW hist, NEW n, NEW k, Reads(hist, n, k)
  PROVE  /\ n \in Nat /\ k \in 0..n /\ Trace(maxbits, hist, n) /\ sent \in Seq(FitGroups) /\ Len(sent) \in Nat
         /\ hist[k].group \in 0..Len(sent) /\ hist[k].place \in 1..GroupSize
         /\ r.group = Rest(sent, hist[k].group, hist[k].place) /\ r.next = hist[k].group + 1
         /\ hist[k].z = Core(r) /\ output = hist[k].text
         /\ GroupAt(sent, hist[k].group, hist[k].place)
         /\ hist[k].group # 0 => Len(sent[hist[k].group].codes) <= GroupSize
         /\ Change(hist[k].z) = (r.clear_flg \/ r.free_ent > r.maxcode)
<1>1. /\ n \in Nat /\ k \in 0..n /\ Trace(maxbits, hist, n) /\ ReaderAt(maxbits, hist, k, r, sent, output)
      /\ \A i \in 1..Len(sent) : Len(sent[i].codes) <= GroupSize
  BY Zenon DEF Reads, ChanAt, Stream
<1>2. sent \in Seq(FitGroups) /\ Len(sent) \in Nat
  <2>1. sent \in Seq(FitGroups) BY Zenon DEF FitInv, WriterFits
  <2>. QED BY <2>1, SMT
<1>3. /\ output \in Seq(Bytes) /\ r.stack = <<>> /\ output \o r.stack = hist[k].text
      /\ r.next = hist[k].group + 1 /\ hist[k].group <= Len(sent)
      /\ r.group = Rest(sent, hist[k].group, hist[k].place) /\ hist[k].z = Core(r)
  BY <1>1, Zenon DEF Reads, ReaderAt
<1>4. hist[k].group \in Nat /\ hist[k].place \in 1..GroupSize BY <1>1, Zenon DEF Trace
<1>5. hist[k].group \in 0..Len(sent) /\ (hist[k].group # 0 => hist[k].group \in 1..Len(sent))
  BY <1>2, <1>3, <1>4, SMT
<1>6. output = hist[k].text BY <1>3, SMT
<1>7. GroupAt(sent, hist[k].group, hist[k].place) BY <1>2, <1>4, <1>5, GroupLeft
<1>8. Change(Core(r)) = (r.clear_flg \/ r.free_ent > r.maxcode) BY SMT DEF Change, Core
<1>. QED BY <1>1, <1>2, <1>3, <1>4, <1>5, <1>6, <1>7, <1>8

(* After the last code there is nothing in the group, nor another group.   *)
LEMMA LastCode ==
  ASSUME FitInv, NEW hist, NEW n, NEW k, Reads(hist, n, k), k = n
  PROVE  NeedsGroup(r) /\ AtEnd(r)
<1>1. /\ n \in Nat /\ Trace(maxbits, hist, n) /\ Len(sent) \in Nat
      /\ hist[n].group \in 0..Len(sent) /\ hist[n].place \in 1..GroupSize
      /\ r.group = Rest(sent, hist[n].group, hist[n].place) /\ r.next = hist[n].group + 1
      /\ GroupAt(sent, hist[n].group, hist[n].place)
      /\ hist[n].group # 0 => Len(sent[hist[n].group].codes) <= GroupSize
      /\ Change(hist[n].z) = (r.clear_flg \/ r.free_ent > r.maxcode)
  BY ReadsAt
<1>2. WriterAt(maxbits, hist, n, w, sent, input) BY Zenon DEF Reads, ChanAt
<1>3. /\ hist[n].group = Len(sent)
      /\ Change(hist[n].z) \/ hist[n].place = GroupSize \/ hist[n].place = Len(sent[hist[n].group].codes)
  <2>1. CASE n = 0 /\ sent = <<>>
    <3>1. Len(<<>>) = 0 BY SMT
    <3>. QED BY <1>1, <2>1, <3>1, Zenon DEF Trace
  <2>2. CASE Open(hist, n, sent, w.group, w.n_bits)
    <3>1. hist[n].group # Len(sent) + 1 BY <1>1, SMT
    <3>. QED BY <2>2, <3>1, Zenon DEF Open
  <2>3. CASE Ended(hist, n, sent) BY <2>3, Zenon DEF Ended
  <2>. QED BY <1>2, <2>1, <2>2, <2>3, Zenon DEF WriterAt
<1>4. AtEnd(r) BY <1>1, <1>3, SMT DEF AtEnd
<1>5. CASE Change(hist[n].z) BY <1>1, <1>4, <1>5, Zenon DEF NeedsGroup
<1>6. CASE ~Change(hist[n].z)
  <2>1. CASE hist[n].group = 0 BY <1>1, <1>4, <2>1, Zenon DEF GroupAt, NeedsGroup
  <2>2. CASE hist[n].group # 0
    <3>1. Len(sent[hist[n].group].codes) \in Nat BY <1>1, <2>2, Zenon DEF GroupAt
    <3>2. hist[n].place >= Len(sent[hist[n].group].codes)
      BY <1>1, <1>3, <1>6, <2>2, <3>1, LzwAssumption, SMT
    <3>. QED BY <1>1, <1>4, <2>2, <3>2, Zenon DEF GroupAt, NeedsGroup
  <2>. QED BY <2>1, <2>2
<1>. QED BY <1>5, <1>6

(* The next code begins a group exactly if the reader turns to one.        *)
Turns(hist, k) ==
  /\ NeedsGroup(r) /\ ~AtEnd(r) /\ hist[k + 1].group = hist[k].group + 1 /\ hist[k + 1].place = 1
GoesOn(hist, k) ==
  /\ ~NeedsGroup(r) /\ ~Change(hist[k].z) /\ hist[k].group # 0
  /\ hist[k].place + 1 <= Len(sent[hist[k].group].codes)
  /\ hist[k + 1].group = hist[k].group /\ hist[k + 1].place = hist[k].place + 1

LEMMA NextCode ==
  ASSUME FitInv, NEW hist, NEW n, NEW k, Reads(hist, n, k), k # n, MayGet(r)
  PROVE  /\ k + 1 \in 1..n /\ Sent(hist, k + 1, sent)
         /\ Turns(hist, k) \/ GoesOn(hist, k)
<1>. DEFINE g == hist[k].group
            p == hist[k].place
            len == Len(sent[g].codes)
<1>1. /\ n \in Nat /\ k \in 0..n /\ Trace(maxbits, hist, n) /\ Len(sent) \in Nat
      /\ g \in 0..Len(sent) /\ p \in 1..GroupSize
      /\ r.group = Rest(sent, g, p) /\ r.next = g + 1 /\ GroupAt(sent, g, p)
      /\ g # 0 => len <= GroupSize
      /\ Change(hist[k].z) = (r.clear_flg \/ r.free_ent > r.maxcode)
  BY ReadsAt
<1>2. k + 1 \in 1..n /\ (k + 1) - 1 = k /\ GroupSize \in Nat /\ n # 0 BY <1>1, LzwAssumption, SMT
<1>3. Follows(maxbits, hist[k], hist[k + 1], k + 1)
  <2>1. Follows(maxbits, hist[(k + 1) - 1], hist[k + 1], k + 1) BY <1>1, <1>2, Zenon DEF Trace
  <2>. QED BY <1>2, <2>1
<1>4. IF Change(hist[k].z) \/ p = GroupSize
      THEN hist[k + 1].group = g + 1 /\ hist[k + 1].place = 1
      ELSE hist[k + 1].group = g /\ hist[k + 1].place = p + 1
  BY <1>3, Zenon DEF Follows
<1>5. hist[k + 1].group >= 1 BY <1>1, <1>2, GroupsStart
<1>6. hist[k + 1].group <= Len(sent) => Sent(hist, k + 1, sent)
  <2>1. SUFFICES ASSUME hist[k + 1].group <= Len(sent) PROVE Sent(hist, k + 1, sent) OBVIOUS
  <2>2. WriterAt(maxbits, hist, n, w, sent, input) BY Zenon DEF Reads, ChanAt
  <2>3. CASE Open(hist, n, sent, w.group, w.n_bits)
    <3>1. hist[k + 1].group # Len(sent) + 1 BY <1>1, <2>1, SMT
    <3>2. Sent(hist, k + 1, sent) \/ Waiting(hist, k + 1, sent, w.group, w.n_bits)
      BY <1>2, <2>3, Zenon DEF Open, Kept
    <3>. QED BY <3>1, <3>2, Zenon DEF Waiting
  <2>4. CASE Ended(hist, n, sent) BY <1>2, <2>4, Zenon DEF Ended
  <2>. QED BY <1>2, <2>2, <2>3, <2>4, Zenon DEF WriterAt
<1>7. Sent(hist, k + 1, sent) => (Turns(hist, k) \/ GoesOn(hist, k))
  <2>1. SUFFICES ASSUME Sent(hist, k + 1, sent) PROVE Turns(hist, k) \/ GoesOn(hist, k) OBVIOUS
  <2>2. hist[k + 1].group <= Len(sent) /\ hist[k + 1].place <= Len(sent[hist[k + 1].group].codes)
    BY <2>1, Zenon DEF Sent
  <2>3. CASE Change(hist[k].z) \/ p = GroupSize
    <3>1. hist[k + 1].group = g + 1 /\ hist[k + 1].place = 1 BY <1>4, <2>3
    <3>2. ~AtEnd(r) BY <1>1, <2>2, <3>1, SMT DEF AtEnd
    <3>3. p = GroupSize => r.group = <<>>
      <4>1. CASE g = 0 BY <1>1, <4>1, Zenon DEF GroupAt
      <4>2. CASE g # 0
        <5>1. p = GroupSize => p >= len BY <1>1, <4>2
        <5>. QED BY <1>1, <4>2, <5>1, Zenon DEF GroupAt
      <4>. QED BY <4>1, <4>2
    <3>4. NeedsGroup(r) BY <1>1, <2>3, <3>3, Zenon DEF NeedsGroup
    <3>. QED BY <3>1, <3>2, <3>4, Zenon DEF Turns
  <2>4. CASE ~(Change(hist[k].z) \/ p = GroupSize)
    <3>1. hist[k + 1].group = g /\ hist[k + 1].place = p + 1 BY <1>4, <2>4
    <3>2. g # 0 BY <1>5, <3>1, SMT
    <3>3. p + 1 <= len BY <2>2, <3>1
    <3>4. r.group # <<>> BY <1>1, <3>2, <3>3, Zenon DEF GroupAt
    <3>5. ~NeedsGroup(r) BY <1>1, <2>4, <3>4, Zenon DEF NeedsGroup
    <3>. QED BY <2>4, <3>1, <3>2, <3>3, <3>5, Zenon DEF GoesOn
  <2>. QED BY <2>3, <2>4
<1>8. Sent(hist, k + 1, sent)
  <2>1. CASE w.state \in {"closed", "killed"}
    <3>1. WriterAt(maxbits, hist, n, w, sent, input) BY Zenon DEF Reads, ChanAt
    <3>2. w.state # "start" /\ w.state # "middle" BY <2>1, SMT
    <3>3. Ended(hist, n, sent) BY <3>1, <3>2, Zenon DEF WriterAt
    <3>. QED BY <1>2, <3>3, Zenon DEF Ended
  <2>2. CASE w.state \notin {"closed", "killed"}
    <3>1. ~NeedsGroup(r) \/ ~AtEnd(r) BY <2>2, Zenon DEF MayGet
    <3>2. CASE ~AtEnd(r)
      <4>1. g + 1 <= Len(sent) BY <1>1, <3>2, SMT DEF AtEnd
      <4>2. hist[k + 1].group \in {g, g + 1} BY <1>4, Zenon
      <4>3. hist[k + 1].group <= Len(sent) BY <1>1, <4>1, <4>2, SMT
      <4>. QED BY <1>6, <4>3
    <3>3. CASE ~NeedsGroup(r)
      <4>1. r.group # <<>> /\ ~Change(hist[k].z) BY <1>1, <3>3, Zenon DEF NeedsGroup
      <4>2. g # 0 /\ ~(p >= len) BY <1>1, <4>1, Zenon DEF GroupAt
      <4>3. len \in Nat /\ len <= GroupSize BY <1>1, <4>2, Zenon DEF GroupAt
      <4>. HIDE DEF p, len
      <4>4. p # GroupSize BY <1>2, <4>2, <4>3, SMT
      <4>5. hist[k + 1].group = g BY <1>4, <4>1, <4>4, Zenon
      <4>6. hist[k + 1].group <= Len(sent) BY <1>1, <4>5, SMT
      <4>. QED BY <1>6, <4>6
    <3>. QED BY <3>1, <3>2, <3>3
  <2>. QED BY <2>1, <2>2
<1>. QED BY <1>2, <1>7, <1>8
-----------------------------------------------------------------------------
(* Turning to the next group adjusts the width as the writer did.          *)
SameRest(z, y) ==
  /\ IsReader(y) /\ y.state = z.state /\ y.free_ent = z.free_ent /\ y.prefix = z.prefix
  /\ y.suffix = z.suffix /\ y.oldcode = z.oldcode /\ y.incode = z.incode /\ y.finchar = z.finchar
  /\ y.stack = z.stack
Adjusted(z, y) ==
  /\ SameRest(z, y) /\ y.n_bits = Bits(z) /\ y.maxcode = Greatest(maxbits, z) /\ y.clear_flg = FALSE
  /\ y.group = z.group /\ y.next = z.next

LEMMA AdjustFields ==
  ASSUME NEW z, ReaderFits(z) PROVE Adjusted(z, Adjust(z))
<1>. DEFINE bits == z.n_bits + 1
            max == IF bits = maxbits THEN maxmaxcode ELSE MAXCODE(bits)
            wide == [z EXCEPT !.n_bits = bits, !.maxcode = max]
            z1 == IF z.free_ent > z.maxcode THEN wide ELSE z
            least == MAXCODE(INIT_BITS)
            narrow == [z1 EXCEPT !.n_bits = INIT_BITS, !.maxcode = least, !.clear_flg = FALSE]
<1>1. Adjust(z) = IF z.clear_flg THEN narrow ELSE z1 BY Zenon DEF Adjust, Widen, Narrow
<1>2. IsReader(z) /\ DOMAIN z = ReaderFields /\ z.clear_flg \in BOOLEAN
  BY Fields, Zenon DEF ReaderFits, WidthInv
<1>3. max = IF z.n_bits + 1 = maxbits THEN 2^maxbits ELSE MAXCODE(z.n_bits + 1)
  BY Zenon DEF maxmaxcode
<1>. HIDE DEF bits, max, least
<1>4. SameRest(z, z1) /\ z1.clear_flg = z.clear_flg /\ z1.group = z.group /\ z1.next = z.next
      /\ z1.n_bits = (IF z.free_ent > z.maxcode THEN bits ELSE z.n_bits)
      /\ z1.maxcode = (IF z.free_ent > z.maxcode THEN max ELSE z.maxcode)
  <2>1. CASE z.free_ent > z.maxcode
    <3>1. /\ wide.state = z.state /\ wide.free_ent = z.free_ent /\ wide.prefix = z.prefix
          /\ wide.suffix = z.suffix /\ wide.oldcode = z.oldcode /\ wide.incode = z.incode
          /\ wide.finchar = z.finchar /\ wide.stack = z.stack /\ wide.clear_flg = z.clear_flg
          /\ wide.group = z.group /\ wide.next = z.next /\ wide.n_bits = bits /\ wide.maxcode = max
      BY <1>2, SMT DEF ReaderFields
    <3>2. DOMAIN wide = DOMAIN z /\ wide = [f \in DOMAIN wide |-> wide[f]] BY Zenon
    <3>. HIDE DEF wide
    <3>3. IsReader(wide) BY <1>2, <3>2, Fields, Zenon
    <3>. QED BY <2>1, <3>1, <3>3, Zenon DEF SameRest
  <2>2. CASE ~(z.free_ent > z.maxcode) BY <1>2, <2>2, Zenon DEF SameRest
  <2>. QED BY <2>1, <2>2
<1>. HIDE DEF z1
<1>5. CASE ~z.clear_flg
  <2>1. Adjust(z) = z1 BY <1>1, <1>5
  <2>. QED BY <1>2, <1>3, <1>4, <1>5, <2>1, Zenon DEF Adjusted, Bits, Greatest, bits
<1>6. CASE z.clear_flg
  <2>1. Adjust(z) = narrow BY <1>1, <1>6
  <2>2. DOMAIN z1 = ReaderFields BY <1>4, Fields, Zenon DEF SameRest
  <2>3. /\ narrow.state = z1.state /\ narrow.free_ent = z1.free_ent /\ narrow.prefix = z1.prefix
        /\ narrow.suffix = z1.suffix /\ narrow.oldcode = z1.oldcode /\ narrow.incode = z1.incode
        /\ narrow.finchar = z1.finchar /\ narrow.stack = z1.stack /\ narrow.clear_flg = FALSE
        /\ narrow.group = z1.group /\ narrow.next = z1.next /\ narrow.n_bits = INIT_BITS
        /\ narrow.maxcode = least
    BY <2>2, SMT DEF ReaderFields
  <2>4. DOMAIN narrow = DOMAIN z1 /\ narrow = [f \in DOMAIN narrow |-> narrow[f]] BY Zenon
  <2>. HIDE DEF narrow
  <2>5. IsReader(narrow) BY <1>4, <2>4, Fields, Zenon DEF SameRest
  <2>. QED BY <1>4, <1>6, <2>1, <2>3, <2>5, Zenon DEF Adjusted, SameRest, Bits, Greatest, least
<1>. QED BY <1>5, <1>6

LEMMA CoreBits == \A z : Bits(Core(z)) = Bits(z) /\ Greatest(maxbits, Core(z)) = Greatest(maxbits, z)
<1>. SUFFICES ASSUME NEW z, NEW y, y = Core(z)
     PROVE  Bits(y) = Bits(z) /\ Greatest(maxbits, y) = Greatest(maxbits, z)
  OBVIOUS
<1>1. /\ y.n_bits = z.n_bits /\ y.maxcode = z.maxcode /\ y.free_ent = z.free_ent
      /\ y.clear_flg = z.clear_flg
  BY SMT DEF Core
<1>. QED BY <1>1, Zenon DEF Bits, Greatest

(* what getcode() leaves of the reader *)
Took(hist, k, y) ==
  /\ SameRest(r, y) /\ y.n_bits = Bits(hist[k].z) /\ y.maxcode = Greatest(maxbits, hist[k].z)
  /\ y.clear_flg = FALSE /\ y.next = hist[k + 1].group + 1
  /\ y.group = Rest(sent, hist[k + 1].group, hist[k + 1].place)

LEMMA TurnGets ==
  ASSUME FitInv, NEW hist, NEW n, NEW k, Reads(hist, n, k), k + 1 \in 1..n, Sent(hist, k + 1, sent),
         Turns(hist, k)
  PROVE  GetCode(r).code = hist[k + 1].code /\ Took(hist, k, GetCode(r).z)
<1>. DEFINE g == hist[k].group
            z1 == Adjust(r)
            group == sent[r.next]
            tail == Tail(group.codes)
            next == z1.next + 1
            y == [z1 EXCEPT !.group = tail, !.next = next]
            c == Head(group.codes)
<1>1. /\ n \in Nat /\ k \in 0..n /\ g \in 0..Len(sent) /\ r.next = g + 1 /\ hist[k].z = Core(r)
      /\ sent \in Seq(FitGroups) /\ Len(sent) \in Nat
  BY ReadsAt
<1>2. ReaderFits(r) BY Zenon DEF FitInv
<1>3. Adjusted(r, z1) BY <1>2, AdjustFields
<1>4. NeedsGroup(r) /\ ~AtEnd(r) /\ hist[k + 1].group = g + 1 /\ hist[k + 1].place = 1
  BY Zenon DEF Turns
<1>5. g + 1 \in 1..Len(sent) /\ g + 1 # 0 /\ (k + 1) - 1 = k BY <1>1, <1>4, SMT DEF AtEnd
<1>6. /\ 1 <= Len(sent[g + 1].codes) /\ sent[g + 1].codes[1] = hist[k + 1].code
      /\ sent[g + 1].width = Bits(hist[k].z)
  <2>1. /\ hist[k + 1].place <= Len(sent[hist[k + 1].group].codes)
        /\ sent[hist[k + 1].group].codes[hist[k + 1].place] = hist[k + 1].code
        /\ sent[hist[k + 1].group].width = Bits(hist[(k + 1) - 1].z)
    BY Zenon DEF Sent
  <2>. QED BY <1>4, <1>5, <2>1
<1>7. z1.n_bits = Bits(hist[k].z) /\ z1.maxcode = Greatest(maxbits, hist[k].z)
  BY <1>1, <1>3, CoreBits, Zenon DEF Adjusted
<1>8. GetCode(r) = [z |-> y, code |-> c]
  <2>1. sent[r.next].width = z1.n_bits BY <1>1, <1>6, <1>7
  <2>2. y = [z1 EXCEPT !.group = Tail(sent[r.next].codes), !.next = @ + 1] OBVIOUS
  <2>. QED BY <1>4, <2>1, <2>2, Zenon DEF GetCode
<1>9. group.codes \in Seq(Int)
  <2>1. sent[g + 1] \in FitGroups BY <1>1, <1>5, SMT
  <2>. QED BY <1>1, <2>1, SMT DEF FitGroups
<1>10. c = hist[k + 1].code /\ tail = Rest(sent, g + 1, 1)
  <2>1. Rest(sent, g + 1, 1) = SubSeq(sent[g + 1].codes, 1 + 1, Len(sent[g + 1].codes))
    BY <1>5, Zenon DEF Rest
  <2>2. tail = SubSeq(group.codes, 1 + 1, Len(group.codes)) /\ c = group.codes[1]
    <3>. HIDE DEF group
    <3>1. 1 <= Len(group.codes) BY <1>1, <1>6 DEF group
    <3>. QED BY <1>9, <3>1, TailIsRest
  <2>. QED BY <1>1, <1>6, <2>1, <2>2
<1>11. next = hist[k + 1].group + 1 BY <1>1, <1>3, <1>4, Zenon DEF Adjusted
<1>. HIDE DEF z1, tail, next, c
<1>12. DOMAIN z1 = ReaderFields BY <1>3, Fields, Zenon DEF Adjusted, SameRest
<1>13. /\ y.state = z1.state /\ y.free_ent = z1.free_ent /\ y.prefix = z1.prefix
       /\ y.suffix = z1.suffix /\ y.oldcode = z1.oldcode /\ y.incode = z1.incode
       /\ y.finchar = z1.finchar /\ y.stack = z1.stack /\ y.clear_flg = z1.clear_flg
       /\ y.n_bits = z1.n_bits /\ y.maxcode = z1.maxcode /\ y.group = tail /\ y.next = next
  BY <1>12, SMT DEF ReaderFields
<1>14. DOMAIN y = DOMAIN z1 /\ y = [f \in DOMAIN y |-> y[f]] BY Zenon
<1>. HIDE DEF y
<1>15. IsReader(y) BY <1>3, <1>14, Fields, Zenon DEF Adjusted, SameRest
<1>16. GetCode(r).z = y /\ GetCode(r).code = c BY <1>8, SMT
<1>17. Took(hist, k, y)
  BY <1>3, <1>4, <1>7, <1>10, <1>11, <1>13, <1>15, Zenon DEF Adjusted, SameRest, Took
<1>. QED BY <1>10, <1>16, <1>17

LEMMA GoOnGets ==
  ASSUME FitInv, NEW hist, NEW n, NEW k, Reads(hist, n, k), k + 1 \in 1..n, Sent(hist, k + 1, sent),
         GoesOn(hist, k)
  PROVE  GetCode(r).code = hist[k + 1].code /\ Took(hist, k, GetCode(r).z)
<1>. DEFINE g == hist[k].group
            p == hist[k].place
            tail == Tail(r.group)
            y == [r EXCEPT !.group = tail]
            c == Head(r.group)
<1>1. /\ n \in Nat /\ k \in 0..n /\ r.group = Rest(sent, g, p) /\ r.next = g + 1 /\ hist[k].z = Core(r)
      /\ GroupAt(sent, g, p) /\ Change(hist[k].z) = (r.clear_flg \/ r.free_ent > r.maxcode)
  BY ReadsAt
<1>2. IsReader(r) /\ DOMAIN r = ReaderFields /\ r.clear_flg \in BOOLEAN
  BY Fields, Zenon DEF FitInv, ReaderFits, WidthInv
<1>3. /\ ~NeedsGroup(r) /\ ~Change(hist[k].z) /\ g # 0 /\ p + 1 <= Len(sent[g].codes)
      /\ hist[k + 1].group = g /\ hist[k + 1].place = p + 1
  BY Zenon DEF GoesOn
<1>4. GetCode(r) = [z |-> y, code |-> c]
  <2>1. y = [r EXCEPT !.group = Tail(@)] OBVIOUS
  <2>. QED BY <1>3, <2>1, Zenon DEF GetCode
<1>5. c = hist[k + 1].code /\ tail = Rest(sent, g, p + 1)
  <2>1. sent[g].codes[p + 1] = hist[k + 1].code BY <1>3, Zenon DEF Sent
  <2>. QED BY <1>1, <1>3, <2>1, Zenon DEF GroupAt
<1>6. r.n_bits = Bits(hist[k].z) /\ r.maxcode = Greatest(maxbits, hist[k].z) /\ r.clear_flg = FALSE
  BY <1>1, <1>2, <1>3, CoreBits, Zenon DEF Bits, Greatest
<1>. HIDE DEF tail, c
<1>7. /\ y.state = r.state /\ y.free_ent = r.free_ent /\ y.prefix = r.prefix
      /\ y.suffix = r.suffix /\ y.oldcode = r.oldcode /\ y.incode = r.incode
      /\ y.finchar = r.finchar /\ y.stack = r.stack /\ y.clear_flg = r.clear_flg
      /\ y.n_bits = r.n_bits /\ y.maxcode = r.maxcode /\ y.group = tail /\ y.next = r.next
  BY <1>2, SMT DEF ReaderFields
<1>8. DOMAIN y = DOMAIN r /\ y = [f \in DOMAIN y |-> y[f]] BY Zenon
<1>. HIDE DEF y
<1>9. IsReader(y) BY <1>2, <1>8, Fields, Zenon
<1>10. GetCode(r).z = y /\ GetCode(r).code = c BY <1>4, SMT
<1>11. Took(hist, k, y)
  BY <1>1, <1>3, <1>5, <1>6, <1>7, <1>9, Zenon DEF SameRest, Took
<1>. QED BY <1>5, <1>10, <1>11

(* What getcode() gives: the next code, or EOF after the last.             *)
LEMMA Gets ==
  ASSUME FitInv, NEW hist, NEW n, NEW k, Reads(hist, n, k), MayGet(r), k # n
  PROVE  /\ k + 1 \in 1..n /\ Sent(hist, k + 1, sent)
         /\ GetCode(r).code = hist[k + 1].code /\ Took(hist, k, GetCode(r).z)
<1>1. /\ k + 1 \in 1..n /\ Sent(hist, k + 1, sent)
      /\ Turns(hist, k) \/ GoesOn(hist, k)
  BY NextCode
<1>. QED BY <1>1, TurnGets, GoOnGets

LEMMA GetsEnd ==
  ASSUME FitInv, NEW hist, NEW n, NEW k, Reads(hist, n, k), MayGet(r), k = n
  PROVE  /\ GetCode(r).code = EOF /\ GetCode(r).z = Adjust(r)
         /\ w.state \in {"closed", "killed"}
<1>1. NeedsGroup(r) /\ AtEnd(r) BY LastCode
<1>2. w.state \in {"closed", "killed"} BY <1>1, Zenon DEF MayGet
<1>3. GetCode(r) = [z |-> Adjust(r), code |-> EOF] BY <1>1, Zenon DEF GetCode
<1>4. GetCode(r).code = EOF /\ GetCode(r).z = Adjust(r)
  <2>. DEFINE a == Adjust(r)
  <2>. HIDE DEF a
  <2>. QED BY <1>3, SMT DEF a
<1>. QED BY <1>2, <1>4
-----------------------------------------------------------------------------
(* The reader's steps, and what they give back.                            *)
Gives == /\ r.state \notin {"eof", "error"} /\ r'.state \notin {"eof", "error"}
         /\ Len(output) < Len(input) /\ output' = Append(output, input[Len(output) + 1])
Stops == /\ r.state \notin {"eof", "error"} /\ r'.state \in {"eof", "error"} /\ output' = output
         /\ w.state = "killed" \/ (w.state = "closed" /\ output = input)
Prepares == /\ output' = output /\ (r.state \in {"eof", "error"} <=> r'.state \in {"eof", "error"})

LEMMA ReaderMoves ==
  ASSUME NEW hist, NEW n, NEW k, ChanAt(hist, n, k), NEW k2 \in 0..n,
         maxbits' = maxbits, w' = w, sent' = sent, input' = input,
         ReaderAt(maxbits, hist, k2, r', sent, output')
  PROVE  ChanInv'
<1>1. ChanAt(hist, n, k2)' BY Zenon DEF ChanAt
<1>. QED BY <1>1, Zenon DEF ChanInv

(* Of the code's kind, and what it stands for.                             *)
LEMMA CodeAt ==
  ASSUME NEW hist, NEW n \in Nat, NEW k \in 0..n, Trace(maxbits, hist, n), k + 1 \in 1..n
  PROVE  /\ hist[k + 1].code \in Codes /\ (k = 0 => hist[k + 1].code \in Bytes)
         /\ hist[k + 1].z = Then(maxbits, hist[k].z, hist[k + 1].code, k + 1)
         /\ hist[k + 1].text = hist[k].text \o Shown(hist[k].z, hist[k + 1].code, k + 1)
         /\ hist[k + 1].code # EOF /\ hist[k + 1].code # JUNK /\ k + 1 \in 0..n /\ k \in Nat
         /\ Sound(maxbits, hist[k].z) /\ hist[k].text \in Seq(Bytes) /\ hist[k + 1].text \in Seq(Bytes)
<1>1. (k + 1) - 1 = k /\ k + 1 \in 0..n /\ k \in Nat /\ (k = 0 => k + 1 = 1) BY SMT
<1>2. Follows(maxbits, hist[(k + 1) - 1], hist[k + 1], k + 1) BY Zenon DEF Trace
<1>3. Follows(maxbits, hist[k], hist[k + 1], k + 1) BY <1>1, <1>2
<1>4. /\ hist[k + 1].code \in Codes /\ (k + 1 = 1 => hist[k + 1].code \in Bytes)
      /\ hist[k + 1].z = Then(maxbits, hist[k].z, hist[k + 1].code, k + 1)
      /\ hist[k + 1].text = hist[k].text \o Shown(hist[k].z, hist[k + 1].code, k + 1)
  BY <1>3, Zenon DEF Follows
<1>5. \A c \in Codes : c # EOF /\ c # JUNK
  <2>1. 2^BITS \in Nat BY CodesFacts
  <2>. QED BY <2>1, SMT DEF Codes, EOF, JUNK
<1>6. Sound(maxbits, hist[k].z) /\ hist[k].text \in Seq(Bytes) /\ hist[k + 1].text \in Seq(Bytes)
  BY <1>1, Zenon DEF Trace
<1>. QED BY <1>1, <1>4, <1>5, <1>6

LEMMA ReadHeaderFailsKeeps == ASSUME FitInv, ChanInv, ReadHeaderFails PROVE ChanInv' /\ Stops
<1>1. PICK hist, n, k : ChanAt(hist, n, k) BY Zenon DEF ChanInv
<1>2. /\ r.state = "start" /\ w.state = "closed" /\ input = <<>> /\ r' = [r EXCEPT !.state = "error"]
      /\ maxbits' = maxbits /\ w' = w /\ sent' = sent /\ output' = output /\ input' = input
  BY Zenon DEF ReadHeaderFails
<1>3. DOMAIN r = ReaderFields BY Fields, Zenon DEF FitInv, ReaderFits
<1>4. r'.state = "error" /\ r'.stack = r.stack BY <1>2, <1>3, SMT DEF ReaderFields
<1>5. /\ ReaderAt(maxbits, hist, k, r, sent, output) /\ k \in 0..n /\ n \in Nat
      /\ Trace(maxbits, hist, n)
  BY <1>1, Zenon DEF ChanAt, Stream
<1>6. k = 0 /\ r.stack = <<>> /\ output \o r.stack = hist[k].text /\ output \in Seq(Bytes)
  BY <1>2, <1>5, Zenon DEF ReaderAt
<1>7. output = input
  <2>1. output = hist[k].text BY <1>6, SMT
  <2>. QED BY <1>2, <1>5, <1>6, <2>1, Zenon DEF Trace
<1>8. ReaderAt(maxbits, hist, k, r', sent, output') BY <1>2, <1>4, <1>6, SMT DEF ReaderAt
<1>9. ChanInv' BY <1>1, <1>2, <1>5, <1>8, ReaderMoves
<1>10. Stops BY <1>2, <1>4, <1>7, SMT DEF Stops
<1>. QED BY <1>9, <1>10

(* The end of the stream: there was no more, and no more to give back.     *)
LEMMA EndReached ==
  ASSUME FitInv, NEW hist, NEW n, NEW k, Reads(hist, n, k), MayGet(r), k = n,
         r' = [GetCode(r).z EXCEPT !.state = "eof"], output' = output,
         maxbits' = maxbits, w' = w, sent' = sent, input' = input
  PROVE  ChanInv' /\ Stops
<1>1. GetCode(r).z = Adjust(r) /\ w.state \in {"closed", "killed"} BY GetsEnd
<1>2. ReaderFits(r) BY Zenon DEF FitInv
<1>3. SameRest(r, Adjust(r)) BY <1>2, AdjustFields, Zenon DEF Adjusted
<1>. DEFINE z == Adjust(r)
<1>. HIDE DEF z
<1>4. DOMAIN z = ReaderFields /\ z.stack = r.stack BY <1>3, Fields, Zenon DEF SameRest, z
<1>5. r' = [z EXCEPT !.state = "eof"] BY <1>1 DEF z
<1>6. r'.state = "eof" /\ r'.stack = r.stack BY <1>4, <1>5, SMT DEF ReaderFields
<1>7. /\ ChanAt(hist, n, k) /\ r.state \in {"start", "middle"} /\ r.stack = <<>> BY Zenon DEF Reads
<1>8. output = hist[n].text BY ReadsAt
<1>9. /\ ReaderAt(maxbits, hist, k, r, sent, output) /\ k \in 0..n
      /\ WriterAt(maxbits, hist, n, w, sent, input)
  BY <1>7, Zenon DEF ChanAt
<1>10. ReaderAt(maxbits, hist, k, r', sent, output') BY <1>6, <1>7, <1>9, SMT DEF ReaderAt
<1>11. ChanInv' BY <1>7, <1>9, <1>10, ReaderMoves
<1>12. w.state = "closed" => output = input
  <2>1. SUFFICES ASSUME w.state = "closed" PROVE output = input OBVIOUS
  <2>2. w.state # "start" /\ w.state # "middle" /\ w.state # "killed" BY <2>1, SMT
  <2>. QED BY <1>8, <1>9, <2>2, Zenon DEF WriterAt
<1>13. r.state \notin {"eof", "error"} /\ r'.state \in {"eof", "error"} BY <1>6, <1>7, SMT
<1>14. Stops BY <1>1, <1>12, <1>13, Zenon DEF Stops
<1>. QED BY <1>11, <1>14

LEMMA ReadingAt ==
  ASSUME FitInv, ChanInv, r.state \in {"start", "middle"}, r.stack = <<>>
  PROVE  \E hist, n, k : Reads(hist, n, k)
BY Zenon DEF ChanInv, Reads

LEMMA ReadEndKeeps == ASSUME FitInv, ChanInv, ReadEnd PROVE ChanInv' /\ Stops
<1>1. /\ r.state = "middle" /\ r.stack = <<>> /\ MayGet(r) /\ GetCode(r).code \in {EOF, JUNK}
      /\ r' = [GetCode(r).z EXCEPT !.state = "eof"]
      /\ output' = IF GetCode(r).code = JUNK THEN Append(output, JUNK) ELSE output
      /\ maxbits' = maxbits /\ w' = w /\ sent' = sent /\ input' = input
  BY Zenon DEF ReadEnd, Reading
<1>2. PICK hist, n, k : Reads(hist, n, k) BY <1>1, ReadingAt
<1>3. n \in Nat /\ k \in 0..n /\ Trace(maxbits, hist, n) BY <1>2, ReadsAt
<1>4. k = n
  <2>1. SUFFICES ASSUME k # n PROVE FALSE OBVIOUS
  <2>2. k + 1 \in 1..n /\ GetCode(r).code = hist[k + 1].code BY <1>1, <1>2, <2>1, Gets
  <2>3. hist[k + 1].code # EOF /\ hist[k + 1].code # JUNK BY <1>3, <2>2, CodeAt
  <2>. QED BY <1>1, <2>2, <2>3
<1>5. GetCode(r).code = EOF BY <1>1, <1>2, <1>4, GetsEnd
<1>6. EOF # JUNK BY SMT DEF EOF, JUNK
<1>7. output' = output BY <1>1, <1>5, <1>6
<1>. QED BY <1>1, <1>2, <1>4, <1>7, EndReached

-----------------------------------------------------------------------------
(* A byte that is given back is the one that is next in the data.          *)
LEMMA NextByte ==
  ASSUME NEW out \in Seq(Bytes), NEW rest \in NonEmpty, NEW t, t = out \o rest,
         NEW data \in Seq(Bytes), Prefix(t, data)
  PROVE  Len(out) < Len(data) /\ data[Len(out) + 1] = Head(rest)
<1>1. rest \in Seq(Bytes) /\ Len(rest) \in Nat /\ Len(rest) >= 1 /\ Len(out) \in Nat /\ Len(data) \in Nat
      /\ Head(rest) = rest[1]
  BY SMT DEF NonEmpty
<1>2. Len(t) = Len(out) + Len(rest) /\ t[Len(out) + 1] = rest[1] BY <1>1, SMT
<1>3. Len(t) <= Len(data) /\ \A i \in 1..Len(t) : t[i] = data[i] BY Zenon DEF Prefix
<1>4. Len(out) + 1 \in 1..Len(t) BY <1>1, <1>2, SMT
<1>5. Len(out) < Len(data) BY <1>1, <1>2, <1>3, SMT
<1>. QED BY <1>1, <1>2, <1>3, <1>4, <1>5

(* The first code: it has no entry to make, and its width cannot change.   *)
LEMMA StartStill ==
  ASSUME maxbits \in 1..BITS, NEW z, z = Start, Sound(maxbits, z)
  PROVE  /\ Bits(z) = z.n_bits /\ Greatest(maxbits, z) = z.maxcode /\ z.clear_flg = FALSE
<1>1. z.free_ent = FIRST /\ z.clear_flg = FALSE
  <2>. HIDE DEF MAXCODE, FIRST, Codes
  <2>. QED BY SMT DEF Start
<1>2. z.maxcode \in Int /\ FIRST <= z.maxcode
  <2>1. Width(maxbits, z) BY Zenon DEF Sound
  <2>. QED BY <2>1, FirstBelow
<1>3. FIRST \in Nat BY FirstFits
<1>4. ~(z.free_ent > z.maxcode) BY <1>1, <1>2, <1>3, SMT
<1>. QED BY <1>1, <1>4, Zenon DEF Bits, Greatest

LEMMA CoreFields == \A z : LET y == Core(z) IN
  /\ y.n_bits = z.n_bits /\ y.maxcode = z.maxcode /\ y.free_ent = z.free_ent /\ y.clear_flg = z.clear_flg
  /\ y.prefix = z.prefix /\ y.suffix = z.suffix /\ y.oldcode = z.oldcode /\ y.finchar = z.finchar
BY SMT DEF Core

LEMMA ReadFirstKeeps == ASSUME FitInv, ChanInv, ReadFirst PROVE ChanInv' /\ (Gives \/ Stops)
<1>. DEFINE g == GetCode(r)
            z == g.z
            c == g.code
<1>1. /\ r.state = "start" /\ MayGet(r)
      /\ maxbits' = maxbits /\ w' = w /\ sent' = sent /\ input' = input
      /\ c = EOF => r' = [z EXCEPT !.state = "eof"] /\ output' = output
      /\ c # EOF => /\ r' = [z EXCEPT !.state = "middle", !.oldcode = c, !.finchar = c]
                    /\ output' = <<c>>
  BY Zenon DEF ReadFirst
<1>. HIDE DEF g
<1>2. PICK hist, n, k : ChanAt(hist, n, k) BY Zenon DEF ChanInv
<1>3. k = 0 /\ r.stack = <<>> BY <1>1, <1>2, Zenon DEF ChanAt, ReaderAt
<1>4. Reads(hist, n, k) BY <1>1, <1>2, <1>3, Zenon DEF Reads
<1>5. /\ n \in Nat /\ k \in 0..n /\ Trace(maxbits, hist, n) /\ hist[k].z = Core(r)
      /\ output = hist[k].text /\ sent \in Seq(FitGroups)
  BY <1>4, ReadsAt
<1>6. CASE k = n
  <2>1. c = EOF BY <1>1, <1>4, <1>6, GetsEnd DEF g
  <2>. QED BY <1>1, <1>4, <1>6, <2>1, EndReached DEF g
<1>7. CASE k # n
  <2>1. k + 1 \in 1..n /\ Sent(hist, k + 1, sent) /\ c = hist[k + 1].code /\ Took(hist, k, z)
    BY <1>1, <1>4, <1>7, Gets DEF g
  <2>. HIDE DEF z, c
  <2>2. /\ c \in Bytes /\ c # EOF /\ k + 1 \in 0..n /\ Sound(maxbits, hist[k].z)
        /\ hist[k + 1].z = Then(maxbits, hist[k].z, c, k + 1)
        /\ hist[k + 1].text = hist[k].text \o Shown(hist[k].z, c, k + 1)
    BY <1>3, <1>5, <2>1, CodeAt
  <2>3. r' = [z EXCEPT !.state = "middle", !.oldcode = c, !.finchar = c] /\ output' = <<c>>
    BY <1>1, <2>2
  <2>4. k + 1 = 1 BY <1>3, SMT
  <2>5. hist[k + 1].z = Started(hist[k].z, c) /\ hist[k + 1].text = hist[k].text \o <<c>>
    BY <2>2, <2>4, Zenon DEF Then, Shown
  <2>6. DOMAIN z = ReaderFields BY <2>1, Fields, Zenon DEF Took, SameRest
  <2>7. /\ r'.state = "middle" /\ r'.oldcode = c /\ r'.finchar = c /\ r'.n_bits = z.n_bits
        /\ r'.maxcode = z.maxcode /\ r'.free_ent = z.free_ent /\ r'.clear_flg = z.clear_flg
        /\ r'.prefix = z.prefix /\ r'.suffix = z.suffix /\ r'.stack = z.stack
        /\ r'.next = z.next /\ r'.group = z.group
    BY <2>3, <2>6, SMT DEF ReaderFields
  <2>8. /\ z.n_bits = Bits(hist[k].z) /\ z.maxcode = Greatest(maxbits, hist[k].z) /\ z.clear_flg = FALSE
        /\ z.free_ent = r.free_ent /\ z.prefix = r.prefix /\ z.suffix = r.suffix /\ z.stack = r.stack
        /\ z.next = hist[k + 1].group + 1
        /\ z.group = Rest(sent, hist[k + 1].group, hist[k + 1].place)
    BY <2>1, Zenon DEF Took, SameRest
  <2>9. hist[k].z = Start /\ hist[k].text = <<>> BY <1>3, <1>5, Zenon DEF Trace
  <2>10. /\ Bits(hist[k].z) = hist[k].z.n_bits /\ Greatest(maxbits, hist[k].z) = hist[k].z.maxcode
         /\ hist[k].z.clear_flg = FALSE
    <3>1. maxbits \in 1..BITS BY Zenon DEF FitInv
    <3>. QED BY <2>2, <2>9, <3>1, StartStill
  <2>11. /\ hist[k].z.free_ent = r.free_ent /\ hist[k].z.prefix = r.prefix
         /\ hist[k].z.suffix = r.suffix
    BY <1>5, CoreFields
  <2>12. Core(r') = hist[k + 1].z
    BY <2>5, <2>7, <2>8, <2>10, <2>11, Zenon DEF Core, Started
  <2>13. output' \in Seq(Bytes) /\ <<>> \o <<c>> = <<c>> /\ output' \o <<>> = output' /\ <<>> \in Seq(Bytes)
    BY <2>2, <2>3, SMT
  <2>14. hist[k + 1].group <= Len(sent) BY <2>1, Zenon DEF Sent
  <2>15. k + 1 # 0 /\ r'.state # "start" /\ r'.state \notin {"eof", "error"} /\ r'.state \in {"start", "middle"}
         /\ r'.state \in {"start", "middle", "eof", "error"}
    BY <1>5, <2>7, SMT
  <2>16. ReaderAt(maxbits, hist, k + 1, r', sent, output')
    <3>1. output' \o <<>> = hist[k + 1].text BY <2>3, <2>5, <2>9, <2>13
    <3>2. r'.stack = <<>> BY <1>3, <2>7, <2>8
    <3>. QED BY <2>7, <2>8, <2>12, <2>13, <2>14, <2>15, <3>1, <3>2, Zenon DEF ReaderAt
  <2>17. ChanInv' BY <1>1, <1>2, <2>2, <2>16, ReaderMoves
  <2>18. Gives
    <3>1. input \in Seq(Bytes) /\ Prefix(hist[k + 1].text, input)
      BY <1>2, <2>2, Zenon DEF ChanAt, Stream
    <3>2. <<c>> \in NonEmpty /\ Head(<<c>>) = c BY <2>2, ByteNonEmpty
    <3>3. Len(output) < Len(input) /\ input[Len(output) + 1] = Head(<<c>>)
      <4>1. output \in Seq(Bytes) BY <1>5, <2>9, <2>13
      <4>. DEFINE one == <<c>>
      <4>2. one \in NonEmpty /\ hist[k + 1].text = output \o one BY <1>5, <2>5, <3>2
      <4>. HIDE DEF one
      <4>3. Len(output) < Len(input) /\ input[Len(output) + 1] = Head(one)
        BY <3>1, <4>1, <4>2, NextByte
      <4>. QED BY <4>3 DEF one
    <3>4. Append(output, c) = <<c>>
      <4>1. output = <<>> BY <1>5, <2>9
      <4>. QED BY <4>1, SMT
    <3>5. r.state \notin {"eof", "error"} BY <1>1, SMT
    <3>. QED BY <2>3, <2>15, <3>2, <3>3, <3>4, <3>5, Zenon DEF Gives
  <2>. QED BY <2>17, <2>18
<1>. QED BY <1>6, <1>7
-----------------------------------------------------------------------------
(* CLEAR and the other codes: nothing is given back yet.                   *)

LEMMA CoreIsCleared ==
  ASSUME NEW m, NEW x, NEW y, x.n_bits = Bits(y), x.maxcode = Greatest(m, y), x.free_ent = FIRST - 1,
         x.clear_flg = TRUE, x.prefix = y.prefix, x.suffix = y.suffix, x.oldcode = y.oldcode,
         x.finchar = y.finchar
  PROVE  Core(x) = Cleared(m, y)
BY Zenon DEF Core, Cleared

LEMMA PendingIsAdded ==
  ASSUME NEW m, NEW x, NEW y, NEW c, x.n_bits = Bits(y), x.maxcode = Greatest(m, y),
         x.free_ent = y.free_ent, x.clear_flg = FALSE, x.prefix = y.prefix, x.suffix = y.suffix,
         x.oldcode = y.oldcode, x.incode = c, x.finchar = Head(Decoded(y, c))
  PROVE  Pending(m, x) = Added(m, y, c)
BY Zenon DEF Pending, Added

LEMMA ReadClearKeeps == ASSUME FitInv, ChanInv, ReadClear PROVE ChanInv' /\ Prepares
<1>. DEFINE z == GetCode(r).z
            before == FIRST - 1
<1>1. /\ r.state = "middle" /\ r.stack = <<>> /\ MayGet(r) /\ GetCode(r).code = CLEAR
      /\ maxbits' = maxbits /\ w' = w /\ sent' = sent /\ input' = input /\ output' = output
      /\ r' = [z EXCEPT !.clear_flg = TRUE, !.free_ent = before]
  BY Zenon DEF ReadClear, Reading
<1>2. PICK hist, n, k : Reads(hist, n, k) BY <1>1, ReadingAt
<1>3. /\ n \in Nat /\ k \in 0..n /\ Trace(maxbits, hist, n) /\ hist[k].z = Core(r)
      /\ output = hist[k].text
  BY <1>2, ReadsAt
<1>4. /\ ChanAt(hist, n, k) /\ ReaderAt(maxbits, hist, k, r, sent, output) BY <1>2, Zenon DEF Reads, ChanAt
<1>5. k # n
  <2>1. SUFFICES ASSUME k = n PROVE FALSE OBVIOUS
  <2>2. GetCode(r).code = EOF BY <1>1, <1>2, <2>1, GetsEnd
  <2>3. CLEAR # EOF BY CodesFacts, SMT DEF EOF
  <2>. QED BY <1>1, <2>2, <2>3
<1>6. /\ k + 1 \in 1..n /\ Sent(hist, k + 1, sent) /\ hist[k + 1].code = CLEAR /\ Took(hist, k, z)
  BY <1>1, <1>2, <1>5, Gets
<1>. HIDE DEF z
<1>7. /\ k + 1 \in 0..n /\ k \in Nat /\ hist[k].text \in Seq(Bytes)
      /\ hist[k + 1].z = Then(maxbits, hist[k].z, CLEAR, k + 1)
      /\ hist[k + 1].text = hist[k].text \o Shown(hist[k].z, CLEAR, k + 1)
  BY <1>3, <1>6, CodeAt
<1>8. k # 0 BY <1>1, <1>4, Zenon DEF ReaderAt
<1>9. k + 1 # 1 /\ k + 1 # 0 BY <1>7, <1>8, SMT
<1>10. hist[k + 1].z = Cleared(maxbits, hist[k].z) /\ hist[k + 1].text = hist[k].text \o <<>>
  BY <1>7, <1>9, Zenon DEF Then, Shown
<1>11. hist[k + 1].text = output /\ output \o <<>> = output /\ output \in Seq(Bytes) /\ <<>> \in Seq(Bytes)
  <2>1. output \in Seq(Bytes) BY <1>3, <1>7
  <2>2. \A s \in Seq(Bytes) : s \o <<>> = s BY SMT
  <2>3. <<>> \in Seq(Bytes) BY SMT
  <2>. QED BY <1>3, <1>10, <2>1, <2>2, <2>3
<1>12. DOMAIN z = ReaderFields BY <1>6, Fields, Zenon DEF Took, SameRest
<1>. HIDE DEF before
<1>13. /\ r'.state = z.state /\ r'.oldcode = z.oldcode /\ r'.finchar = z.finchar /\ r'.n_bits = z.n_bits
       /\ r'.maxcode = z.maxcode /\ r'.free_ent = before /\ r'.clear_flg = TRUE
       /\ r'.prefix = z.prefix /\ r'.suffix = z.suffix /\ r'.stack = z.stack
       /\ r'.next = z.next /\ r'.group = z.group
  BY <1>1, <1>12, SMT DEF ReaderFields
<1>14. /\ z.n_bits = Bits(hist[k].z) /\ z.maxcode = Greatest(maxbits, hist[k].z)
       /\ z.prefix = r.prefix /\ z.suffix = r.suffix /\ z.stack = r.stack
       /\ z.oldcode = r.oldcode /\ z.finchar = r.finchar /\ z.state = r.state
       /\ z.next = hist[k + 1].group + 1
       /\ z.group = Rest(sent, hist[k + 1].group, hist[k + 1].place)
  BY <1>6, Zenon DEF Took, SameRest
<1>15. /\ hist[k].z.prefix = r.prefix /\ hist[k].z.suffix = r.suffix
       /\ hist[k].z.oldcode = r.oldcode /\ hist[k].z.finchar = r.finchar
  BY <1>3, CoreFields
<1>16. Core(r') = hist[k + 1].z
  <2>1. /\ r'.n_bits = Bits(hist[k].z) /\ r'.maxcode = Greatest(maxbits, hist[k].z)
        /\ r'.free_ent = FIRST - 1 /\ r'.clear_flg = TRUE /\ r'.prefix = hist[k].z.prefix
        /\ r'.suffix = hist[k].z.suffix /\ r'.oldcode = hist[k].z.oldcode
        /\ r'.finchar = hist[k].z.finchar
    BY <1>13, <1>14, <1>15 DEF before
  <2>. QED BY <1>10, <2>1, CoreIsCleared
<1>17. hist[k + 1].group <= Len(sent) BY <1>6, Zenon DEF Sent
<1>18. /\ r'.state # "start" /\ r'.state \notin {"eof", "error"} /\ r'.state \in {"start", "middle"}
       /\ r'.state \in {"start", "middle", "eof", "error"} /\ r.state \notin {"eof", "error"}
  BY <1>1, <1>13, <1>14, SMT
<1>19. ReaderAt(maxbits, hist, k + 1, r', sent, output')
  BY <1>1, <1>9, <1>11, <1>13, <1>14, <1>16, <1>17, <1>18, Zenon DEF ReaderAt
<1>20. ChanInv' BY <1>1, <1>4, <1>7, <1>19, ReaderMoves
<1>. QED BY <1>1, <1>18, <1>20, Zenon DEF Prepares

LEMMA ReadCodeKeeps == ASSUME FitInv, ChanInv, ReadCode PROVE ChanInv' /\ Prepares
<1>. DEFINE z == GetCode(r).z
            c == GetCode(r).code
            str == IF c >= r.free_ent THEN Append(String(r)[r.oldcode], r.finchar) ELSE String(r)[c]
            head == Head(str)
<1>1. /\ r.state = "middle" /\ r.stack = <<>> /\ MayGet(r) /\ c \in Codes \ {CLEAR}
      /\ maxbits' = maxbits /\ w' = w /\ sent' = sent /\ input' = input /\ output' = output
      /\ r' = [z EXCEPT !.incode = c, !.stack = str, !.finchar = head]
  BY Zenon DEF ReadCode, Reading
<1>2. PICK hist, n, k : Reads(hist, n, k) BY <1>1, ReadingAt
<1>3. /\ n \in Nat /\ k \in 0..n /\ Trace(maxbits, hist, n) /\ hist[k].z = Core(r)
      /\ output = hist[k].text
  BY <1>2, ReadsAt
<1>4. /\ ChanAt(hist, n, k) /\ ReaderAt(maxbits, hist, k, r, sent, output) BY <1>2, Zenon DEF Reads, ChanAt
<1>5. k # n
  <2>1. SUFFICES ASSUME k = n PROVE FALSE OBVIOUS
  <2>2. c = EOF BY <1>1, <1>2, <2>1, GetsEnd
  <2>3. EOF \notin Codes
    <3>1. 2^BITS \in Nat BY CodesFacts
    <3>. QED BY <3>1, SMT DEF Codes, EOF
  <2>. QED BY <1>1, <2>2, <2>3
<1>6. /\ k + 1 \in 1..n /\ Sent(hist, k + 1, sent) /\ hist[k + 1].code = c /\ Took(hist, k, z)
  BY <1>1, <1>2, <1>5, Gets
<1>. HIDE DEF z, c
<1>7. /\ k + 1 \in 0..n /\ k \in Nat /\ hist[k].text \in Seq(Bytes) /\ Sound(maxbits, hist[k].z)
      /\ hist[k + 1].z = Then(maxbits, hist[k].z, c, k + 1)
      /\ hist[k + 1].text = hist[k].text \o Shown(hist[k].z, c, k + 1)
  BY <1>3, <1>6, CodeAt
<1>8. k # 0 BY <1>1, <1>4, Zenon DEF ReaderAt
<1>9. k + 1 # 1 /\ k + 1 # 0 BY <1>7, <1>8, SMT
<1>10. hist[k + 1].z = Added(maxbits, hist[k].z, c) /\ hist[k + 1].text = hist[k].text \o Decoded(hist[k].z, c)
  BY <1>1, <1>7, <1>9, Zenon DEF Then, Shown
<1>11. /\ hist[k].z.prefix = r.prefix /\ hist[k].z.suffix = r.suffix
       /\ hist[k].z.oldcode = r.oldcode /\ hist[k].z.finchar = r.finchar
       /\ hist[k].z.free_ent = r.free_ent
  BY <1>3, CoreFields
<1>12. str = Decoded(hist[k].z, c)
  <2>1. String(r) = Strings(r.prefix, r.suffix) BY StringIsStrings
  <2>. QED BY <1>11, <2>1, Zenon DEF Decoded
<1>13. str \in NonEmpty
  <2>1. maxbits \in 1..BITS BY Zenon DEF FitInv
  <2>. HIDE DEF str
  <2>. QED BY <1>1, <1>7, <1>12, <2>1, DecodedNonEmpty
<1>. HIDE DEF str
<1>14. str \in Seq(Bytes) /\ str # <<>> BY <1>13, Zenon DEF NonEmpty
<1>15. DOMAIN z = ReaderFields BY <1>6, Fields, Zenon DEF Took, SameRest
<1>. HIDE DEF head
<1>16. /\ r'.state = z.state /\ r'.oldcode = z.oldcode /\ r'.finchar = head /\ r'.n_bits = z.n_bits
       /\ r'.maxcode = z.maxcode /\ r'.free_ent = z.free_ent /\ r'.clear_flg = z.clear_flg
       /\ r'.prefix = z.prefix /\ r'.suffix = z.suffix /\ r'.stack = str
       /\ r'.next = z.next /\ r'.group = z.group /\ r'.incode = c
  BY <1>1, <1>15, SMT DEF ReaderFields
<1>17. /\ z.n_bits = Bits(hist[k].z) /\ z.maxcode = Greatest(maxbits, hist[k].z) /\ z.clear_flg = FALSE
       /\ z.prefix = r.prefix /\ z.suffix = r.suffix /\ z.free_ent = r.free_ent
       /\ z.oldcode = r.oldcode /\ z.state = r.state
       /\ z.next = hist[k + 1].group + 1
       /\ z.group = Rest(sent, hist[k + 1].group, hist[k + 1].place)
  BY <1>6, Zenon DEF Took, SameRest
<1>18. Pending(maxbits, r') = hist[k + 1].z
  <2>1. /\ r'.n_bits = Bits(hist[k].z) /\ r'.maxcode = Greatest(maxbits, hist[k].z)
        /\ r'.free_ent = hist[k].z.free_ent /\ r'.clear_flg = FALSE /\ r'.prefix = hist[k].z.prefix
        /\ r'.suffix = hist[k].z.suffix /\ r'.oldcode = hist[k].z.oldcode /\ r'.incode = c
        /\ r'.finchar = Head(Decoded(hist[k].z, c))
    BY <1>11, <1>12, <1>16, <1>17 DEF head
  <2>2. PICK x, y : x = r' /\ y = hist[k].z OBVIOUS
  <2>3. /\ x.n_bits = Bits(y) /\ x.maxcode = Greatest(maxbits, y) /\ x.free_ent = y.free_ent
        /\ x.clear_flg = FALSE /\ x.prefix = y.prefix /\ x.suffix = y.suffix /\ x.oldcode = y.oldcode
        /\ x.incode = c /\ x.finchar = Head(Decoded(y, c))
    BY <2>1, <2>2
  <2>4. Pending(maxbits, x) = Added(maxbits, y, c) BY <2>3, PendingIsAdded
  <2>. QED BY <1>10, <2>2, <2>4
<1>19. hist[k + 1].group <= Len(sent) BY <1>6, Zenon DEF Sent
<1>20. /\ r'.state # "start" /\ r'.state \notin {"eof", "error"} /\ r'.state \in {"start", "middle"}
       /\ r'.state \in {"start", "middle", "eof", "error"} /\ r.state \notin {"eof", "error"}
  BY <1>1, <1>16, <1>17, SMT
<1>21. output' \o str = hist[k + 1].text /\ output' \in Seq(Bytes) BY <1>1, <1>3, <1>7, <1>10, <1>12
<1>22. ReaderAt(maxbits, hist, k + 1, r', sent, output')
  BY <1>1, <1>9, <1>14, <1>16, <1>17, <1>18, <1>19, <1>20, <1>21, Zenon DEF ReaderAt
<1>23. ChanInv' BY <1>1, <1>4, <1>7, <1>22, ReaderMoves
<1>. QED BY <1>1, <1>20, <1>23, Zenon DEF Prepares

-----------------------------------------------------------------------------
(* Delivering the last byte on the stack makes the entry that was pending. *)
Enters(z, y) ==
  /\ Core(y) = Pending(maxbits, z) /\ y.state = z.state /\ y.stack = z.stack /\ y.next = z.next
  /\ y.group = z.group

LEMMA AddEntryFields == ASSUME NEW z, IsReader(z) PROVE Enters(z, AddEntry(z))
<1>. DEFINE n == z.free_ent
            m == n + 1
            prefix == [z.prefix EXCEPT ![n] = z.oldcode]
            suffix == [z.suffix EXCEPT ![n] = z.finchar]
            code == z.incode
            more == [z EXCEPT !.prefix = prefix, !.suffix = suffix, !.free_ent = m]
            z1 == IF n >= maxmaxcode THEN z ELSE more
            y == [z1 EXCEPT !.oldcode = code]
            full == z.free_ent >= 2^maxbits
<1>1. AddEntry(z) = y BY Zenon DEF AddEntry
<1>2. DOMAIN z = ReaderFields BY Fields, Zenon
<1>3. full <=> n >= maxmaxcode BY Zenon DEF maxmaxcode
<1>. HIDE DEF prefix, suffix, m, code, full
<1>4. /\ DOMAIN z1 = ReaderFields /\ z1.state = z.state /\ z1.stack = z.stack /\ z1.next = z.next
      /\ z1.group = z.group /\ z1.n_bits = z.n_bits /\ z1.maxcode = z.maxcode
      /\ z1.clear_flg = z.clear_flg /\ z1.finchar = z.finchar
      /\ full => z1.free_ent = z.free_ent /\ z1.prefix = z.prefix /\ z1.suffix = z.suffix
      /\ ~full => z1.free_ent = m /\ z1.prefix = prefix /\ z1.suffix = suffix
  <2>1. CASE full
    <3>1. z1 = z BY <1>3, <2>1
    <3>. QED BY <1>2, <2>1, <3>1
  <2>2. CASE ~full
    <3>1. z1 = more BY <1>3, <2>2
    <3>2. DOMAIN more = DOMAIN z BY Zenon
    <3>3. /\ more.state = z.state /\ more.stack = z.stack /\ more.next = z.next
          /\ more.group = z.group /\ more.n_bits = z.n_bits /\ more.maxcode = z.maxcode
          /\ more.clear_flg = z.clear_flg /\ more.finchar = z.finchar
          /\ more.free_ent = m /\ more.prefix = prefix /\ more.suffix = suffix
      BY <1>2, SMT DEF ReaderFields
    <3>. QED BY <1>2, <2>2, <3>1, <3>2, <3>3
  <2>. QED BY <2>1, <2>2
<1>. HIDE DEF z1
<1>5. /\ y.state = z1.state /\ y.stack = z1.stack /\ y.next = z1.next /\ y.group = z1.group
      /\ y.n_bits = z1.n_bits /\ y.maxcode = z1.maxcode /\ y.clear_flg = z1.clear_flg
      /\ y.finchar = z1.finchar /\ y.free_ent = z1.free_ent /\ y.prefix = z1.prefix
      /\ y.suffix = z1.suffix /\ y.oldcode = code
  BY <1>4, SMT DEF ReaderFields
<1>. HIDE DEF y
<1>6. Core(y) = Pending(maxbits, z)
  <2>1. CASE full BY <1>4, <1>5, <2>1, Zenon DEF Core, Pending, full, code
  <2>2. CASE ~full BY <1>4, <1>5, <2>2, Zenon DEF Core, Pending, full, code, m, prefix, suffix
  <2>. QED BY <2>1, <2>2
<1>. QED BY <1>1, <1>4, <1>5, <1>6, Zenon DEF Enters

Shift(out, st, out2, rest) == out2 \in Seq(Bytes) /\ rest \in Seq(Bytes) /\ out2 \o rest = out \o st

LEMMA Shifts ==
  ASSUME NEW out \in Seq(Bytes), NEW st \in Seq(Bytes), st # <<>>, NEW out2, out2 = Append(out, Head(st)),
         NEW rest, rest = Tail(st)
  PROVE  Shift(out, st, out2, rest)
<1>1. out2 \in Seq(Bytes) /\ rest \in Seq(Bytes) BY SMT
<1>2. st = <<Head(st)>> \o rest BY SMT
<1>3. out2 = out \o <<Head(st)>> BY SMT
<1>4. <<Head(st)>> \in Seq(Bytes) BY SMT
<1>5. out2 \o rest = out \o st BY <1>1, <1>2, <1>3, <1>4, ConcatAssociative
<1>. QED BY <1>1, <1>5, Zenon DEF Shift

LEMMA DeliverKeeps == ASSUME FitInv, ChanInv, Deliver PROVE ChanInv' /\ Gives
<1>. DEFINE tail == Tail(r.stack)
            z == [r EXCEPT !.stack = tail]
<1>1. /\ r.stack # <<>> /\ output' = Append(output, Head(r.stack))
      /\ r' = IF z.stack = <<>> THEN AddEntry(z) ELSE z
      /\ maxbits' = maxbits /\ w' = w /\ sent' = sent /\ input' = input
  BY Zenon DEF Deliver
<1>2. PICK hist, n, k : ChanAt(hist, n, k) BY Zenon DEF ChanInv
<1>3. /\ ReaderAt(maxbits, hist, k, r, sent, output) /\ k \in 0..n
      /\ input \in Seq(Bytes) /\ Prefix(hist[k].text, input)
  BY <1>2, Zenon DEF ChanAt, Stream
<1>4. r.state = "middle" BY <1>1, <1>3, Zenon DEF ReaderAt
<1>5. /\ r.state \in {"start", "middle"} /\ r.state # "start" /\ r.state \notin {"eof", "error"}
  BY <1>4, SMT
<1>6. /\ output \in Seq(Bytes) /\ r.stack \in Seq(Bytes) /\ output \o r.stack = hist[k].text
      /\ r.next = hist[k].group + 1 /\ hist[k].group <= Len(sent)
      /\ r.group = Rest(sent, hist[k].group, hist[k].place)
      /\ hist[k].z = Pending(maxbits, r) /\ k # 0
  BY <1>1, <1>3, <1>4, <1>5, Zenon DEF ReaderAt
<1>7. IsReader(r) /\ DOMAIN r = ReaderFields BY Fields, Zenon DEF FitInv, ReaderFits
<1>8. output' \in Seq(Bytes) /\ tail \in Seq(Bytes) /\ output' \o tail = output \o r.stack
  <2>1. Shift(output, r.stack, output', tail) BY <1>1, <1>6, Shifts, Zenon
  <2>. QED BY <2>1, Zenon DEF Shift
<1>. HIDE DEF tail
<1>9. /\ z.stack = tail /\ z.state = r.state /\ z.next = r.next /\ z.group = r.group
      /\ z.n_bits = r.n_bits /\ z.maxcode = r.maxcode /\ z.clear_flg = r.clear_flg
      /\ z.free_ent = r.free_ent /\ z.prefix = r.prefix /\ z.suffix = r.suffix
      /\ z.oldcode = r.oldcode /\ z.incode = r.incode /\ z.finchar = r.finchar
  BY <1>7, SMT DEF ReaderFields
<1>11. IsReader(z)
  <2>1. DOMAIN z = DOMAIN r /\ z = [f \in DOMAIN z |-> z[f]] BY Zenon
  <2>. QED BY <1>7, <2>1, Fields, Zenon
<1>. HIDE DEF z
<1>10. Pending(maxbits, z) = Pending(maxbits, r) BY <1>9, Zenon DEF Pending
<1>12. /\ r'.state = r.state /\ r'.stack = tail /\ r'.next = r.next /\ r'.group = r.group
       /\ hist[k].z = IF tail = <<>> THEN Core(r') ELSE Pending(maxbits, r')
  <2>1. CASE tail = <<>>
    <3>1. r' = AddEntry(z) BY <1>1, <1>9, <2>1
    <3>2. Enters(z, r') BY <1>11, <3>1, AddEntryFields
    <3>. QED BY <1>6, <1>9, <1>10, <2>1, <3>2, Zenon DEF Enters
  <2>2. CASE tail # <<>>
    <3>1. r' = z BY <1>1, <1>9, <2>2
    <3>. QED BY <1>6, <1>9, <1>10, <2>2, <3>1
  <2>. QED BY <2>1, <2>2
<1>13. ReaderAt(maxbits, hist, k, r', sent, output')
  BY <1>3, <1>5, <1>6, <1>8, <1>12, Zenon DEF ReaderAt
<1>14. ChanInv' BY <1>1, <1>2, <1>3, <1>13, ReaderMoves
<1>15. Gives
  <2>1. r.stack \in NonEmpty BY <1>1, <1>6, Zenon DEF NonEmpty
  <2>2. Len(output) < Len(input) /\ input[Len(output) + 1] = Head(r.stack)
    <3>1. PICK out, rest, data : out = output /\ rest = r.stack /\ data = input OBVIOUS
    <3>2. /\ out \in Seq(Bytes) /\ rest \in NonEmpty /\ hist[k].text = out \o rest
          /\ data \in Seq(Bytes) /\ Prefix(hist[k].text, data)
      BY <1>3, <1>6, <2>1, <3>1
    <3>3. Len(out) < Len(data) /\ data[Len(out) + 1] = Head(rest) BY <3>2, NextByte
    <3>. QED BY <3>1, <3>3
  <2>. QED BY <1>1, <1>5, <1>12, <2>2, Zenon DEF Gives
<1>. QED BY <1>14, <1>15

LEMMA ChanSame ==
  ASSUME ChanInv, UNCHANGED <<maxbits, input, w, sent, r, output>> PROVE ChanInv'
<1>1. PICK hist, n, k : ChanAt(hist, n, k) BY Zenon DEF ChanInv
<1>2. maxbits' = maxbits /\ input' = input /\ w' = w /\ sent' = sent /\ r' = r /\ output' = output
  BY SMT
<1>3. ChanAt(hist, n, k)' BY <1>1, <1>2, Zenon DEF ChanAt
<1>. QED BY <1>3, Zenon DEF ChanInv
-----------------------------------------------------------------------------
(* The state and the group of a writer that was given a byte.              *)
Fills(z) == z.state = "middle" /\ z.group \in Seq(Codes)

LEMMA OutputFills ==
  ASSUME maxbits \in 1..BITS, NEW zw, NEW s, NEW code \in Codes, MayOutput(zw, s, code), Fills(zw)
  PROVE  Fills(Output(zw, s, code).z)
<1>. DEFINE o == Output(zw, s, code)
            full == Append(zw.group, code)
<1>1. Put(zw, s, code, o) BY OutputPuts, Zenon
<1>2. zw.group \in Seq(Codes) /\ zw.state = "middle" BY Zenon DEF Fills
<1>3. full \in Seq(Codes) /\ <<>> \in Seq(Codes) BY <1>2, SMT
<1>. HIDE DEF o
<1>4. o.z.group \in {<<>>, full} /\ o.z.state = zw.state BY <1>1, Zenon DEF Put
<1>. QED BY <1>2, <1>3, <1>4, Zenon DEF Fills, o

LEMMA FitsCodes ==
  ASSUME NEW n \in 0..BITS, NEW code \in Nat, code < 2^n PROVE code \in Codes
<1>1. 2^BITS \in Nat /\ 2^n \in Nat /\ 2^n <= 2^BITS
  <2>1. 2^BITS \in Nat /\ BITS \in 0..BITS BY LzwAssumption, CodesFacts, SMT
  <2>2. CASE n = BITS BY <2>1, <2>2, SMT
  <2>3. CASE n < BITS BY <2>1, <2>3, PowersGrow, SMT
  <2>. QED BY <2>1, <2>2, <2>3, SMT
<1>. QED BY <1>1, SMT DEF Codes

LEMMA EntFills ==
  ASSUME FitInv, ChanInv, Fills(w), NEW o, o = Output([w EXCEPT !.in_count = @ + 1], sent, w.ent)
  PROVE  Fills(o.z) /\ IsWriter(o.z)
<1>. DEFINE x == [w EXCEPT !.in_count = @ + 1]
<1>1. w.state = "middle" /\ maxbits \in 1..BITS BY Zenon DEF Fills, FitInv
<1>2. PICK hist, n, k : ChanAt(hist, n, k) BY Zenon DEF ChanInv
<1>3. \E S : At(maxbits, hist, n, S, w, sent, input) BY <1>1, <1>2, MiddleAt
<1>. HIDE DEF x
<1>4. WriterFits(x, sent) /\ x.state = "middle" /\ x.ent = w.ent /\ x.group = w.group
  BY <1>1, <1>3, Counted, Zenon DEF x
<1>5. MayOutput(x, sent, w.ent) BY <1>1, <1>4, EntFits, Zenon
<1>6. w.ent \in Codes
  <2>1. x.n_bits \in 0..BITS
    <3>1. x.n_bits \in INIT_BITS..BITS BY <1>5, Zenon DEF MayOutput, WidthInv
    <3>. QED BY <3>1, LzwAssumption, SMT
  <2>. QED BY <1>5, <2>1, FitsCodes, Zenon DEF MayOutput
<1>7. Fills(x) BY <1>4, Zenon DEF Fills
<1>8. o = Output(x, sent, w.ent) BY DEF x
<1>9. Fills(o.z) BY <1>1, <1>5, <1>6, <1>7, <1>8, OutputFills, Zenon
<1>10. IsWriter(o.z) BY <1>1, <1>5, <1>8, OutputFits
<1>. QED BY <1>9, <1>10

LEMMA WriteFirstFills == ASSUME FitInv, w.group \in Seq(Codes), NEW c, WriteFirst(c) PROVE Fills(w')
<1>1. w' = [w EXCEPT !.state = "middle", !.ent = c] BY Zenon DEF WriteFirst
<1>2. DOMAIN w = WriterFields BY Fields, Zenon DEF FitInv, WriterFits
<1>3. w'.state = "middle" /\ w'.group = w.group BY <1>1, <1>2, SMT DEF WriterFields
<1>. QED BY <1>3, Zenon DEF Fills

LEMMA WriteMatchFills == ASSUME FitInv, w.group \in Seq(Codes), NEW c, WriteMatch(c) PROVE Fills(w')
<1>1. w.state = "middle" /\ \E e, i : w' = [w EXCEPT !.ent = e, !.in_count = i]
  BY Zenon DEF WriteMatch, Extends
<1>2. DOMAIN w = WriterFields BY Fields, Zenon DEF FitInv, WriterFits
<1>3. w'.state = w.state /\ w'.group = w.group BY <1>1, <1>2, SMT DEF WriterFields
<1>. QED BY <1>1, <1>3, Zenon DEF Fills

LEMMA WriteNewFills == ASSUME FitInv, ChanInv, w.group \in Seq(Codes), NEW c, WriteNew(c) PROVE Fills(w')
<1>. DEFINE o == Output([w EXCEPT !.in_count = @ + 1], sent, w.ent)
<1>1. w.state = "middle" /\ \E t, f : w' = [o.z EXCEPT !.ent = c, !.table = t, !.free_ent = f]
  BY Zenon DEF WriteNew, Extends
<1>2. Fills(o.z) /\ IsWriter(o.z) BY <1>1, EntFills, Zenon DEF Fills
<1>. HIDE DEF o
<1>3. DOMAIN o.z = WriterFields BY <1>2, Fields, Zenon
<1>4. w'.state = o.z.state /\ w'.group = o.z.group BY <1>1, <1>3, SMT DEF WriterFields
<1>. QED BY <1>2, <1>4, Zenon DEF Fills

LEMMA WriteFullFills ==
  ASSUME FitInv, ChanInv, w.group \in Seq(Codes), NEW c \in Bytes, NEW worse \in BOOLEAN, WriteFull(c, worse)
  PROVE  Fills(w')
<1>. DEFINE o == Output([w EXCEPT !.in_count = @ + 1], sent, w.ent)
<1>1. w.state = "middle" BY Zenon DEF WriteFull, Extends
<1>2. Fills(o.z) BY <1>1, EntFills, Zenon DEF Fills
<1>3. \/ TakesUp(w', o.z, c)
      \/ \E z : TakesUp(z, o.z, c) /\ MayOutput(z, o.s, CLEAR) /\ w' = Output(z, o.s, CLEAR).z
  BY FullShape, Zenon
<1>. HIDE DEF o
<1>4. \A z : TakesUp(z, o.z, c) => Fills(z) BY <1>2, Zenon DEF TakesUp, Fills
<1>5. CLEAR \in Codes BY CodesFacts, SMT
<1>6. maxbits \in 1..BITS BY Zenon DEF FitInv
<1>. QED BY <1>3, <1>4, <1>5, <1>6, OutputFills, Zenon

-----------------------------------------------------------------------------
(* The rest of the types.                                                  *)
ReaderTypes(z) ==
  /\ z.oldcode \in Codes /\ z.incode \in Codes /\ z.free_ent >= CLEAR /\ z.next \in Nat \ {0}
RestInv ==
  /\ maxbits \in BitOptions /\ chunk \in Chunks /\ count \in 0..chunk
  /\ w.state \in {"start", "middle", "closed", "killed"} /\ w.group \in Seq(Codes)
  /\ ReaderTypes(r)

LEMMA GetCodeKeeps ==
  ASSUME FitInv, ReaderTypes(r) PROVE ReaderTypes(GetCode(r).z) /\ IsReader(GetCode(r).z)
<1>1. maxbits \in 1..BITS /\ ReaderFits(r) BY Zenon DEF FitInv
<1>. DEFINE z1 == Adjust(r)
            tail == Tail(r.group)
            y0 == [r EXCEPT !.group = tail]
            rest == Tail(sent[r.next].codes)
            n == z1.next + 1
            y1 == [z1 EXCEPT !.group = rest, !.next = n]
<1>2. ReaderTypes(z1) /\ IsReader(z1)
  <2>1. Adjusted(r, z1) BY <1>1, AdjustFields
  <2>. HIDE DEF z1
  <2>. QED BY <2>1, Zenon DEF Adjusted, SameRest, ReaderTypes
<1>3. GetCode(r).z \in {y0, z1, y1}
  <2>1. y1 = [z1 EXCEPT !.group = rest, !.next = @ + 1] OBVIOUS
  <2>2. \/ GetCode(r) = [z |-> y0, code |-> Head(r.group)]
        \/ \E code : GetCode(r) = [z |-> z1, code |-> code]
        \/ GetCode(r) = [z |-> y1, code |-> Head(sent[r.next].codes)]
    BY <2>1, Zenon DEF GetCode
  <2>. HIDE DEF z1, y0, y1
  <2>. QED BY <2>2, SMT
<1>4. n \in Nat \ {0} BY <1>2, SMT DEF ReaderTypes
<1>. HIDE DEF z1, tail, rest, n
<1>5. ReaderTypes(y0) /\ IsReader(y0)
  <2>1. DOMAIN r = ReaderFields /\ IsReader(r) BY <1>1, Fields, Zenon DEF ReaderFits
  <2>2. y0.oldcode = r.oldcode /\ y0.incode = r.incode /\ y0.free_ent = r.free_ent /\ y0.next = r.next
    BY <2>1, SMT DEF ReaderFields
  <2>3. DOMAIN y0 = DOMAIN r /\ y0 = [f \in DOMAIN y0 |-> y0[f]] BY Zenon
  <2>. HIDE DEF y0
  <2>4. IsReader(y0) BY <2>1, <2>3, Fields, Zenon
  <2>. QED BY <2>2, <2>4, Zenon DEF ReaderTypes
<1>6. ReaderTypes(y1) /\ IsReader(y1)
  <2>1. DOMAIN z1 = ReaderFields BY <1>2, Fields, Zenon
  <2>2. y1.oldcode = z1.oldcode /\ y1.incode = z1.incode /\ y1.free_ent = z1.free_ent /\ y1.next = n
    BY <2>1, SMT DEF ReaderFields
  <2>3. DOMAIN y1 = DOMAIN z1 /\ y1 = [f \in DOMAIN y1 |-> y1[f]] BY Zenon
  <2>. HIDE DEF y1
  <2>4. IsReader(y1) BY <1>2, <2>3, Fields, Zenon
  <2>. QED BY <1>2, <1>4, <2>2, <2>4, Zenon DEF ReaderTypes
<1>. HIDE DEF y0, y1
<1>. QED BY <1>2, <1>3, <1>5, <1>6, Zenon

(* the codes that are taken are codes *)
LEMMA TakenCode ==
  ASSUME FitInv, ChanInv, r.state \in {"start", "middle"}, r.stack = <<>>, MayGet(r), GetCode(r).code # EOF
  PROVE  GetCode(r).code \in Codes
<1>1. PICK hist, n, k : Reads(hist, n, k) BY ReadingAt
<1>2. n \in Nat /\ k \in 0..n /\ Trace(maxbits, hist, n) BY <1>1, ReadsAt
<1>3. k # n BY <1>1, GetsEnd
<1>4. k + 1 \in 1..n /\ GetCode(r).code = hist[k + 1].code BY <1>1, <1>3, Gets
<1>. QED BY <1>2, <1>4, CodeAt

LEMMA ReadFirstTypes == ASSUME FitInv, ChanInv, RestInv, ReadFirst PROVE RestInv'
<1>. DEFINE z == GetCode(r).z
            c == GetCode(r).code
<1>1. /\ r.state = "start" /\ MayGet(r) /\ chunk' = chunk /\ maxbits' = maxbits /\ w' = w
      /\ c = EOF => r' = [z EXCEPT !.state = "eof"] /\ count' = count
      /\ c # EOF => /\ r' = [z EXCEPT !.state = "middle", !.oldcode = c, !.finchar = c]
                    /\ count' = chunk - 1
  BY Zenon DEF ReadFirst
<1>2. ReaderTypes(z) /\ IsReader(z) BY GetCodeKeeps, Zenon DEF RestInv
<1>3. r.stack = <<>> BY <1>1, Zenon DEF ChanInv, ChanAt, ReaderAt
<1>4. c # EOF => c \in Codes BY <1>1, <1>3, TakenCode
<1>. HIDE DEF z, c
<1>5. DOMAIN z = ReaderFields BY <1>2, Fields, Zenon
<1>6. ReaderTypes(r')
  <2>1. CASE c = EOF
    <3>1. /\ r'.oldcode = z.oldcode /\ r'.incode = z.incode /\ r'.free_ent = z.free_ent
          /\ r'.next = z.next
      BY <1>1, <1>5, <2>1, SMT DEF ReaderFields
    <3>. QED BY <1>2, <3>1, Zenon DEF ReaderTypes
  <2>2. CASE c # EOF
    <3>0. r' = [z EXCEPT !.state = "middle", !.oldcode = c, !.finchar = c] BY <1>1, <2>2
    <3>1. /\ r'.oldcode = c /\ r'.incode = z.incode /\ r'.free_ent = z.free_ent
          /\ r'.next = z.next
      BY <1>5, <3>0, SMT DEF ReaderFields
    <3>. QED BY <1>2, <1>4, <2>2, <3>1, Zenon DEF ReaderTypes
  <2>. QED BY <2>1, <2>2
<1>7. count' \in 0..chunk
  <2>1. chunk \in Nat \ {0} /\ count \in 0..chunk BY LzwAssumption, Zenon DEF RestInv
  <2>2. chunk - 1 \in 0..chunk BY <2>1, SMT
  <2>. QED BY <1>1, <2>1, <2>2
<1>. QED BY <1>1, <1>6, <1>7, Zenon DEF RestInv

LEMMA ReaderRest ==
  ASSUME RestInv, maxbits' = maxbits, w' = w, chunk' = chunk, count' = count, ReaderTypes(r') PROVE RestInv'
BY Zenon DEF RestInv, ReaderTypes

LEMMA ReadEndTypes == ASSUME FitInv, RestInv, ReadEnd PROVE RestInv'
<1>. DEFINE z == GetCode(r).z
<1>1. r' = [z EXCEPT !.state = "eof"] BY Zenon DEF ReadEnd
<1>2. ReaderTypes(z) /\ IsReader(z) BY GetCodeKeeps, Zenon DEF RestInv
<1>. HIDE DEF z
<1>3. DOMAIN z = ReaderFields BY <1>2, Fields, Zenon
<1>4. r'.oldcode = z.oldcode /\ r'.incode = z.incode /\ r'.free_ent = z.free_ent /\ r'.next = z.next
  BY <1>1, <1>3, SMT DEF ReaderFields
<1>5. ReaderTypes(r') BY <1>2, <1>4, Zenon DEF ReaderTypes
<1>. QED BY <1>5, ReaderRest, Zenon DEF ReadEnd

LEMMA ReadHeaderFailsTypes == ASSUME FitInv, RestInv, ReadHeaderFails PROVE RestInv'
<1>1. r' = [r EXCEPT !.state = "error"] BY Zenon DEF ReadHeaderFails
<1>2. ReaderTypes(r) /\ DOMAIN r = ReaderFields BY Fields, Zenon DEF RestInv, FitInv, ReaderFits
<1>3. r'.oldcode = r.oldcode /\ r'.incode = r.incode /\ r'.free_ent = r.free_ent /\ r'.next = r.next
  BY <1>1, <1>2, SMT DEF ReaderFields
<1>4. ReaderTypes(r') BY <1>2, <1>3, Zenon DEF ReaderTypes
<1>. QED BY <1>4, ReaderRest, Zenon DEF ReadHeaderFails

LEMMA ReadClearTypes == ASSUME FitInv, RestInv, ReadClear PROVE RestInv'
<1>. DEFINE z == GetCode(r).z
            before == FIRST - 1
<1>1. r' = [z EXCEPT !.clear_flg = TRUE, !.free_ent = before] BY Zenon DEF ReadClear
<1>2. ReaderTypes(z) /\ IsReader(z) BY GetCodeKeeps, Zenon DEF RestInv
<1>. HIDE DEF z
<1>3. DOMAIN z = ReaderFields BY <1>2, Fields, Zenon
<1>4. before >= CLEAR BY CodesFacts, SMT
<1>. HIDE DEF before
<1>5. r'.oldcode = z.oldcode /\ r'.incode = z.incode /\ r'.free_ent = before /\ r'.next = z.next
  BY <1>1, <1>3, SMT DEF ReaderFields
<1>6. ReaderTypes(r') BY <1>2, <1>4, <1>5, Zenon DEF ReaderTypes
<1>. QED BY <1>6, ReaderRest, Zenon DEF ReadClear

LEMMA ReadCodeTypes == ASSUME FitInv, RestInv, ReadCode PROVE RestInv'
<1>. DEFINE z == GetCode(r).z
            c == GetCode(r).code
<1>1. c \in Codes /\ \E a, b : r' = [z EXCEPT !.incode = c, !.stack = a, !.finchar = b] BY Zenon DEF ReadCode
<1>2. ReaderTypes(z) /\ IsReader(z) BY GetCodeKeeps, Zenon DEF RestInv
<1>. HIDE DEF z, c
<1>3. DOMAIN z = ReaderFields BY <1>2, Fields, Zenon
<1>4. r'.oldcode = z.oldcode /\ r'.incode = c /\ r'.free_ent = z.free_ent /\ r'.next = z.next
  BY <1>1, <1>3, SMT DEF ReaderFields
<1>5. ReaderTypes(r') BY <1>1, <1>2, <1>4, Zenon DEF ReaderTypes
<1>. QED BY <1>5, ReaderRest, Zenon DEF ReadCode

LEMMA AddEntryTypes ==
  ASSUME NEW z, ReaderFits(z), ReaderTypes(z) PROVE ReaderTypes(AddEntry(z))
<1>. DEFINE n == z.free_ent
            m == n + 1
            prefix == [z.prefix EXCEPT ![n] = z.oldcode]
            suffix == [z.suffix EXCEPT ![n] = z.finchar]
            code == z.incode
            more == [z EXCEPT !.prefix = prefix, !.suffix = suffix, !.free_ent = m]
            z1 == IF n >= maxmaxcode THEN z ELSE more
            y == [z1 EXCEPT !.oldcode = code]
<1>1. AddEntry(z) = y BY Zenon DEF AddEntry
<1>2. DOMAIN z = ReaderFields BY Fields, Zenon DEF ReaderFits
<1>3. m >= CLEAR /\ n >= CLEAR
  <2>1. n \in Nat /\ n >= CLEAR BY Zenon DEF ReaderFits, WidthInv, ReaderTypes
  <2>2. CLEAR \in Nat BY CodesFacts
  <2>. QED BY <2>1, <2>2, SMT
<1>. HIDE DEF prefix, suffix, m, code
<1>4. DOMAIN z1 = ReaderFields /\ z1.incode = z.incode /\ z1.next = z.next /\ z1.free_ent >= CLEAR
  <2>1. more.incode = z.incode /\ more.next = z.next /\ more.free_ent = m BY <1>2, SMT DEF ReaderFields
  <2>2. DOMAIN more = DOMAIN z BY Zenon
  <2>3. z1 = z \/ z1 = more BY Zenon
  <2>. HIDE DEF z1, more
  <2>. QED BY <1>2, <1>3, <2>1, <2>2, <2>3, Zenon
<1>. HIDE DEF z1
<1>5. y.oldcode = code /\ y.incode = z1.incode /\ y.next = z1.next /\ y.free_ent = z1.free_ent
  BY <1>4, SMT DEF ReaderFields
<1>. HIDE DEF y
<1>6. ReaderTypes(y) BY <1>4, <1>5, Zenon DEF ReaderTypes, code
<1>. QED BY <1>1, <1>6

LEMMA DeliverTypes == ASSUME FitInv, RestInv, Deliver PROVE RestInv'
<1>. DEFINE tail == Tail(r.stack)
            z == [r EXCEPT !.stack = tail]
<1>1. r' \in {z, AddEntry(z)} /\ chunk' = chunk /\ maxbits' = maxbits /\ w' = w
      /\ count > 0 /\ count' = count - 1
  BY Zenon DEF Deliver
<1>. HIDE DEF tail
<1>2. ReaderFits(z) /\ ReaderTypes(z)
  <2>1. DOMAIN r = ReaderFields /\ ReaderFits(r) /\ ReaderTypes(r)
    BY Fields, Zenon DEF FitInv, ReaderFits, RestInv
  <2>2. /\ z.n_bits = r.n_bits /\ z.maxcode = r.maxcode /\ z.free_ent = r.free_ent
        /\ z.clear_flg = r.clear_flg /\ z.oldcode = r.oldcode /\ z.incode = r.incode
        /\ z.next = r.next
    BY <2>1, SMT DEF ReaderFields
  <2>3. DOMAIN z = DOMAIN r /\ z = [f \in DOMAIN z |-> z[f]] BY Zenon
  <2>4. ReaderFits(z) BY <2>1, <2>2, <2>3, ReaderSame, Zenon
  <2>. HIDE DEF z
  <2>. QED BY <2>1, <2>2, <2>4, Zenon DEF ReaderTypes
<1>. HIDE DEF z
<1>3. ReaderTypes(r') BY <1>1, <1>2, AddEntryTypes, Zenon
<1>4. count' \in 0..chunk
  <2>1. chunk \in Nat \ {0} /\ count \in 0..chunk BY LzwAssumption, Zenon DEF RestInv
  <2>. QED BY <1>1, <2>1, SMT
<1>. QED BY <1>1, <1>3, <1>4, Zenon DEF RestInv

LEMMA NextCallTypes == ASSUME RestInv, NextCall PROVE RestInv'
<1>1. chunk' = chunk /\ maxbits' = maxbits /\ w' = w /\ r' = r /\ count' = chunk BY Zenon DEF NextCall
<1>2. chunk \in Nat \ {0} BY LzwAssumption, Zenon DEF RestInv
<1>3. chunk \in 0..chunk BY <1>2, SMT
<1>. QED BY <1>1, <1>3, Zenon DEF RestInv, ReaderTypes

LEMMA WriterRest ==
  ASSUME RestInv, maxbits' = maxbits, r' = r, chunk' = chunk, count' = count,
         w'.state \in {"start", "middle", "closed", "killed"}, w'.group \in Seq(Codes)
  PROVE  RestInv'
BY Zenon DEF RestInv, ReaderTypes

LEMMA FillsRest ==
  ASSUME RestInv, maxbits' = maxbits, r' = r, chunk' = chunk, count' = count, Fills(w') PROVE RestInv'
<1>1. w'.state = "middle" /\ w'.group \in Seq(Codes) BY Zenon DEF Fills
<1>2. w'.state \in {"start", "middle", "closed", "killed"} BY <1>1, SMT
<1>. QED BY <1>1, <1>2, WriterRest

(* The writer leaves.                                                      *)
Leaves == w.state \in {"start", "middle"} /\ w'.state \in {"closed", "killed"}

LEMMA CloseLeaves == ASSUME FitInv, RestInv, Close PROVE RestInv' /\ Leaves
<1>. DEFINE z == Output(w, sent, w.ent).z
<1>1. w.state = "middle" /\ w' = [z EXCEPT !.state = "closed", !.group = <<>>]
      /\ maxbits' = maxbits /\ r' = r /\ chunk' = chunk /\ count' = count
  BY Zenon DEF Close
<1>2. maxbits \in 1..BITS /\ WriterFits(w, sent) BY Zenon DEF FitInv
<1>3. MayOutput(w, sent, w.ent) BY <1>1, <1>2, EntFits
<1>4. IsWriter(z) BY <1>2, <1>3, OutputFits
<1>. HIDE DEF z
<1>5. DOMAIN z = WriterFields BY <1>4, Fields, Zenon
<1>6. w'.state = "closed" /\ w'.group = <<>> BY <1>1, <1>5, SMT DEF WriterFields
<1>7. w'.group \in Seq(Codes) /\ w'.state \in {"start", "middle", "closed", "killed"} BY <1>6, SMT
<1>8. RestInv' BY <1>1, <1>7, WriterRest
<1>9. Leaves BY <1>1, <1>6, SMT DEF Leaves
<1>. QED BY <1>8, <1>9

LEMMA KilledLeaves == ASSUME FitInv, RestInv, NEW g, NEW c, Killed(g, c) PROVE RestInv' /\ Leaves
<1>1. w.state = "middle" /\ w' = [w EXCEPT !.state = "killed"]
      /\ maxbits' = maxbits /\ r' = r /\ chunk' = chunk /\ count' = count
  BY Zenon DEF Killed
<1>2. DOMAIN w = WriterFields BY Fields, Zenon DEF FitInv, WriterFits
<1>3. w'.state = "killed" /\ w'.group = w.group BY <1>1, <1>2, SMT DEF WriterFields
<1>4. w'.state \in {"start", "middle", "closed", "killed"} BY <1>3, SMT
<1>5. RestInv' BY <1>1, <1>3, <1>4, WriterRest, Zenon DEF RestInv
<1>6. Leaves BY <1>1, <1>3, SMT DEF Leaves
<1>. QED BY <1>5, <1>6

LEMMA CloseEmptyLeaves == ASSUME FitInv, RestInv, CloseEmpty PROVE RestInv' /\ Leaves
<1>1. w.state = "start" /\ w' = [w EXCEPT !.state = "closed"]
      /\ maxbits' = maxbits /\ r' = r /\ chunk' = chunk /\ count' = count
  BY Zenon DEF CloseEmpty
<1>2. DOMAIN w = WriterFields BY Fields, Zenon DEF FitInv, WriterFits
<1>3. w'.state = "closed" /\ w'.group = w.group BY <1>1, <1>2, SMT DEF WriterFields
<1>4. w'.state \in {"start", "middle", "closed", "killed"} BY <1>3, SMT
<1>5. RestInv' BY <1>1, <1>3, <1>4, WriterRest, Zenon DEF RestInv
<1>6. Leaves BY <1>1, <1>3, SMT DEF Leaves
<1>. QED BY <1>5, <1>6
-----------------------------------------------------------------------------
(* The start: nothing has been given, sent or read.                        *)

LEMMA StartSound == ASSUME maxbits \in 1..BITS PROVE Sound(maxbits, Start)
<1>. DEFINE zero == [c \in Codes |-> 0]
<1>1. /\ 2^BITS \in Nat /\ Letters \in Nat /\ Letters > 0 /\ CLEAR = Letters /\ FIRST = Letters + 1
      /\ FIRST < 2^BITS /\ Codes = 0..(2^BITS - 1) /\ Bytes = 0..(Letters - 1)
  BY CodesFacts
<1>2. 0 \in Codes /\ 0 # CLEAR /\ 0 \in Bytes BY <1>1, SMT
<1>3. Chained(zero, zero)
  <2>1. zero \in [Codes -> Codes \ {CLEAR}] /\ zero \in [Codes -> Bytes] BY <1>2
  <2>2. \A c \in Codes : c > CLEAR => zero[c] < c BY <1>1, SMT
  <2>. QED BY <2>1, <2>2, Zenon DEF Chained
<1>. HIDE DEF zero
<1>4. INIT_BITS \in INIT_BITS..BITS BY LzwAssumption, SMT
<1>5. FIRST \in Nat /\ FIRST >= CLEAR /\ FIRST <= FIRST BY <1>1, SMT
<1>6. /\ Start.n_bits = INIT_BITS /\ Start.maxcode = MAXCODE(INIT_BITS) /\ Start.free_ent = FIRST
      /\ Start.clear_flg = FALSE /\ Start.prefix = zero /\ Start.suffix = zero
      /\ Start.oldcode = 0 /\ Start.finchar = 0
  BY SMT DEF Start, zero
<1>. QED BY <1>2, <1>3, <1>4, <1>5, <1>6, Zenon DEF Sound, Width

LEMMA InitChan == Init => ChanInv
<1>. SUFFICES ASSUME Init PROVE ChanInv OBVIOUS
<1>. DEFINE item == [code |-> 0, z |-> Start, text |-> <<>>, group |-> 0, place |-> GroupSize]
            hist == [i \in {0} |-> item]
<1>1. FitInv /\ maxbits \in 1..BITS BY InitFits, Zenon DEF FitInv
<1>2. hist[0] = item OBVIOUS
<1>3. hist[0].z = Start /\ hist[0].text = <<>> /\ hist[0].group = 0 /\ hist[0].place = GroupSize
  BY <1>2, SMT
<1>. HIDE DEF item, hist
<1>4. GroupSize \in 1..GroupSize /\ <<>> \in Seq(Bytes) /\ 0 \in Nat /\ 0 <= 0 /\ 0 \in 0..0
      /\ (1..0 = {}) /\ (0..0 = {0})
  BY LzwAssumption, SMT
<1>5. Sound(maxbits, Start) BY <1>1, StartSound
<1>6. Trace(maxbits, hist, 0)
  <2>1. \A i \in 0..0 : /\ Sound(maxbits, hist[i].z) /\ hist[i].text \in Seq(Bytes)
                       /\ hist[i].group \in Nat /\ hist[i].place \in 1..GroupSize
    BY <1>3, <1>4, <1>5, Zenon
  <2>2. \A i, j \in 0..0 : i <= j => hist[i].group <= hist[j].group BY <1>3, <1>4, Zenon
  <2>3. \A i \in 1..0 : Follows(maxbits, hist[i - 1], hist[i], i) BY <1>4, Zenon
  <2>. QED BY <1>3, <2>1, <2>2, <2>3, Zenon DEF Trace
<1>7. Prefix(<<>>, <<>>) BY SMT DEF Prefix
<1>8. /\ input = <<>> /\ sent = <<>> /\ output = <<>> /\ w.state = "start" /\ w.group = <<>>
      /\ w.free_ent = FIRST /\ w.n_bits = INIT_BITS /\ w.maxcode = MAXCODE(INIT_BITS)
      /\ w.table = NoTable
  BY SMT DEF Init
<1>9. Stream(maxbits, hist, 0, sent, input)
  <2>1. \A i \in 1..Len(sent) : Len(sent[i].codes) <= GroupSize BY <1>8, SMT
  <2>. QED BY <1>3, <1>4, <1>6, <1>7, <1>8, <2>1, Zenon DEF Stream
<1>10. WriterAt(maxbits, hist, 0, w, sent, input)
  <2>1. DOMAIN w.table = {} BY <1>8, SMT DEF NoTable
  <2>. QED BY <1>8, <2>1, Zenon DEF WriterAt
<1>11. ReaderAt(maxbits, hist, 0, r, sent, output)
  <2>. DEFINE zero == [c \in Codes |-> 0]
              max == MAXCODE(INIT_BITS)
  <2>1. r = [state |-> "start", n_bits |-> INIT_BITS, maxcode |-> max, free_ent |-> FIRST,
             clear_flg |-> FALSE, prefix |-> zero, suffix |-> zero, group |-> <<>>,
             next |-> 1, oldcode |-> 0, incode |-> 0, finchar |-> 0, stack |-> <<>>]
    BY Zenon DEF Init
  <2>2. Start = [n_bits |-> INIT_BITS, maxcode |-> max, free_ent |-> FIRST, clear_flg |-> FALSE,
                 prefix |-> zero, suffix |-> zero, oldcode |-> 0, finchar |-> 0]
    BY Zenon DEF Start
  <2>. HIDE DEF zero, max
  <2>3. Core(r) = Start BY <2>1, <2>2, SMT DEF Core
  <2>4. r.state = "start" /\ r.stack = <<>> /\ r.next = 1 /\ r.group = <<>> BY <2>1, SMT
  <2>5. output \o r.stack = <<>> /\ 1 = 0 + 1 /\ 0 <= Len(sent) BY <1>8, <2>4, SMT
  <2>6. r.group = Rest(sent, hist[0].group, hist[0].place) BY <1>3, <2>4, Zenon DEF Rest
  <2>. QED BY <1>3, <1>4, <1>8, <2>3, <2>4, <2>5, <2>6, SMT DEF ReaderAt
<1>12. ChanAt(hist, 0, 0) BY <1>4, <1>9, <1>10, <1>11, Zenon DEF ChanAt
<1>. QED BY <1>12, Zenon DEF ChanInv

LEMMA InitRest == Init => RestInv
<1>. SUFFICES ASSUME Init PROVE RestInv OBVIOUS
<1>1. /\ maxbits \in BitOptions /\ chunk \in Chunks /\ count = 0 /\ w.state = "start" /\ w.group = <<>>
      /\ r.oldcode = 0 /\ r.incode = 0 /\ r.free_ent = FIRST /\ r.next = 1
  BY SMT DEF Init
<1>2. chunk \in Nat BY <1>1, LzwAssumption, Zenon
<1>3. 0 \in 0..chunk /\ <<>> \in Seq(Codes) /\ 1 \in Nat \ {0} BY <1>2, SMT
<1>4. 0 \in Codes /\ FIRST >= CLEAR BY CodesFacts, SMT
<1>5. ReaderTypes(r) BY <1>1, <1>3, <1>4, Zenon DEF ReaderTypes
<1>. QED BY <1>1, <1>3, <1>5, SMT DEF RestInv

-----------------------------------------------------------------------------
(***************************************************************************)
(* The invariant: the codes fit, the reader is somewhere in the history of *)
(* the stream, and the buffers hold what they are made for.                *)
(***************************************************************************)
Inv == FitInv /\ ChanInv /\ RestInv

(* A step of the writer that is given a byte.                              *)
Takes(c) == Fills(w') /\ w.state \in {"start", "middle"} /\ input' = Append(input, c)

LEMMA WriteFirstTakes == ASSUME Inv, NEW c \in Bytes, WriteFirst(c) PROVE Inv' /\ Takes(c)
<1>1. FitInv' /\ ChanInv' BY WriteFirstFits, WriteFirstKeeps, Zenon DEF Inv
<1>2. Fills(w') BY WriteFirstFills, Zenon DEF Inv, RestInv
<1>3. maxbits' = maxbits /\ r' = r /\ chunk' = chunk /\ count' = count /\ w.state = "start" /\ input' = <<c>>
  BY Zenon DEF WriteFirst
<1>4. RestInv' BY <1>2, <1>3, FillsRest, Zenon DEF Inv
<1>5. input = <<>>
  <2>1. PICK hist, n, k : ChanAt(hist, n, k) BY Zenon DEF Inv, ChanInv
  <2>2. WriterAt(maxbits, hist, n, w, sent, input) BY <2>1, Zenon DEF ChanAt
  <2>. QED BY <1>3, <2>2, SMT DEF WriterAt
<1>6. input' = Append(input, c) BY <1>3, <1>5, SMT
<1>. QED BY <1>1, <1>2, <1>3, <1>4, <1>6, Zenon DEF Inv, Takes

LEMMA WriteMatchTakes == ASSUME Inv, NEW c \in Bytes, WriteMatch(c) PROVE Inv' /\ Takes(c)
<1>1. FitInv' /\ ChanInv' BY WriteMatchFits, WriteMatchKeeps, Zenon DEF Inv
<1>2. Fills(w') BY WriteMatchFills, Zenon DEF Inv, RestInv
<1>3. /\ maxbits' = maxbits /\ r' = r /\ chunk' = chunk /\ count' = count /\ w.state = "middle"
      /\ input' = Append(input, c)
  BY Zenon DEF WriteMatch, Extends
<1>4. RestInv' BY <1>2, <1>3, FillsRest, Zenon DEF Inv
<1>. QED BY <1>1, <1>2, <1>3, <1>4, Zenon DEF Inv, Takes

LEMMA WriteNewTakes == ASSUME Inv, NEW c \in Bytes, WriteNew(c) PROVE Inv' /\ Takes(c)
<1>1. FitInv' /\ ChanInv' BY WriteNewFits, WriteNewKeeps, Zenon DEF Inv
<1>2. Fills(w') BY WriteNewFills, Zenon DEF Inv, RestInv
<1>3. /\ maxbits' = maxbits /\ r' = r /\ chunk' = chunk /\ count' = count /\ w.state = "middle"
      /\ input' = Append(input, c)
  BY Zenon DEF WriteNew, Extends
<1>4. RestInv' BY <1>2, <1>3, FillsRest, Zenon DEF Inv
<1>. QED BY <1>1, <1>2, <1>3, <1>4, Zenon DEF Inv, Takes

LEMMA WriteFullTakes ==
  ASSUME Inv, NEW c \in Bytes, NEW worse \in BOOLEAN, WriteFull(c, worse) PROVE Inv' /\ Takes(c)
<1>1. FitInv' /\ ChanInv' BY WriteFullFits, WriteFullKeeps, Zenon DEF Inv
<1>2. Fills(w') BY WriteFullFills, Zenon DEF Inv, RestInv
<1>3. /\ maxbits' = maxbits /\ r' = r /\ chunk' = chunk /\ count' = count /\ w.state = "middle"
      /\ input' = Append(input, c)
  BY Zenon DEF WriteFull, Extends
<1>4. RestInv' BY <1>2, <1>3, FillsRest, Zenon DEF Inv
<1>. QED BY <1>1, <1>2, <1>3, <1>4, Zenon DEF Inv, Takes

(* What a step of either side is for the channel.                          *)
WriterStep ==
  /\ r' = r /\ output' = output
  /\ (\E c \in Bytes : Takes(c)) \/ (Leaves /\ input' = input)
ReaderStep == w' = w /\ input' = input /\ (Gives \/ Stops \/ Prepares)

LEMMA WriterKeeps == ASSUME Inv, Writer PROVE Inv' /\ WriterStep
<1>1. CASE \E c \in Bytes : WriteFirst(c) \/ WriteMatch(c) \/ WriteNew(c)
  <2>1. PICK c \in Bytes : WriteFirst(c) \/ WriteMatch(c) \/ WriteNew(c) BY <1>1
  <2>2. Inv' /\ Takes(c) BY <2>1, WriteFirstTakes, WriteMatchTakes, WriteNewTakes, Zenon
  <2>3. r' = r /\ output' = output BY <2>1, Zenon DEF WriteFirst, WriteMatch, WriteNew, Extends
  <2>. QED BY <2>2, <2>3, Zenon DEF WriterStep
<1>2. CASE \E c \in Bytes, worse \in BOOLEAN : WriteFull(c, worse)
  <2>1. PICK c \in Bytes, worse \in BOOLEAN : WriteFull(c, worse) BY <1>2
  <2>2. Inv' /\ Takes(c) BY <2>1, WriteFullTakes, Zenon
  <2>3. r' = r /\ output' = output BY <2>1, Zenon DEF WriteFull, Extends
  <2>. QED BY <2>2, <2>3, Zenon DEF WriterStep
<1>3. CASE \E g \in 0..Len(sent), c \in 0..GroupSize : Killed(g, c)
  <2>1. PICK g \in 0..Len(sent), c \in 0..GroupSize : Killed(g, c) BY <1>3
  <2>2. FitInv' /\ ChanInv' /\ RestInv' /\ Leaves
    BY <2>1, KilledFits, KilledKeeps, KilledLeaves, Zenon DEF Inv
  <2>3. r' = r /\ output' = output /\ input' = input BY <2>1, Zenon DEF Killed
  <2>. QED BY <2>2, <2>3, Zenon DEF WriterStep, Inv
<1>4. CASE Close
  <2>1. FitInv' /\ ChanInv' /\ RestInv' /\ Leaves BY <1>4, CloseFits, CloseKeeps, CloseLeaves, Zenon DEF Inv
  <2>2. r' = r /\ output' = output /\ input' = input BY <1>4, Zenon DEF Close
  <2>. QED BY <2>1, <2>2, Zenon DEF WriterStep, Inv
<1>5. CASE CloseEmpty
  <2>1. FitInv' /\ ChanInv' /\ RestInv' /\ Leaves
    BY <1>5, CloseEmptyFits, CloseEmptyKeeps, CloseEmptyLeaves, Zenon DEF Inv
  <2>2. r' = r /\ output' = output /\ input' = input BY <1>5, Zenon DEF CloseEmpty
  <2>. QED BY <2>1, <2>2, Zenon DEF WriterStep, Inv
<1>. QED BY <1>1, <1>2, <1>3, <1>4, <1>5, Zenon DEF Writer

LEMMA Same ==
  ASSUME Inv, UNCHANGED <<maxbits, input, w, sent, r, output>> PROVE FitInv' /\ ChanInv' /\ Prepares
<1>1. UNCHANGED <<maxbits, w, sent, r>> /\ r' = r /\ output' = output OBVIOUS
<1>2. FitInv' BY <1>1, FitSame, Zenon DEF Inv
<1>3. ChanInv' BY ChanSame, Zenon DEF Inv
<1>. QED BY <1>1, <1>2, <1>3, Zenon DEF Prepares

LEMMA ReaderKeeps == ASSUME Inv, Reader PROVE Inv' /\ ReaderStep
<1>1. CASE ReadHeaderFails
  <2>1. FitInv' /\ ChanInv' /\ RestInv' /\ Stops
    BY <1>1, ReadHeaderFailsFits, ReadHeaderFailsKeeps, ReadHeaderFailsTypes, Zenon DEF Inv
  <2>2. w' = w /\ input' = input BY <1>1, Zenon DEF ReadHeaderFails
  <2>. QED BY <2>1, <2>2, Zenon DEF ReaderStep, Inv
<1>2. CASE ReadFirst
  <2>1. FitInv' /\ ChanInv' /\ RestInv' /\ (Gives \/ Stops)
    BY <1>2, ReadFirstFits, ReadFirstKeeps, ReadFirstTypes, Zenon DEF Inv
  <2>2. w' = w /\ input' = input BY <1>2, Zenon DEF ReadFirst
  <2>. QED BY <2>1, <2>2, Zenon DEF ReaderStep, Inv
<1>3. CASE ReadEnd
  <2>1. FitInv' /\ ChanInv' /\ RestInv' /\ Stops
    BY <1>3, ReadEndFits, ReadEndKeeps, ReadEndTypes, Zenon DEF Inv
  <2>2. w' = w /\ input' = input BY <1>3, Zenon DEF ReadEnd
  <2>. QED BY <2>1, <2>2, Zenon DEF ReaderStep, Inv
<1>4. CASE ReadClear
  <2>1. FitInv' /\ ChanInv' /\ RestInv' /\ Prepares
    BY <1>4, ReadClearFits, ReadClearKeeps, ReadClearTypes, Zenon DEF Inv
  <2>2. w' = w /\ input' = input BY <1>4, Zenon DEF ReadClear
  <2>. QED BY <2>1, <2>2, Zenon DEF ReaderStep, Inv
<1>5. CASE ReadCode
  <2>1. FitInv' /\ ChanInv' /\ RestInv' /\ Prepares
    BY <1>5, ReadCodeFits, ReadCodeKeeps, ReadCodeTypes, Zenon DEF Inv
  <2>2. w' = w /\ input' = input BY <1>5, Zenon DEF ReadCode
  <2>. QED BY <2>1, <2>2, Zenon DEF ReaderStep, Inv
<1>6. CASE Deliver
  <2>1. FitInv' /\ ChanInv' /\ RestInv' /\ Gives
    BY <1>6, DeliverFits, DeliverKeeps, DeliverTypes, Zenon DEF Inv
  <2>2. w' = w /\ input' = input BY <1>6, Zenon DEF Deliver
  <2>. QED BY <2>1, <2>2, Zenon DEF ReaderStep, Inv
<1>7. CASE NextCall
  <2>1. UNCHANGED <<maxbits, input, w, sent, r, output>> BY <1>7, Zenon DEF NextCall
  <2>2. FitInv' /\ ChanInv' /\ Prepares BY <2>1, Same
  <2>3. RestInv' BY <1>7, NextCallTypes, Zenon DEF Inv
  <2>4. w' = w /\ input' = input BY <2>1
  <2>. QED BY <2>2, <2>3, <2>4, Zenon DEF ReaderStep, Inv
<1>. QED BY <1>1, <1>2, <1>3, <1>4, <1>5, <1>6, <1>7, Zenon DEF Reader

LEMMA StutterKeeps == ASSUME Inv, Done \/ UNCHANGED vars PROVE Inv' /\ ReaderStep
<1>1. UNCHANGED vars BY Zenon DEF Done
<1>2. UNCHANGED <<maxbits, input, w, sent, r, output>> /\ chunk' = chunk /\ count' = count
  BY <1>1, SMT DEF vars
<1>3. FitInv' /\ ChanInv' /\ Prepares BY <1>2, Same
<1>4. maxbits' = maxbits /\ w' = w /\ r' = r /\ input' = input BY <1>2
<1>5. RestInv' BY <1>2, <1>4, ReaderRest, Zenon DEF Inv, RestInv
<1>. QED BY <1>3, <1>4, <1>5, Zenon DEF ReaderStep, Inv

LEMMA InvNext == Inv /\ [Next]_vars => Inv' /\ (WriterStep \/ ReaderStep)
BY WriterKeeps, ReaderKeeps, StutterKeeps, Zenon DEF Next

LEMMA InvAlways == Spec => []Inv
<1>1. Init => Inv BY InitFits, InitChan, InitRest, Zenon DEF Inv
<1>2. Inv /\ [Next]_vars => Inv' BY InvNext
<1>. QED BY <1>1, <1>2, PTL DEF Spec

(***************************************************************************)
(* Type correctness of both sides: no code is given out that codetab has   *)
(* no room for, and there are only bytes on the reader's stack.            *)
(***************************************************************************)
THEOREM LzwTypeCorrect == Spec => []TypeOK
<1>1. Inv => TypeOK
  <2>. SUFFICES ASSUME Inv PROVE TypeOK OBVIOUS
  <2>1. FitInv /\ RestInv /\ maxbits \in 1..BITS BY Zenon DEF Inv, FitInv
  <2>2. PICK hist, n, k : ChanAt(hist, n, k) BY Zenon DEF Inv, ChanInv
  <2>3. input \in Seq(Bytes) /\ output \in Seq(Bytes) BY <2>2, Zenon DEF ChanAt, Stream, ReaderAt
  <2>4. output \in Seq(Bytes \cup {JUNK}) BY <2>3, SMT
  <2>5. r.state \in {"start", "middle", "eof", "error"} /\ r.stack \in Seq(Bytes)
    <3>1. ReaderAt(maxbits, hist, k, r, sent, output) BY <2>2, Zenon DEF ChanAt
    <3>2. <<>> \in Seq(Bytes) BY SMT
    <3>3. r.state \in {"start", "middle", "eof", "error"} BY <3>1, Zenon DEF ReaderAt
    <3>4. CASE r.state \in {"start", "middle"} BY <3>1, <3>3, <3>4, Zenon DEF ReaderAt
    <3>5. CASE r.state \in {"eof", "error"}
      <4>1. r.stack = <<>> BY <3>1, <3>5, Zenon DEF ReaderAt
      <4>. QED BY <3>2, <3>3, <4>1
    <3>. QED BY <3>3, <3>4, <3>5
  <2>6. WriterFits(w, sent) /\ ReaderFits(r) BY <2>1, Zenon DEF FitInv
  <2>7. ASSUME NEW z, WidthInv(z), z.free_ent >= CLEAR PROVE Types(z)
    <3>1. z.n_bits \in INIT_BITS..BITS /\ z.clear_flg \in BOOLEAN BY <2>7, Zenon DEF WidthInv
    <3>2. z.n_bits \in Nat /\ z.n_bits \in 0..BITS /\ INIT_BITS \in 0..BITS BY <3>1, LzwAssumption, SMT
    <3>3. 2^maxbits \in Nat /\ 2^maxbits <= 2^BITS BY <2>1, PowerBound
    <3>4. z.maxcode \in Nat
      <4>1. ASSUME NEW m \in INIT_BITS..BITS PROVE MAXCODE(m) \in Nat
        <5>1. FIRST \in Nat /\ FIRST < 2^m /\ 2^m \in Nat BY FirstFits
        <5>. QED BY <5>1, SMT DEF MAXCODE
      <4>2. INIT_BITS \in INIT_BITS..BITS BY LzwAssumption, SMT
      <4>3. maxmaxcode \in Nat BY <3>3 DEF maxmaxcode
      <4>. QED BY <2>7, <3>1, <4>1, <4>2, <4>3, Zenon DEF WidthInv
    <3>5. z.free_ent \in CLEAR..2^BITS
      <4>1. z.free_ent \in Nat /\ (z.free_ent <= FIRST \/ z.free_ent <= 2^maxbits)
        BY <2>7, Zenon DEF WidthInv, maxmaxcode
      <4>2. 2^BITS \in Nat /\ CLEAR \in Nat /\ FIRST \in Nat /\ FIRST < 2^BITS BY CodesFacts, SMT
      <4>. QED BY <2>7, <3>3, <4>1, <4>2, SMT
    <3>. QED BY <3>1, <3>2, <3>4, <3>5, Zenon DEF Types
  <2>8. Types(w)
    <3>1. WidthInv(w) /\ w.free_ent >= FIRST BY <2>6, Zenon DEF WriterFits
    <3>2. w.free_ent \in Nat BY <3>1, Zenon DEF WidthInv
    <3>3. w.free_ent >= CLEAR BY <3>1, <3>2, CodesFacts, SMT
    <3>. QED BY <2>7, <3>1, <3>3
  <2>9. Types(r) BY <2>1, <2>6, <2>7, Zenon DEF ReaderFits, RestInv, ReaderTypes
  <2>10. w.ent \in Codes
    <3>1. w.ent \in Nat /\ w.ent < w.free_ent BY <2>6, Zenon DEF WriterFits
    <3>2. w.free_ent \in CLEAR..2^BITS BY <2>8, Zenon DEF Types
    <3>. QED BY <3>1, <3>2, CodesFacts, SMT
  <2>11. {r.oldcode, r.incode} \subseteq Codes /\ r.next \in Nat \ {0}
    BY <2>1, Zenon DEF RestInv, ReaderTypes
  <2>12. /\ maxbits \in BitOptions /\ chunk \in Chunks /\ count \in 0..chunk
         /\ w.state \in {"start", "middle", "closed", "killed"} /\ w.group \in Seq(Codes)
    BY <2>1, Zenon DEF RestInv
  <2>. QED BY <2>3, <2>4, <2>5, <2>8, <2>9, <2>10, <2>11, <2>12, Zenon DEF TypeOK
<1>. QED BY <1>1, InvAlways, PTL

-----------------------------------------------------------------------------
(* The steps of the channel.                                               *)
LEMMA InitChannel == Init => channel!Init
<1>. SUFFICES ASSUME Init PROVE channel!Init OBVIOUS
<1>1. input = <<>> /\ output = <<>> /\ w.state = "start" /\ r.state = "start" BY SMT DEF Init
<1>2. w.state \notin {"closed", "killed"} /\ (r.state \in {"eof", "error"}) = FALSE BY <1>1, SMT
<1>. QED BY <1>1, <1>2, SMT DEF channel!Init

LEMMA WriterImplements == ASSUME Inv, WriterStep PROVE [channel!Next]_channel!vars
<1>1. r' = r /\ output' = output /\ ((r.state \in {"eof", "error"})' = (r.state \in {"eof", "error"}))
  BY Zenon DEF WriterStep
<1>2. CASE \E c \in Bytes : Takes(c)
  <2>1. PICK c \in Bytes : Takes(c) BY <1>2
  <2>2. /\ w.state \in {"start", "middle"} /\ w'.state = "middle" /\ input' = Append(input, c)
    BY <2>1, Zenon DEF Takes, Fills
  <2>3. w.state \notin {"closed", "killed"} /\ w'.state \notin {"closed", "killed"} BY <2>2, SMT
  <2>4. channel!Give BY <1>1, <2>2, <2>3, SMT DEF channel!Give
  <2>. QED BY <2>4, Zenon DEF channel!Next
<1>3. CASE Leaves /\ input' = input
  <2>1. w.state \in {"start", "middle"} /\ w'.state \in {"closed", "killed"} BY <1>3, Zenon DEF Leaves
  <2>2. w.state \notin {"closed", "killed"} BY <2>1, SMT
  <2>3. channel!Leave BY <1>1, <1>3, <2>1, <2>2, SMT DEF channel!Leave
  <2>. QED BY <2>3, Zenon DEF channel!Next
<1>. QED BY <1>2, <1>3, Zenon DEF WriterStep

LEMMA ReaderImplements == ASSUME Inv, ReaderStep PROVE [channel!Next]_channel!vars
<1>1. w' = w /\ input' = input BY Zenon DEF ReaderStep
<1>2. CASE Gives
  <2>1. channel!Deliver BY <1>1, <1>2, SMT DEF channel!Deliver, Gives
  <2>. QED BY <2>1, Zenon DEF channel!Next
<1>3. CASE Stops
  <2>1. channel!End BY <1>1, <1>3, SMT DEF channel!End, Stops
  <2>. QED BY <2>1, Zenon DEF channel!Next
<1>4. CASE Prepares
  <2>1. UNCHANGED channel!vars BY <1>1, <1>4, SMT DEF channel!vars, Prepares
  <2>. QED BY <2>1
<1>. QED BY <1>2, <1>3, <1>4, Zenon DEF ReaderStep

(***************************************************************************)
(* The round trip, for any data, any number of letters, any -b and any     *)
(* sizes of group and buffer: what compress_zread() has given back is at   *)
(* every moment the beginning of what compress_zwrite() was given, byte by *)
(* byte, across every widening, every clearing of the table and every      *)
(* KwKwK string; and when it reports the end, that is all of it if the     *)
(* writer has closed the stream.  A writer that is killed cuts the stream  *)
(* off, never garbles it (zopen.cc:235-353, 415-449, 467-619).             *)
(***************************************************************************)
THEOREM DecodesWhatWasCoded == Spec => ImplementsChannel
<1>1. Init => channel!Init BY InitChannel
<1>2. Inv /\ [Next]_vars => [channel!Next]_channel!vars
  BY InvNext, WriterImplements, ReaderImplements, Zenon
<1>. QED BY <1>1, <1>2, InvAlways, PTL DEF Spec, ImplementsChannel, channel!Spec
=============================================================================
