-------------------------------- MODULE MCPax --------------------------------
EXTENDS Pax

UpTo(n, S) == UNION {[1..k -> S] : k \in 0..n}
With(format, members, padding) == [format |-> format, members |-> members, padding |-> padding]

(* cpio: names of one and of two octets, no name, and whatever is wrong *)
C(name, size, fault) == [name |-> name, size |-> size, fault |-> fault]
Named(s) == Chars(s) \o <<NUL>>
CpioMembers ==
  {C(Named(s), n, "none") : s \in {<<>>, <<1, 2>>}, n \in {0, 2}}
  \cup {C(Named(<<1>>), 1, f) : f \in {"magic", "field", "size"}}
Trailer == C(<<cpio!TRAILER, NUL>>, 0, "none")
CpioArchives ==
  {With("cpio", m, 0) : m \in UpTo(3, CpioMembers)}
  \cup {With("cpio", Append(m, Trailer), p) : m \in UpTo(1, CpioMembers), p \in {1, 3}}
  \cup {With("cpio", <<C(Named(<<1>>), 1, "none"), C(<<cpio!TRAILER>>, 0, "none")>>, 3)}

U(name, prefix, old, type, size, fault) ==
  [name |-> name, prefix |-> prefix, old |-> old, type |-> type, size |-> size, fault |-> fault]
UstarMembers ==
  {U(<<1>>, <<2>>, FALSE, "file", n, "none") : n \in {0, 1, 5, 8}}
  \cup {U(<<1, 8>>, <<>>, old, "file", 0, "none") : old \in BOOLEAN}
  \cup {U(<<1>>, <<>>, FALSE, "dir", n, "none") : n \in {0, 1}}
  \cup {U(<<1>>, <<>>, FALSE, "file", 1, f) : f \in {"cksum", "field", "size"}}
UstarArchives ==
  {With("ustar", m, p) : m \in UpTo(2, UstarMembers), p \in {0, 4}}

Z(sig, name, extra, method, size_u, size_c, stream, desc, crc) ==
  [sig |-> sig, name |-> name, extra |-> extra, comment |-> <<>>, method |-> method,
   size_u |-> size_u, size_c |-> size_c, stream |-> stream, desc |-> desc, crc |-> crc]
ZipMembers ==
  {Z("file", Chars(s), <<>>, 0, n, 0, 0, d, TRUE) : s \in {<<>>, <<1, 2>>}, n \in {0, 2}, d \in BOOLEAN}
  \cup {Z("file", Chars(<<1>>), <<>>, 8, 2 * n, c, n, d, TRUE) : n \in {2, 3}, c \in {3, 4}, d \in BOOLEAN}
  \cup {Z("file", Chars(<<1>>), e, 0, 1, 0, 0, FALSE, TRUE) : e \in {<<1>>, <<4, 3>>, <<2, 5>>, <<3, 2>>}}
  \cup {Z("file", Chars(<<1>>), <<>>, 9, 1, 0, 0, FALSE, TRUE)}
  \cup {Z("file", Chars(<<1>>), <<>>, 0, n, 0, 0, FALSE, FALSE) : n \in {0, 1}}
  \cup {Z("file", Chars(<<1>>), <<>>, 8, 4, 2, 2, FALSE, FALSE)}
  \cup {Z("file", Chars(<<1>>), <<>>, 8, 2, 0, 1, FALSE, TRUE)}
  \cup {Z("bad", <<>>, <<>>, 0, 0, 0, 0, FALSE, TRUE)}
Directory(n) ==
  <<[Z("dir", Chars(<<1>>), <<1>>, 0, 0, 0, 0, FALSE, TRUE) EXCEPT !.comment = Padding(n)],
    [Z("end", <<>>, <<>>, 0, 0, 0, 0, FALSE, TRUE) EXCEPT !.comment = Padding(n)]>>
ZipArchives ==
  {With("zip", m, p) : m \in UpTo(2, ZipMembers), p \in {0, 3}}
  \cup {With("zip", m \o Directory(n), 0) : m \in UpTo(1, ZipMembers), n \in {0, 2}}

MCArchives == CpioArchives \cup UstarArchives \cup ZipArchives \cup {With("pax", <<>>, 1)}
=============================================================================
