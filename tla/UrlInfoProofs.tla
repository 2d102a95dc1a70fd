----------------------------- MODULE UrlInfoProofs -----------------------------
(***************************************************************************)
(* getUrlInfo against the definition of a URL, for a text of any length.   *)
(* A text is cut in front of the first "/" and of the first ":"; which of  *)
(* the two comes first decides everything getUrlInfo returns.              *)
(***************************************************************************)
EXTENDS UrlInfo, SequenceTheorems, WellFoundedInduction, TLAPS

TypeOK == scheme \in Schemes /\ rest \in Seq(Chars)

\* i characters of s come before the first c.
Before(s, c, i) ==
    /\ i \in 0 .. Len(s)
    /\ \A j \in 1 .. i : s[j] # c
    /\ i < Len(s) => s[i + 1] = c

-----------------------------------------------------------------------------
(* Sequences *)

LEMMA MinIsLeast ==
    ASSUME NEW S \in SUBSET Nat, S # {}
    PROVE  Min(S) \in S /\ \A y \in S : Min(S) <= y
<1> DEFINE R == OpToRel(<, Nat)
<1>1. \E x \in S : \A y \in S : ~ (<<y, x>> \in R)
    BY NatLessThanWellFounded, WFMin
<1>2. ASSUME NEW x \in Nat, NEW y \in Nat, ~ (<<y, x>> \in R)
      PROVE  x <= y
    <2>1. <<y, x>>[1] = y /\ <<y, x>>[2] = x /\ <<y, x>> \in Nat \X Nat
        OBVIOUS
    <2>2. y < x => <<y, x>> \in R
        BY <2>1, Zenon DEF OpToRel
    <2> HIDE DEF R
    <2> QED
        BY <1>2, <2>2
<1> HIDE DEF R
<1>3. PICK x \in S : \A y \in S : x <= y
    BY <1>1, <1>2
<1> QED
    BY <1>3 DEF Min

\* A text has a first c, or none: then all of it comes before.
LEMMA SomeBefore ==
    ASSUME NEW s \in Seq(Chars), NEW c
    PROVE  \E i \in 0 .. Len(s) : Before(s, c, i)
<1> DEFINE I == {i \in 1 .. Len(s) : s[i] = c}
<1>1. CASE I = {}
    BY <1>1 DEF Before
<1>2. CASE I # {}
    <2>1. Min(I) \in I /\ \A y \in I : Min(I) <= y
        <3>1. I \in SUBSET Nat
            OBVIOUS
        <3> QED
            BY <1>2, <3>1, MinIsLeast
    <2> HIDE DEF I
    <2>2. Min(I) \in 1 .. Len(s) /\ s[Min(I)] = c
        BY <2>1 DEF I
    <2>3. \A j \in 1 .. Min(I) - 1 : s[j] # c
        BY <2>1, <2>2 DEF I
    <2>4. Before(s, c, Min(I) - 1)
        BY <2>2, <2>3 DEF Before
    <2> QED
        BY <2>2, <2>4
<1> QED
    BY <1>1, <1>2

\* splitFirst cuts there.
LEMMA SplitsBefore ==
    ASSUME NEW s \in Seq(Chars), NEW c, NEW i, Before(s, c, i)
    PROVE  SplitFirst(s, c) = [first |-> SubSeq(s, 1, i), second |-> SubSeq(s, i + 2, Len(s))]
<1>1. i \in 0 .. Len(s)
    BY DEF Before
<1>2. CASE i = Len(s)
    <2>1. ~Contains(s, c)
        BY <1>2 DEF Before, Contains
    <2>2. SubSeq(s, 1, i) = s /\ SubSeq(s, i + 2, Len(s)) = <<>>
        BY <1>2, SubSeqFull, SubSeqEmpty
    <2> QED
        BY <2>1, <2>2 DEF SplitFirst
<1>3. CASE i < Len(s)
    <2> DEFINE I == {j \in 1 .. Len(s) : s[j] = c}
    <2>1. i + 1 \in I /\ \A j \in I : i + 1 <= j
        BY <1>1, <1>3 DEF Before
    <2>2. Contains(s, c)
        BY <2>1 DEF Contains
    <2>3. SelectInSeq(s, LAMBDA x : x = c) = Min(I)
        BY <2>1 DEF SelectInSeq
    <2>4. Min(I) \in I /\ \A j \in I : Min(I) <= j
        <3>1. I \in SUBSET Nat /\ I # {}
            BY <2>1
        <3> QED
            BY <3>1, MinIsLeast
    <2>5. Min(I) = i + 1
        BY <2>1, <2>4, <1>1
    <2>6. (i + 1) - 1 = i /\ (i + 1) + 1 = i + 2
        BY <1>1
    <2> QED
        BY <2>2, <2>3, <2>5, <2>6 DEF SplitFirst
<1> QED
    BY <1>1, <1>2, <1>3

\* A part of a part, counted from the start of the whole.
LEMMA PartOfPart ==
    ASSUME NEW s \in Seq(Chars), NEW m \in 1 .. Len(s) + 1, NEW n \in m - 1 .. Len(s),
           NEW a \in 1 .. n - m + 2, NEW b \in a - 1 .. n - m + 1
    PROVE  SubSeq(SubSeq(s, m, n), a, b) = SubSeq(s, m + a - 1, m + b - 1)
<1> DEFINE t == SubSeq(s, m, n)
           u == SubSeq(t, a, b)
           v == SubSeq(s, m + a - 1, m + b - 1)
<1>1. t \in Seq(Chars) /\ Len(t) = n - m + 1 /\ \A i \in 1 .. n - m + 1 : t[i] = s[m + i - 1]
    BY SubSeqProperties, ElementOfSeq
<1>2. u \in Seq(Chars) /\ Len(u) = b - a + 1 /\ \A i \in 1 .. b - a + 1 : u[i] = t[a + i - 1]
    <2> HIDE DEF t
    <2> QED
        BY <1>1, SubSeqProperties, ElementOfSeq
<1>3. v \in Seq(Chars) /\ Len(v) = b - a + 1
      /\ \A i \in 1 .. b - a + 1 : v[i] = s[m + a - 1 + i - 1]
    BY SubSeqProperties, ElementOfSeq
<1>4. \A i \in 1 .. b - a + 1 : u[i] = v[i]
    <2> HIDE DEF t, u, v
    <2> QED
        BY <1>1, <1>2, <1>3
<1> QED
    <2> HIDE DEF u, v
    <2>1. u = v
        BY <1>2, <1>3, <1>4, SeqEqual
    <2> QED
        BY <2>1 DEF u, v

\* What comes before c in the whole also does in a beginning that holds it.
LEMMA BeforeInPart ==
    ASSUME NEW s \in Seq(Chars), NEW c, NEW i, Before(s, c, i),
           NEW m \in 1 .. i + 1, NEW n \in i .. Len(s)
    PROVE  /\ SubSeq(s, m, n) \in Seq(Chars)
           /\ Before(SubSeq(s, m, n), c, i - m + 1)
<1> DEFINE t == SubSeq(s, m, n)
<1>1. i \in 0 .. Len(s)
    BY DEF Before
<1>2. t \in Seq(Chars) /\ Len(t) = n - m + 1 /\ \A j \in 1 .. n - m + 1 : t[j] = s[m + j - 1]
    BY <1>1, SubSeqProperties, ElementOfSeq
<1> HIDE DEF t
<1>3. ASSUME NEW j \in 1 .. i - m + 1
      PROVE  t[j] # c
    <2>1. j \in 1 .. n - m + 1 /\ m + j - 1 \in 1 .. i
        BY <1>1
    <2>2. t[j] = s[m + j - 1]
        BY <2>1, <1>2
    <2>3. s[m + j - 1] # c
        BY <2>1 DEF Before
    <2> QED
        BY <2>2, <2>3
<1>4. i - m + 1 < Len(t) => t[(i - m + 1) + 1] = c
    <2> SUFFICES ASSUME i < n
                 PROVE  t[i - m + 2] = c
        BY <1>1, <1>2
    <2>1. t[i - m + 2] = s[i + 1]
        BY <1>1, <1>2
    <2> QED
        BY <2>1, <1>1 DEF Before
<1>5. Before(t, c, i - m + 1)
    BY <1>1, <1>2, <1>3, <1>4 DEF Before
<1> QED
    BY <1>2, <1>5 DEF t

-----------------------------------------------------------------------------
(* What getUrlInfo returns *)

\* A ":" in front of the first "/" ends the host, and the port follows it;
\* otherwise the host goes up to the "/".
LEMMA HostAndPortIs ==
    ASSUME rest \in Seq(Chars), NEW i, Before(rest, "/", i), NEW c, Before(rest, ":", c)
    PROVE  HostAndPort =
               IF c < i
               THEN [ip |-> SubSeq(rest, 1, c),
                     port |-> IF c + 1 = Len(rest) THEN DefaultPort
                              ELSE Number(SubSeq(rest, c + 2, i))]
               ELSE [ip |-> SubSeq(rest, 1, i), port |-> DefaultPort]
<1> DEFINE first == SubSeq(rest, 1, c)
           second == SubSeq(rest, c + 2, Len(rest))
<1>1. i \in 0 .. Len(rest) /\ c \in 0 .. Len(rest)
    BY DEF Before
<1>2. SplitFirst(rest, ":") = [first |-> first, second |-> second]
    BY SplitsBefore
<1>3. first \in Seq(Chars) /\ Len(first) = c /\ \A j \in 1 .. c : first[j] = rest[j]
    BY <1>1, SubSeqProperties, ElementOfSeq
<1>4. Contains(first, "/") <=> i < c
    <2> HIDE DEF first
    <2>1. CASE i < c
        BY <1>1, <1>3, <2>1 DEF Before, Contains
    <2>2. CASE c <= i
        BY <1>1, <1>3, <2>2 DEF Before, Contains
    <2> QED
        BY <2>1, <2>2, <1>1
<1>5. second = <<>> <=> c + 1 >= Len(rest)
    <2>1. Len(second) = IF c + 2 <= Len(rest) THEN Len(rest) - (c + 2) + 1 ELSE 0
        BY <1>1, SubSeqProperties, ElementOfSeq
    <2>2. c + 1 >= Len(rest) => second = <<>>
        BY <1>1, SubSeqEmpty
    <2>3. Len(<<>>) = 0
        OBVIOUS
    <2> HIDE DEF second
    <2> QED
        BY <2>1, <2>2, <2>3, <1>1
<1>6. CASE c < i
    <2>1. SplitFirst(first, "/").first = first
        <3>1. Before(first, "/", c)
            <4> HIDE DEF first
            <4> QED
                BY <1>1, <1>3, <1>6 DEF Before
        <3>2. SubSeq(first, 1, c) = first
            <4> HIDE DEF first
            <4> QED
                BY <1>3, SubSeqFull
        <3> HIDE DEF first
        <3>3. SplitFirst(first, "/").first = SubSeq(first, 1, c)
            BY <3>1, <1>3, SplitsBefore
        <3> QED
            BY <3>2, <3>3
    <2>2. CASE c + 1 = Len(rest)
        <3> HIDE DEF first, second
        <3>1. HostAndPort = [ip |-> SplitFirst(first, "/").first, port |-> DefaultPort]
            BY <1>2, <1>5, <2>2 DEF HostAndPort
        <3> QED
            BY <3>1, <2>1, <2>2, <1>6 DEF first
    <2>3. CASE c + 1 # Len(rest)
        <3>1. second \in Seq(Chars) /\ Before(second, "/", i - (c + 2) + 1)
            BY <1>1, <1>6, BeforeInPart
        <3>2. SplitFirst(second, "/").first = SubSeq(second, 1, i - (c + 2) + 1)
            <4> HIDE DEF second
            <4> QED
                BY <3>1, SplitsBefore
        <3>3. SubSeq(second, 1, i - (c + 2) + 1) = SubSeq(rest, c + 2, i)
            <4>1. SubSeq(second, 1, i - (c + 2) + 1)
                  = SubSeq(rest, (c + 2) + 1 - 1, (c + 2) + (i - (c + 2) + 1) - 1)
                BY <1>1, <1>6, PartOfPart
            <4>2. (c + 2) + 1 - 1 = c + 2 /\ (c + 2) + (i - (c + 2) + 1) - 1 = i
                BY <1>1
            <4> QED
                BY <4>1, <4>2
        <3>4. second # <<>> /\ ~Contains(first, "/")
            BY <1>1, <1>4, <1>5, <1>6, <2>3
        <3> HIDE DEF first, second
        <3>5. HostAndPort = [ip |-> first, port |-> Number(SplitFirst(second, "/").first)]
            BY <1>2, <3>4 DEF HostAndPort
        <3> QED
            BY <3>2, <3>3, <3>5, <2>3, <1>6 DEF first
    <2> QED
        BY <2>2, <2>3
<1>7. CASE i <= c
    <2>1. SplitFirst(first, "/").first = SubSeq(rest, 1, i)
        <3>1. Before(first, "/", i - 1 + 1)
            BY <1>1, <1>7, BeforeInPart
        <3>2. SplitFirst(first, "/").first = SubSeq(first, 1, i)
            <4>1. Before(first, "/", i)
                BY <3>1, <1>1
            <4> HIDE DEF first
            <4> QED
                BY <4>1, <1>3, SplitsBefore
        <3>3. SubSeq(first, 1, i) = SubSeq(rest, 1 + 1 - 1, 1 + i - 1)
            BY <1>1, <1>7, PartOfPart
        <3>4. 1 + 1 - 1 = 1 /\ 1 + i - 1 = i
            BY <1>1
        <3> QED
            BY <3>2, <3>3, <3>4
    <2>2. second = <<>> \/ Contains(first, "/")
        <3>1. CASE i < c
            BY <3>1, <1>4
        <3>2. CASE i = c
            <4>1. ~ (i < Len(rest))
                BY <3>2 DEF Before
            <4> QED
                BY <4>1, <3>2, <1>1, <1>5
        <3> QED
            BY <3>1, <3>2, <1>1, <1>7
    <2> HIDE DEF first, second
    <2>3. HostAndPort = [ip |-> SplitFirst(first, "/").first, port |-> DefaultPort]
        BY <1>2, <2>2 DEF HostAndPort
    <2>4. ~ (c < i)
        BY <1>1, <1>7
    <2> QED
        BY <2>1, <2>3, <2>4
<1> QED
    BY <1>1, <1>6, <1>7

\* A URL of the two schemes has a path, "/" at least, and the host and the
\* port of its authority.
LEMMA UrlParsed ==
    ASSUME TypeOK PROVE ParsesUrls
<1> SUFFICES ASSUME scheme # "rtsp://", SchemeLength + Len(rest) > 8
             PROVE  ParsesUrls
    BY DEF ParsesUrls
<1>1. PICK i \in 0 .. Len(rest) : Before(rest, "/", i)
    BY SomeBefore DEF TypeOK
<1>2. PICK c \in 0 .. Len(rest) : Before(rest, ":", c)
    BY SomeBefore DEF TypeOK
<1>3. rest \in Seq(Chars) /\ Len(rest) \in Nat
    BY LenProperties DEF TypeOK
<1> DEFINE authority == SubSeq(rest, 1, i)
           path == SubSeq(rest, i + 1, Len(rest))
<1>4. /\ authority \in Seq(Chars) /\ Len(authority) = i
      /\ \A n \in 1 .. i : authority[n] = rest[n]
    BY <1>3, SubSeqProperties, ElementOfSeq
<1>5. /\ path \in Seq(Chars) /\ (path = <<>> <=> i = Len(rest))
      /\ i < Len(rest) => path[1] = "/"
    <2>1. /\ path \in Seq(Chars)
          /\ Len(path) = IF i + 1 <= Len(rest) THEN Len(rest) - (i + 1) + 1 ELSE 0
          /\ \A n \in 1 .. Len(rest) - (i + 1) + 1 : path[n] = rest[(i + 1) + n - 1]
        BY <1>3, SubSeqProperties, ElementOfSeq
    <2>2. i = Len(rest) => path = <<>>
        BY <1>3, SubSeqEmpty
    <2>3. Len(<<>>) = 0
        OBVIOUS
    <2>4. i < Len(rest) => rest[i + 1] = "/"
        BY <1>1 DEF Before
    <2> HIDE DEF path
    <2>5. i < Len(rest) => path[1] = rest[i + 1]
        BY <2>1, <1>3
    <2> QED
        BY <2>1, <2>2, <2>3, <2>4, <2>5, <1>3
<1>6. IsUrl(authority, path)
    <2>1. authority \o path = rest
        <3>1. SubSeq(rest, 1, i) \o SubSeq(rest, i + 1, Len(rest)) = SubSeq(rest, 1, Len(rest))
            <4>1. /\ 1 \in 1 .. Len(rest) + 1 /\ i \in 1 - 1 .. Len(rest)
                  /\ Len(rest) \in i .. Len(rest)
                BY <1>3
            <4> QED
                BY <4>1, <1>3, ConcatAdjacentSubSeq
        <3> QED
            BY <3>1, <1>3, SubSeqFull
    <2> HIDE DEF authority, path
    <2>2. ~Contains(authority, "/")
        BY <1>1, <1>4 DEF Before, Contains
    <2>3. path = <<>> \/ path[1] = "/"
        BY <1>3, <1>5
    <2> QED
        BY <2>1, <2>2, <2>3 DEF IsUrl
<1>7. GetUrlInfo = [ip |-> HostAndPort.ip, port |-> HostAndPort.port,
                    path |-> <<"/">> \o SplitFirst(rest, "/").second]
    BY DEF GetUrlInfo
<1>8. GetUrlInfo.path = IF path = <<>> THEN <<"/">> ELSE path
    <2>1. SplitFirst(rest, "/").second = SubSeq(rest, i + 2, Len(rest))
        <3>1. SplitFirst(rest, "/") = [first |-> SubSeq(rest, 1, i),
                                       second |-> SubSeq(rest, i + 2, Len(rest))]
            BY <1>1, <1>3, SplitsBefore
        <3> QED
            BY <3>1
    <2>2. CASE i = Len(rest)
        <3>1. SubSeq(rest, i + 2, Len(rest)) = <<>>
            BY <2>2, <1>3, SubSeqEmpty
        <3>2. <<"/">> \o <<>> = <<"/">>
            OBVIOUS
        <3> QED
            BY <1>5, <1>7, <2>1, <2>2, <3>1, <3>2
    <2>3. CASE i < Len(rest)
        <3>1. path = <<rest[i + 1]>> \o SubSeq(rest, (i + 1) + 1, Len(rest))
            BY <2>3, <1>3, SubSeqRecursiveFirst
        <3>2. rest[i + 1] = "/" /\ (i + 1) + 1 = i + 2
            BY <2>3, <1>1 DEF Before
        <3>3. path # <<>>
            BY <2>3, <1>5, <1>3
        <3> HIDE DEF path
        <3> QED
            BY <1>7, <2>1, <3>1, <3>2, <3>3
    <2> QED
        BY <2>2, <2>3, <1>3
<1>9. CASE c < i
    <2> DEFINE host == SubSeq(authority, 1, c)
               port == SubSeq(authority, c + 2, i)
    <2>1. host = SubSeq(rest, 1, c)
        <3>1. host = SubSeq(rest, 1 + 1 - 1, 1 + c - 1)
            BY <1>3, <1>9, PartOfPart
        <3>2. 1 + 1 - 1 = 1 /\ 1 + c - 1 = c
            OBVIOUS
        <3> QED
            BY <3>1, <3>2
    <2>2. port = SubSeq(rest, c + 2, i)
        <3>1. port = SubSeq(rest, 1 + (c + 2) - 1, 1 + i - 1)
            BY <1>3, <1>9, PartOfPart
        <3>2. 1 + (c + 2) - 1 = c + 2 /\ 1 + i - 1 = i
            OBVIOUS
        <3> QED
            BY <3>1, <3>2
    <2>3. authority[c + 1] = ":" /\ Contains(authority, ":")
        <3> HIDE DEF authority
        <3> QED
            BY <1>2, <1>3, <1>4, <1>9 DEF Before, Contains
    <2>4. IsAuthority(authority, host, port)
        <3>1. authority = host \o <<":">> \o port
            <4> HIDE DEF authority
            <4>1. SubSeq(authority, 1, c + 1) = host \o <<authority[c + 1]>>
                <5>1. SubSeq(authority, 1, c + 1)
                      = SubSeq(authority, 1, (c + 1) - 1) \o <<authority[c + 1]>>
                    <6>1. 1 \in 1 .. Len(authority) /\ c + 1 \in 1 .. Len(authority)
                        BY <1>3, <1>4, <1>9
                    <6> QED
                        BY <6>1, <1>4, SubSeqRecursiveSecond
                <5> QED
                    BY <5>1
            <4>2. SubSeq(authority, 1, c + 1) \o SubSeq(authority, (c + 1) + 1, i)
                  = SubSeq(authority, 1, i)
                BY <1>3, <1>4, <1>9, ConcatAdjacentSubSeq
            <4>3. SubSeq(authority, 1, i) = authority
                BY <1>4, SubSeqFull
            <4>4. (c + 1) + 1 = c + 2
                OBVIOUS
            <4> QED
                BY <4>1, <4>2, <4>3, <4>4, <2>3
        <3>2. ~Contains(host, ":")
            <4>1. Len(host) = c /\ \A n \in 1 .. c : host[n] = rest[n]
                <5>1. /\ Len(SubSeq(rest, 1, c)) = c
                      /\ \A n \in 1 .. c : SubSeq(rest, 1, c)[n] = rest[n]
                    BY <1>3, SubSeqProperties, ElementOfSeq
                <5> QED
                    BY <2>1, <5>1
            <4> HIDE DEF host
            <4> QED
                BY <4>1, <1>2 DEF Before, Contains
        <3> QED
            BY <3>1, <3>2 DEF IsAuthority
    <2>5. HostAndPort = [ip |-> SubSeq(rest, 1, c),
                         port |-> IF c + 1 = Len(rest) THEN DefaultPort
                                  ELSE Number(SubSeq(rest, c + 2, i))]
        BY <1>1, <1>2, <1>3, <1>9, HostAndPortIs
    <2>6. port = <<>> <=> c + 1 = i
        <3>1. Len(port) = IF c + 2 <= i THEN i - (c + 2) + 1 ELSE 0
            BY <2>2, <1>3, SubSeqProperties, ElementOfSeq
        <3>2. c + 1 = i => port = <<>>
            BY SubSeqEmpty
        <3>3. Len(<<>>) = 0
            OBVIOUS
        <3> HIDE DEF port
        <3> QED
            BY <3>1, <3>2, <3>3, <1>9
    <2>7. GetUrlInfo.port =
              IF port # <<>> THEN Number(port)
              ELSE IF Contains(authority, ":") /\ path # <<>> THEN Zero ELSE DefaultPort
        <3> HIDE DEF authority, path, port
        <3>1. CASE c + 1 = Len(rest)
            BY <3>1, <1>3, <1>5, <1>7, <1>9, <2>3, <2>5, <2>6
        <3>2. CASE c + 1 # Len(rest) /\ c + 1 = i
            <4>1. Number(port) = Zero
                BY <2>6, <3>2 DEF Number
            <4> QED
                BY <3>2, <4>1, <1>3, <1>5, <1>7, <2>2, <2>3, <2>5, <2>6
        <3>3. CASE c + 1 # Len(rest) /\ c + 1 # i
            BY <3>3, <1>7, <2>2, <2>5, <2>6
        <3> QED
            BY <3>1, <3>2, <3>3
    <2>8. /\ Prefix(rest, i) = authority /\ Suffix(rest, i) = path
          /\ Prefix(authority, c) = host /\ Suffix(authority, c + 1) = port
        BY <1>4 DEF Prefix, Suffix
    <2>9. GetUrlInfo.ip = host
        BY <1>7, <2>1, <2>5
    <2> HIDE DEF authority, path, host, port
    <2> QED
        BY <1>3, <1>6, <1>8, <1>9, <2>4, <2>7, <2>8, <2>9 DEF ParsesUrls
<1>10. CASE i <= c
    <2> DEFINE host == SubSeq(authority, 1, i)
               port == SubSeq(authority, i + 1, i)
    <2>1. host = authority /\ port = <<>>
        <3>1. SubSeq(authority, 1, i) = authority
            <4> HIDE DEF authority
            <4> QED
                BY <1>4, SubSeqFull
        <3> QED
            BY <3>1, SubSeqEmpty
    <2>2. ~Contains(authority, ":")
        <3> HIDE DEF authority
        <3> QED
            BY <1>2, <1>3, <1>4, <1>10 DEF Before, Contains
    <2>3. HostAndPort = [ip |-> authority, port |-> DefaultPort]
        BY <1>1, <1>2, <1>3, <1>10, HostAndPortIs
    <2>4. /\ Prefix(rest, i) = authority /\ Suffix(rest, i) = path
          /\ Prefix(authority, i) = host /\ Suffix(authority, i + 0) = port
        BY <1>4 DEF Prefix, Suffix
    <2> HIDE DEF authority, path, host, port
    <2>5. IsAuthority(authority, host, port)
        BY <2>1, <2>2 DEF IsAuthority
    <2>6. GetUrlInfo.ip = host /\ GetUrlInfo.port = DefaultPort
        BY <1>7, <2>1, <2>3
    <2>7. GetUrlInfo.port =
              IF port # <<>> THEN Number(port)
              ELSE IF Contains(authority, ":") /\ path # <<>> THEN Zero ELSE DefaultPort
        BY <2>1, <2>2, <2>6
    <2>8. i <= i /\ 0 \in 0 .. 1
        BY <1>3
    <2> QED
        BY <1>3, <1>6, <1>8, <2>4, <2>5, <2>6, <2>7, <2>8 DEF ParsesUrls
<1> QED
    BY <1>9, <1>10, <1>3

\* A text of another scheme, of up to eight characters, or one that begins with
\* a ":" or a "/", has an empty host, any other has the part before the first of
\* them.
LEMMA NoHostFound ==
    ASSUME TypeOK PROVE OthersHaveNoHost
<1>1. rest \in Seq(Chars) /\ Len(rest) \in Nat
    BY LenProperties DEF TypeOK
<1>2. CASE scheme = "rtsp://"
    BY <1>2 DEF OthersHaveNoHost, GetUrlInfo, NoHost
<1>3. CASE SchemeLength + Len(rest) <= 8
    <2>1. ~ (SchemeLength + Len(rest) > 8)
        BY <1>1, <1>3 DEF SchemeLength
    <2> QED
        BY <2>1, <1>3 DEF OthersHaveNoHost, GetUrlInfo, NoHost
<1>4. CASE scheme # "rtsp://" /\ SchemeLength + Len(rest) > 8
    <2>1. PICK i \in 0 .. Len(rest) : Before(rest, "/", i)
        BY <1>1, SomeBefore
    <2>2. PICK c \in 0 .. Len(rest) : Before(rest, ":", c)
        BY <1>1, SomeBefore
    <2> DEFINE n == IF c < i THEN c ELSE i
    <2>3. n \in 0 .. Len(rest) /\ (n = 0 <=> rest[1] \in {":", "/"})
        <3>1. Len(rest) >= 1
            BY <1>1, <1>4 DEF SchemeLength
        <3> QED
            BY <1>1, <3>1, <2>1, <2>2 DEF Before
    <2>4. HostAndPort.ip = SubSeq(rest, 1, n)
        BY <1>1, <2>1, <2>2, HostAndPortIs
    <2>5. Len(SubSeq(rest, 1, n)) = n
        BY <1>1, <2>3, SubSeqProperties, ElementOfSeq
    <2>6. SubSeq(rest, 1, n) = <<>> <=> n = 0
        <3>1. n = 0 => SubSeq(rest, 1, n) = <<>>
            BY SubSeqEmpty
        <3>2. Len(<<>>) = 0
            OBVIOUS
        <3> HIDE DEF n
        <3> QED
            BY <3>1, <3>2, <2>5
    <2>7. GetUrlInfo.ip = HostAndPort.ip
        BY <1>4 DEF GetUrlInfo
    <2> HIDE DEF n
    <2>8. ~ (SchemeLength + Len(rest) <= 8)
        BY <1>1, <1>4 DEF SchemeLength
    <2> QED
        BY <1>4, <2>3, <2>4, <2>6, <2>7, <2>8 DEF OthersHaveNoHost
<1> QED
    BY <1>1, <1>2, <1>3, <1>4 DEF SchemeLength

-----------------------------------------------------------------------------
(* The theorems *)

\* The texts are texts, of any length the bound allows.
THEOREM TypeCorrect == Spec => []TypeOK
<1>1. Init => TypeOK
    BY EmptySeq DEF Init, TypeOK
<1>2. TypeOK /\ [Next]_vars => TypeOK'
    BY DEF TypeOK, Next, Type, vars
<1> QED
    BY <1>1, <1>2, PTL DEF Spec

\* getUrlInfo finds host, port and path of every text of the two schemes that is
\* longer than eight characters, of any length, over the four kinds of characters.
THEOREM UrlsParsed == Spec => []ParsesUrls
    BY TypeCorrect, UrlParsed, PTL

\* getUrlInfo leaves the host empty for every text that names none, of any
\* length, for the short ones, and for no other.
THEOREM NoHostsInvented == Spec => []OthersHaveNoHost
    BY TypeCorrect, NoHostFound, PTL
=============================================================================
