------------------------------- MODULE UrlInfo -------------------------------
(***************************************************************************)
(* IpCamPeer::getUrlInfo: host, port and path of a URL, by splitting it at *)
(* ":" and "/".  A URL is a scheme and a sequence of characters of four    *)
(* kinds: letters, digits, ":" and "/".  The machine types every URL up to *)
(* a length, one character after the other.                                *)
(***************************************************************************)
EXTENDS Naturals, Sequences, SequencesExt

CONSTANT MaxLength      \* bound on the characters after the scheme

ASSUME LengthAssumption == MaxLength \in Nat

VARIABLES scheme, rest

vars == <<scheme, rest>>

Chars == {"a", "8", ":", "/"}
Schemes == {"http://", "https://", "rtsp://"}
NoHost == [ip |-> <<>>, port |-> <<>>, path |-> <<>>]

Init == scheme \in Schemes /\ rest = <<>>

Type(c) ==
    /\ Len(rest) < MaxLength
    /\ rest' = Append(rest, c)
    /\ UNCHANGED scheme

Next == \E c \in Chars : Type(c)

Spec == Init /\ [][Next]_vars

-----------------------------------------------------------------------------
(* The code *)

\* What is before the first c, and what is after it (splitFirst).
SplitFirst(s, c) ==
    IF Contains(s, c)
    THEN LET i == SelectInSeq(s, LAMBDA x : x = c)
         IN  [first |-> SubSeq(s, 1, i - 1), second |-> SubSeq(s, i + 1, Len(s))]
    ELSE [first |-> s, second |-> <<>>]

\* getNumber takes the digits a text begins with; without any it is 0.
Zero == <<"0">>
Number(s) ==
    LET i == SelectInSeq(s, LAMBDA x : x # "8")
    IN  IF s = <<>> \/ i = 1 THEN Zero ELSE IF i = 0 THEN s ELSE SubSeq(s, 1, i - 1)

DefaultPort == IF scheme = "https://" THEN <<"443">> ELSE <<"80">>

HostAndPort_AnyColon ==
    LET parts == SplitFirst(rest, ":")
    IN  IF parts.second = <<>>
        THEN [ip |-> SplitFirst(parts.first, "/").first, port |-> DefaultPort]
        ELSE [ip |-> parts.first, port |-> Number(SplitFirst(parts.second, "/").first)]

\* A ":" counts only before the first "/".
HostAndPort ==
    LET parts == SplitFirst(rest, ":")
    IN  IF parts.second = <<>> \/ Contains(parts.first, "/")
        THEN [ip |-> SplitFirst(parts.first, "/").first, port |-> DefaultPort]
        ELSE [ip |-> parts.first, port |-> Number(SplitFirst(parts.second, "/").first)]

SchemeLength == IF scheme = "https://" THEN 8 ELSE 7

GetUrlInfo_AnyScheme ==
    [ip |-> HostAndPort.ip, port |-> HostAndPort.port,
     path |-> <<"/">> \o SplitFirst(rest, "/").second]

\* A URL of up to eight characters or of another scheme has no host.
GetUrlInfo ==
    IF SchemeLength + Len(rest) > 8 /\ scheme # "rtsp://"
    THEN [ip |-> HostAndPort.ip, port |-> HostAndPort.port,
          path |-> <<"/">> \o SplitFirst(rest, "/").second]
    ELSE NoHost

-----------------------------------------------------------------------------
(* The definition of a URL *)

Prefix(s, n) == SubSeq(s, 1, n)
Suffix(s, n) == SubSeq(s, n + 1, Len(s))

\* The authority ends where the path begins; the port is what follows the
\* first ":" in it.
IsUrl(authority, path) ==
    /\ rest = authority \o path
    /\ ~Contains(authority, "/")
    /\ path = <<>> \/ path[1] = "/"

IsAuthority(authority, host, port) ==
    /\ ~Contains(host, ":")
    /\ \/ authority = host /\ port = <<>>
       \/ authority = host \o <<":">> \o port

\* Of every text of one of the two schemes, of the four kinds of characters (no
\* user, no IPv6 address) and longer than eight characters,
\* getUrlInfo finds the host, the path ("/" if there is none) and the port,
\* which is the scheme's when none is given.  A ":" with no port after it but
\* with a path gives port 0.
ParsesUrls ==
    (scheme # "rtsp://" /\ SchemeLength + Len(rest) > 8) =>
        \E i \in 0 .. Len(rest), j \in 0 .. Len(rest), k \in 0 .. 1 :
            LET authority == Prefix(rest, i)
                path == Suffix(rest, i)
                host == Prefix(authority, j)
                port == Suffix(authority, j + k)
            IN  /\ IsUrl(authority, path) /\ j <= i /\ IsAuthority(authority, host, port)
                /\ GetUrlInfo.ip = host
                /\ GetUrlInfo.path = IF path = <<>> THEN <<"/">> ELSE path
                /\ GetUrlInfo.port =
                      IF port # <<>> THEN Number(port)
                      ELSE IF Contains(authority, ":") /\ path # <<>> THEN Zero ELSE DefaultPort

\* The peer is left without a host, which is what the requests test before they
\* connect, by a text of another scheme, by one whose host is empty, and by every
\* text of up to eight characters ("http://a"); and by no other text.
OthersHaveNoHost ==
    GetUrlInfo.ip = <<>> <=>
        scheme = "rtsp://" \/ SchemeLength + Len(rest) <= 8 \/ rest[1] \in {":", "/"}
=============================================================================
