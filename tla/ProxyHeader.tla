---------------------------- MODULE ProxyHeader ----------------------------
(***************************************************************************)
(* How proxyme.c reads, understands and rewrites the header of a request.  *)
(* A text is a sequence of words and single characters ("/", ":", SP, CR,  *)
(* LF); pointers into it are positions, 0 is NULL.  Text is divided so     *)
(* that what proxyme.c searches for is always a word of its own, in the    *)
(* middle of a longer word too: X-Forwarded-Host is <<"X-Forwarded-",      *)
(* "Host">>.  No two of these words can overlap, so that a search for the  *)
(* words is the search for the substring.                                  *)
(***************************************************************************)
EXTENDS Integers, SequencesExt

CONSTANTS
  Word,     \* the words proxyme.c does not look for, of two letters or more
  Number    \* the words that are numbers

SP == " "
CR == "\r"
LF == "\n"
Sign == {SP, CR, LF, "/", ":"}
Keyword == {"CONNECT", "GET", "Host", "http", "HTTP"}
Name == Word \cup Number \cup Keyword
Http == <<"http", ":", "/", "/">>

NoPort == ""

ASSUME WordAssumption == (Word \cup Number) \cap (Sign \cup Keyword) = {}
ASSUME NumberAssumption == NoPort \notin Number

\* strchr() from position i on, and strstr().
Strchr(text, ch, i) == SelectInSubSeq(text, i, Len(text), LAMBDA t : t = ch)
Strstr(text, words) ==
  LET places == {i \in 1 .. Len(text) - Len(words) + 1 :
                   SubSeq(text, i, i + Len(words) - 1) = words}
  IN IF places = {} THEN 0 ELSE Min(places)

\* Leaving out one character at an end: a word becomes another one.
Cut(t) == IF t \in Sign THEN <<>> ELSE <<"rest of", t>>
SkipFirst(s) == IF s = <<>> THEN s ELSE Cut(Head(s)) \o Tail(s)
SkipLast(s) == IF s = <<>> THEN s ELSE Front(s) \o Cut(Last(s))
Atoi(t) == IF t \in Number THEN t ELSE "0"

-----------------------------------------------------------------------------
(* The functions of proxyme.c.                                             *)

\* read_header() stops at "\n\n" or "\r\n\r\n"; 0 if there is neither.
EmptyLine(text, i) ==
  /\ text[i] = LF
  /\ \/ i > 1 /\ text[i - 1] = LF
     \/ i > 3 /\ SubSeq(text, i - 3, i - 1) = <<CR, LF, CR>>
HeaderLength(text) ==
  LET ends == {i \in DOMAIN text : EmptyLine(text, i)}
  IN IF ends = {} THEN 0 ELSE Min(ends)

IsTunnel(text) == Strstr(text, <<"CONNECT">>) # 0
IsDirect(text) == Strstr(text, <<"GET", SP, "/">>) # 0

\* extract_host(): what follows CONNECT, up to a colon or a blank.
TunnelTarget(text) ==
  LET p1 == Strchr(text, SP, Strstr(text, <<"CONNECT">>))
      p2 == Strchr(text, ":", p1 + 1)
      p3 == Strchr(text, SP, p1 + 1)
  IN IF p2 # 0 THEN [host |-> SubSeq(text, p1 + 1, p2 - 1), port |-> Atoi(text[p2 + 1])]
     ELSE [host |-> SubSeq(text, p1 + 1, p3 - 1), port |-> "80"]

\* The colon of a port stands in front of the end of the line.  AnyColon: a
\* colon in a later line is taken for it.
AnyColon(colon, end) == colon # 0
PortColon(colon, end) == colon # 0 /\ colon < end

\* extract_host(): the line "Host:", less a character at either end.
HostTarget(text) ==
  LET p == Strstr(text, <<"Host", ":">>)
      p1 == Strchr(text, LF, p)
      p2 == Strchr(text, ":", p + 2)
  IN IF PortColon(p2, p1)
       THEN [host |-> SkipFirst(SubSeq(text, p + 2, p2 - 1)), port |-> Atoi(text[p2 + 1])]
       ELSE [host |-> SkipLast(SkipFirst(SubSeq(text, p + 2, p1 - 1))), port |-> "80"]

\* extract_host() needs a Host line or CONNECT.  With no blank behind CONNECT,
\* with neither colon nor second blank there, or with less behind "Host:" than
\* it leaves out, it crashes, which ends the process that handles the client as
\* well.
Fewer(s, n) == Len(s) < n /\ Range(s) \subseteq Sign
HasHost(text) ==
  IF IsTunnel(text)
    THEN LET p1 == Strchr(text, SP, Strstr(text, <<"CONNECT">>))
         IN /\ p1 # 0
            /\ Strchr(text, ":", p1 + 1) # 0 \/ Strchr(text, SP, p1 + 1) # 0
    ELSE LET p == Strstr(text, <<"Host", ":">>)
             p1 == Strchr(text, LF, p)
             p2 == Strchr(text, ":", p + 2)
         IN /\ p # 0
            /\ IF PortColon(p2, p1) THEN ~ Fewer(SubSeq(text, p + 2, p2 - 1), 1)
               ELSE ~ Fewer(SubSeq(text, p + 2, p1 - 1), 2)
ExtractHost(text) == IF IsTunnel(text) THEN TunnelTarget(text) ELSE HostTarget(text)

\* Is there a path behind the host's name?  AnySlash: the "/" of "HTTP/" is
\* taken for one.
AnySlash(slash, version) == slash # 0
PathSlash(slash, version) == slash < version

\* rewrite_header() crashes where strchr() or strstr() returns NULL: with an
\* "http://" and no "/" behind it.
RewriteFails(text) ==
  LET p == Strstr(text, Http)
  IN p # 0 /\ (Strchr(text, "/", p + 4) = 0 \/ Strstr(text, <<"HTTP", "/">>) = 0)

\* rewrite_header(); memcpy() moves the rest of the text to the left, as the
\* implementations that share their code with memmove() do.
RewriteHeader(text) ==
  LET p == Strstr(text, Http)
      slash == Strchr(text, "/", p + 4)
      version == Strstr(text, <<"HTTP", "/">>)
  IN IF p = 0 THEN text
     ELSE IF PathSlash(slash, version)
       THEN SubSeq(text, 1, p - 1) \o SubSeq(text, slash, Len(text))
       ELSE SubSeq(text, 1, p - 1) \o <<"/">> \o SubSeq(text, version - 1, Len(text))

-----------------------------------------------------------------------------
(* Requests as clients mean them, and the text they send.                  *)

\* form: "authority" (of a CONNECT), "absolute" (to a proxy) or "origin";
\* path: what follows the host's name, <<>> for nothing; port: NoPort for none;
\* end: how lines end, and the empty line; blank: what follows "Host:"; before,
\* more: the lines in front of the Host line and behind it; late: what is read
\* along with the header if its empty line is not one to read_header().
Path == {path \in Seq(Name \cup {"/", ":"}) : path = <<>> \/ Head(path) = "/"}
Line == Seq(Name \cup {SP, "/", ":"}) \ {<<>>}
MixedEnd == <<<<LF>>, <<CR, LF>>>>
Request ==
  {r \in [method : {"CONNECT", "GET"} \cup Word, form : {"authority", "absolute", "origin"},
           host : Seq(Name), port : {NoPort} \cup Number, path : Path,
           end : {<<<<CR, LF>>, <<CR, LF>>>>, <<<<LF>>, <<LF>>>>, MixedEnd},
           blank : Seq({SP}), before : Seq(Line), more : Seq(Line),
           late : Seq(Name \cup Sign)] :
     /\ r.host # <<>>
     /\ r.method = "CONNECT" <=> r.form = "authority"
     /\ r.form = "authority" => r.path = <<>>
     /\ r.form = "origin" => r.path # <<>>
     /\ r.late # <<>> => r.end = MixedEnd}

Authority(r) == r.host \o IF r.port = NoPort THEN <<>> ELSE <<":", r.port>>
Place(r) ==
  CASE r.form = "authority" -> Authority(r)
    [] r.form = "absolute" -> Http \o Authority(r) \o r.path
    [] r.form = "origin" -> r.path
Lines(r, lines) == FlattenSeq([i \in DOMAIN lines |-> lines[i] \o r.end[1]])
Version == <<SP, "HTTP", "/", "1.1">>
Behind(r) ==
  Version \o r.end[1] \o Lines(r, r.before)
  \o <<"Host", ":">> \o r.blank \o Authority(r) \o r.end[1]
  \o Lines(r, r.more) \o r.end[2] \o r.late
Text(r) == <<r.method, SP>> \o Place(r) \o Behind(r)

\* Where the Host line stands in it.
HostAt(r) ==
  3 + Len(Place(r)) + Len(Version) + Len(r.end[1]) + Len(Lines(r, r.before))

\* Where r wants to go.
Target(r) == [host |-> r.host, port |-> IF r.port = NoPort THEN "80" ELSE r.port]

\* r as it should arrive at the remote server: without "http://" and host.
ToOrigin(r) ==
  [r EXCEPT !.form = "origin", !.path = IF @ = <<>> THEN <<"/">> ELSE @]

=============================================================================
