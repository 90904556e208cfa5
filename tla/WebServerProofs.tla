--------------------------- MODULE WebServerProofs ---------------------------
(***************************************************************************)
(* Proofs about WebServer, for any number of connections, threads and      *)
(* requests, any width of size_t and any set of requests.                  *)
(***************************************************************************)
EXTENDS WebServer, SequenceLemmas

(* Every unit that is anywhere belongs to a request its client has begun,  *)
(* and what is left to send to the last of them.                           *)
UnitsBegun ==
  /\ \A c \in Conn : \A i \in 1 .. Len(input[c]) : input[c][i].n \in 1 .. Len(asked[c])
  /\ \A w \in work : \A i \in 1 .. Len(w.buf) : w.buf[i].n \in 1 .. Len(asked[w.conn])
LeftBegun ==
  \A c \in Conn : left[c] > 0 =>
    Len(asked[c]) > 0 /\ left[c] <= asked[c][Len(asked[c])].body + 1

TInv == TypeOK /\ UnitsBegun /\ LeftBegun

-----------------------------------------------------------------------------
(* Lemmas.                                                                 *)

(* The loop of respond() finds one of the four resources, and the one for  *)
(* string only for its path.                                               *)
IsFirst(i, path) ==
  Matches(AllResources[i], path) /\ \A j \in 1 .. i - 1 : ~ Matches(AllResources[j], path)
LEMMA ResourceFound ==
  ASSUME NEW path
  PROVE  /\ Resource(path) \in DOMAIN Offered
         /\ Resource(path) = "string" <=> path = "string"
  <1>1. DOMAIN AllResources = 1 .. 4
    BY DEF AllResources
  <1>2. /\ AllResources[1] = "info" /\ AllResources[2] = "match"
        /\ AllResources[3] = "string" /\ AllResources[4] = "default"
    BY DEF AllResources
  <1>3. \E i \in 1 .. 4 : IsFirst(i, path)
    <2>1. CASE path = "info"
      <3>1. IsFirst(1, path)
        BY <2>1, <1>2 DEF Matches, IsFirst
      <3>2. 1 \in 1 .. 4
        OBVIOUS
      <3>. QED
        BY <3>1, <3>2, Zenon
    <2>2. CASE path = "match"
      <3>1. IsFirst(2, path)
        BY <2>2, <1>2 DEF Matches, IsFirst
      <3>2. 2 \in 1 .. 4
        OBVIOUS
      <3>. QED
        BY <3>1, <3>2, Zenon
    <2>3. CASE path = "string"
      <3>1. IsFirst(3, path)
        BY <2>3, <1>2 DEF Matches, IsFirst
      <3>2. 3 \in 1 .. 4
        OBVIOUS
      <3>. QED
        BY <3>1, <3>2, Zenon
    <2>4. CASE path \notin {"info", "match", "string"}
      <3>1. IsFirst(4, path)
        BY <2>4, <1>2 DEF Matches, IsFirst
      <3>2. 4 \in 1 .. 4
        OBVIOUS
      <3>. QED
        BY <3>1, <3>2, Zenon
    <2>. QED
      BY <2>1, <2>2, <2>3, <2>4
  <1>4. PICK i \in 1 .. 4 : IsFirst(i, path) /\ Resource(path) = AllResources[i]
    BY <1>1, <1>3 DEF Resource, IsFirst
  <1>5. \A j \in 1 .. 3 : path = AllResources[j] => i <= j
    BY <1>2, <1>4 DEF Matches, IsFirst
  <1>6. path = AllResources[i] \/ i = 4
    BY <1>2, <1>4 DEF Matches, IsFirst
  <1>. QED
    BY <1>2, <1>4, <1>5, <1>6 DEF Offered

(* The header of a request a client has begun, or nothing known.           *)
LEMMA RequestType ==
  ASSUME TInv, NEW w \in work, NEW buf \in Seq(Unit), Len(buf) > 0,
         \A i \in 1 .. Len(buf) : buf[i].n \in 1 .. Len(asked[w.conn])
  PROVE  Request(w.conn, buf) \in Requests \cup {Garbled}
  <1>1. buf[1].n \in 1 .. Len(asked[w.conn])
    OBVIOUS
  <1>2. asked[w.conn] \in Seq(Requests)
    BY DEF TInv, TypeOK, Work
  <1>. QED
    BY <1>1, <1>2, ElementOfSeq DEF Request

(* A read adds units that have been sent to those in the buffer.           *)
LEMMA ReadType ==
  ASSUME TInv, NEW w \in work, NEW k \in 1 .. Available(w.conn)
  PROVE  /\ taken[w.conn] \in Nat /\ input[w.conn] \in Seq(Unit)
         /\ taken[w.conn] + k <= Len(input[w.conn])
         /\ Read(w, k) \in Seq(Unit)
         /\ Len(Read(w, k)) = Len(w.buf) + k
         /\ \A i \in 1 .. Len(w.buf) : Read(w, k)[i] = w.buf[i]
         /\ \A i \in 1 .. k :
              Read(w, k)[Len(w.buf) + i] = input[w.conn][taken[w.conn] + i]
         /\ \A i \in 1 .. Len(Read(w, k)) : Read(w, k)[i].n \in 1 .. Len(asked[w.conn])
  <1>1. /\ w.conn \in Conn /\ w.buf \in Seq(Unit)
        /\ taken[w.conn] \in Nat /\ input[w.conn] \in Seq(Unit)
        /\ taken[w.conn] <= Len(input[w.conn])
    BY DEF TInv, TypeOK, Work
  <1>2. /\ k \in Nat /\ taken[w.conn] + k <= Len(input[w.conn])
        /\ taken[w.conn] \in 0 .. Len(input[w.conn])
        /\ k \in 0 .. Len(input[w.conn]) - taken[w.conn]
    BY <1>1 DEF Available
  <1>3. /\ Read(w, k) \in Seq(Unit) /\ Len(Read(w, k)) = Len(w.buf) + k
        /\ \A i \in 1 .. Len(w.buf) : Read(w, k)[i] = w.buf[i]
        /\ \A i \in 1 .. k : Read(w, k)[Len(w.buf) + i] = input[w.conn][taken[w.conn] + i]
    <2>. DEFINE buf == w.buf
                in == input[w.conn]
                pos == taken[w.conn]
    <2>1. /\ buf \in Seq(Unit) /\ in \in Seq(Unit)
          /\ pos \in Nat /\ k \in Nat /\ pos + k <= Len(in)
      BY <1>1, <1>2
    <2>2. Read(w, k) = ReadOn(buf, in, pos, k)
      BY DEF Read, ReadOn
    <2>. HIDE DEF buf, in, pos
    <2>3. ReadOn(buf, in, pos, k) \in Seq(Unit) /\ Len(ReadOn(buf, in, pos, k)) = Len(buf) + k
      BY <2>1, ReadMore
    <2>4. \A i \in 1 .. Len(buf) : ReadOn(buf, in, pos, k)[i] = buf[i]
      BY <2>1, ReadMore
    <2>5. \A i \in 1 .. k : ReadOn(buf, in, pos, k)[Len(buf) + i] = in[pos + i]
      BY <2>1, ReadMore
    <2>. QED
      BY <2>2, <2>3, <2>4, <2>5 DEF buf, in, pos
  <1>6. Len(w.buf) \in Nat
    BY <1>1
  <1>7. \A i \in 1 .. Len(Read(w, k)) : Read(w, k)[i].n \in 1 .. Len(asked[w.conn])
    <2>1. TAKE i \in 1 .. Len(Read(w, k))
    <2>2. CASE i <= Len(w.buf)
      BY <1>3, <1>6, <2>2 DEF TInv, UnitsBegun
    <2>3. CASE ~ (i <= Len(w.buf))
      <3>. DEFINE j == i - Len(w.buf)
      <3>1. j \in 1 .. k /\ i = Len(w.buf) + j
        BY <1>2, <1>3, <1>6, <2>1, <2>3
      <3>. HIDE DEF j
      <3>2. Read(w, k)[i] = input[w.conn][taken[w.conn] + j]
        BY <1>3, <3>1
      <3>3. taken[w.conn] + j \in 1 .. Len(input[w.conn])
        BY <1>1, <1>2, <3>1
      <3>. QED
        BY <1>1, <3>2, <3>3 DEF TInv, UnitsBegun
    <2>. QED
      BY <2>2, <2>3
  <1>. QED
    BY <1>1, <1>2, <1>3, <1>7

(* A part of what was in a buffer or has been read.                        *)
LEMMA RestType ==
  ASSUME NEW buf \in Seq(Unit), NEW i \in 0 .. Len(buf)
  PROVE  /\ SubSeq(buf, i + 1, Len(buf)) \in Seq(Unit)
         /\ Len(SubSeq(buf, i + 1, Len(buf))) = Len(buf) - i
         /\ \A j \in 1 .. Len(buf) - i : SubSeq(buf, i + 1, Len(buf))[j] = buf[i + j]
  <1>1. i \in Nat /\ Len(buf) \in i .. Len(buf)
    OBVIOUS
  <1>. QED
    BY <1>1, Slice

(* What transfer_exactly() is told to wait for is a size.                  *)
LEMMA RemainingType ==
  ASSUME NEW length \in Int, NEW additional \in Int
  PROVE  Remaining(length, additional) \in Nat
  <1>. DEFINE d == length - additional
  <1>1. d \in Int /\ SizeMax \in Nat /\ SizeMax > 0
    BY SizeAssumption
  <1>2. d % SizeMax \in Nat
    BY <1>1
  <1>. QED
    BY <1>2 DEF Remaining

(* The work that is left after a header has been read.                     *)
LEMMA ParsedType ==
  ASSUME TInv, NEW w \in work, NEW buf \in Seq(Unit), NEW i \in 1 .. Len(buf),
         \A j \in 1 .. Len(buf) : buf[j].n \in 1 .. Len(asked[w.conn])
  PROVE  /\ Parsed(w, buf, i) \in Work
         /\ Parsed(w, buf, i).conn = w.conn
         /\ Parsed(w, buf, i).req = Request(w.conn, buf)
         /\ Parsed(w, buf, i).at = IF Request(w.conn, buf).announced THEN "body" ELSE "lookup"
         /\ \A j \in 1 .. Len(Parsed(w, buf, i).buf) :
              Parsed(w, buf, i).buf[j].n \in 1 .. Len(asked[w.conn])
  <1>. DEFINE r == Request(w.conn, buf)
              rest == SubSeq(buf, i + 1, Len(buf))
  <1>1. w \in Work /\ Len(buf) \in Nat /\ Len(buf) > 0
    BY DEF TInv, TypeOK
  <1>2. r \in Requests \cup {Garbled}
    BY <1>1, RequestType
  <1>3. r.body \in Int
    BY <1>2, RequestAssumption, SizeAssumption DEF Garbled
  <1>4. /\ rest \in Seq(Unit) /\ Len(rest) \in Int
        /\ \A j \in 1 .. Len(rest) : rest[j].n \in 1 .. Len(asked[w.conn])
    <2>1. /\ rest \in Seq(Unit) /\ Len(rest) = Len(buf) - i
          /\ \A j \in 1 .. Len(buf) - i : rest[j] = buf[i + j]
      BY <1>1, RestType
    <2>2. \A j \in 1 .. Len(buf) - i : i + j \in 1 .. Len(buf)
      BY <1>1
    <2>. QED
      BY <1>1, <2>1, <2>2
  <1>5. buf[1].n \in Nat
    <2>1. buf[1] \in Unit
      BY <1>1
    <2>. QED
      BY <2>1 DEF Unit
  <1>6. Remaining(r.body, Len(rest)) \in Nat
    BY <1>3, <1>4, RemainingType
  <1>7. CASE r.announced
    <2>1. Parsed(w, buf, i) = [w EXCEPT !.req = r, !.n = buf[1].n, !.at = "body", !.buf = rest,
                                        !.need = Remaining(r.body, Len(rest))]
      BY <1>1, <1>7 DEF Parsed, Work
    <2>. HIDE DEF r, rest
    <2>. QED
      BY <1>1, <1>2, <1>4, <1>5, <1>6, <1>7, <2>1 DEF Work, Stage, r
  <1>8. CASE ~ r.announced
    <2>1. Parsed(w, buf, i) = [w EXCEPT !.req = r, !.n = buf[1].n, !.at = "lookup", !.buf = <<>>]
      BY <1>1, <1>8 DEF Parsed, Work
    <2>2. <<>> \in Seq(Unit) /\ Len(<<>>) = 0
      OBVIOUS
    <2>. DEFINE none == <<>>
    <2>. HIDE DEF r, none
    <2>3. none \in Seq(Unit) /\ Len(none) = 0
      BY <2>2 DEF none
    <2>4. Parsed(w, buf, i) = [w EXCEPT !.req = r, !.n = buf[1].n, !.at = "lookup", !.buf = none]
      BY <2>1 DEF none
    <2>5. /\ Parsed(w, buf, i) \in Work /\ Parsed(w, buf, i).conn = w.conn
          /\ Parsed(w, buf, i).req = r /\ Parsed(w, buf, i).at = "lookup"
          /\ Parsed(w, buf, i).buf = none
      BY <1>1, <1>2, <1>5, <2>3, <2>4 DEF Work, Stage
    <2>. QED
      BY <1>8, <2>3, <2>5 DEF r
  <1>. QED
    BY <1>7, <1>8

(* A handler that keeps what it knows, but for the stage and the buffer.   *)
LEMMA WorkKept ==
  ASSUME TInv, NEW w \in work, NEW new \in Work, new.conn = w.conn,
         \A i \in 1 .. Len(new.buf) : new.buf[i].n \in 1 .. Len(asked[w.conn]),
         Becomes(w, {new}), UNCHANGED <<asked, input>>
  PROVE  work' \subseteq Work /\ UnitsBegun'
  BY DEF TInv, TypeOK, UnitsBegun, Becomes

LEMMA WorkDropped ==
  ASSUME TInv, NEW w \in work, Becomes(w, {}), UNCHANGED <<asked, input>>
  PROVE  work' \subseteq Work /\ UnitsBegun'
  BY DEF TInv, TypeOK, UnitsBegun, Becomes

(* A buffer that has just been made.                                       *)
LEMMA ReadingType ==
  ASSUME NEW c \in Conn
  PROVE  /\ Reading(c) \in Work /\ At(Reading(c), "handshake") \in Work
         /\ Reading(c).conn = c /\ At(Reading(c), "handshake").conn = c
         /\ Reading(c).buf = <<>> /\ At(Reading(c), "handshake").buf = <<>>
         /\ Reading(c).at = "read" /\ At(Reading(c), "handshake").at = "handshake"
  <1>. DEFINE none == <<>>
  <1>1. none \in Seq(Unit)
    OBVIOUS
  <1>2. Reading(c) = [conn |-> c, at |-> "read", buf |-> none, n |-> 0, req |-> Garbled, need |-> 0]
    BY DEF Reading
  <1>. HIDE DEF none
  <1>3. /\ Reading(c) \in Work /\ Reading(c).conn = c
        /\ Reading(c).buf = none /\ Reading(c).at = "read"
    BY <1>1, <1>2 DEF Work, Stage
  <1>4. At(Reading(c), "handshake") = [Reading(c) EXCEPT !.at = "handshake"]
    BY DEF At
  <1>5. /\ At(Reading(c), "handshake") \in Work
        /\ At(Reading(c), "handshake").conn = c
        /\ At(Reading(c), "handshake").buf = none
        /\ At(Reading(c), "handshake").at = "handshake"
    BY <1>3, <1>4 DEF Work, Stage
  <1>. QED
    BY <1>3, <1>5 DEF none

LEMMA NoUnits == Len(<<>>) = 0
  OBVIOUS

(* The types and what has been begun are kept by every handler ...         *)
(* A read that does not end the process takes something in, and a header   *)
(* that is there has a length that can be read.                            *)
LEMMA HeaderRead ==
  ASSUME NEW w, ReadHeader(w), ~ Terminate
  PROVE  \E k \in 1 .. Available(w.conn) :
           /\ \/ Becomes(w, {[w EXCEPT !.buf = Read(w, k)]})
              \/ \E i \in DOMAIN Read(w, k) :
                   /\ EndsHeader(Read(w, k), i) /\ Legible(Request(w.conn, Read(w, k)))
                   /\ Becomes(w, {Parsed(w, Read(w, k), i)})
           /\ Take(w, k)
  BY DEF ReadHeader

LEMMA HandlerTyped ==
  ASSUME TInv, NEW w \in work, Handler(w)
  PROVE  TInv'
  <1>1. w \in Work /\ w.conn \in Conn
    BY DEF TInv, TypeOK, Work
  <1>2. \A i \in 1 .. Len(w.buf) : w.buf[i].n \in 1 .. Len(asked[w.conn])
    BY DEF TInv, UnitsBegun
  <1>3. Reading(w.conn) \in Work /\ Reading(w.conn).conn = w.conn /\ Len(Reading(w.conn).buf) = 0
    BY <1>1, ReadingType, NoUnits
  <1>4. \A i \in 1 .. Len(Reading(w.conn).buf) : Reading(w.conn).buf[i].n \in 1 .. Len(asked[w.conn])
    BY <1>3
  <1>5. ASSUME NEW stage \in Stage
        PROVE  At(w, stage) \in Work /\ At(w, stage).conn = w.conn /\ At(w, stage).buf = w.buf
    BY <1>1 DEF At, Work
  <1>6. CASE HandshakeDone(w)
    <2>1. work' \subseteq Work /\ UnitsBegun'
      BY <1>3, <1>4, <1>6, WorkKept DEF HandshakeDone
    <2>. QED
      BY <1>6, <2>1 DEF TInv, TypeOK, HandshakeDone, LeftBegun
  <1>7. CASE Fails(w)
    <2>1. work' \subseteq Work /\ UnitsBegun'
      BY <1>7, WorkDropped DEF Fails, Drop
    <2>. QED
      BY <1>7, <2>1 DEF TInv, TypeOK, Fails, Drop, LeftBegun
  <1>11. ASSUME Terminate PROVE TInv'
    BY <1>11 DEF TInv, TypeOK, Terminate, LeftBegun, UnitsBegun, peers
  <1>8. CASE ReadHeader(w) /\ ~ Terminate
    <2>1. PICK k \in 1 .. Available(w.conn) :
            /\ \/ Becomes(w, {[w EXCEPT !.buf = Read(w, k)]})
               \/ \E i \in DOMAIN Read(w, k) : Becomes(w, {Parsed(w, Read(w, k), i)})
            /\ Take(w, k)
      BY <1>8, HeaderRead
    <2>. DEFINE buf == Read(w, k)
    <2>2. /\ taken[w.conn] \in Nat /\ taken[w.conn] + k <= Len(input[w.conn])
          /\ buf \in Seq(Unit)
          /\ \A i \in 1 .. Len(buf) : buf[i].n \in 1 .. Len(asked[w.conn])
      BY ReadType
    <2>. HIDE DEF buf
    <2>3. work' \subseteq Work /\ UnitsBegun'
      <3>1. CASE Becomes(w, {[w EXCEPT !.buf = buf]})
        <4>. DEFINE new == [w EXCEPT !.buf = buf]
        <4>1. new \in Work /\ new.conn = w.conn /\ new.buf = buf
          BY <1>1, <2>2 DEF Work
        <4>. HIDE DEF new
        <4>. QED
          BY <2>1, <2>2, <3>1, <4>1, WorkKept DEF Take, new
      <3>2. CASE \E i \in DOMAIN buf : Becomes(w, {Parsed(w, buf, i)})
        <4>1. PICK i \in DOMAIN buf : Becomes(w, {Parsed(w, buf, i)})
          BY <3>2
        <4>2. i \in 1 .. Len(buf)
          BY <2>2, <4>1
        <4>3. /\ Parsed(w, buf, i) \in Work /\ Parsed(w, buf, i).conn = w.conn
              /\ \A j \in 1 .. Len(Parsed(w, buf, i).buf) :
                   Parsed(w, buf, i).buf[j].n \in 1 .. Len(asked[w.conn])
          BY <2>2, <4>2, ParsedType
        <4>. QED
          BY <2>1, <4>1, <4>3, WorkKept DEF Take
      <3>. QED
        BY <2>1, <3>1, <3>2 DEF buf
    <2>4. taken' = [taken EXCEPT ![w.conn] = @ + k]
      BY <2>1 DEF Take
    <2>5. /\ taken' \in [Conn -> Nat]
          /\ \A c \in Conn : taken'[c] <= Len(input[c])
      BY <1>1, <2>2, <2>4 DEF TInv, TypeOK
    <2>. QED
      BY <2>1, <2>3, <2>5 DEF TInv, TypeOK, Take, LeftBegun
  <1>9. CASE ReadBody(w)
    <2>1. PICK k \in 1 .. Available(w.conn) :
            /\ k <= w.need
            /\ Becomes(w, {[w EXCEPT !.buf = Read(w, k), !.need = @ - k]})
            /\ Take(w, k)
      BY <1>9 DEF ReadBody
    <2>. DEFINE buf == Read(w, k)
                new == [w EXCEPT !.buf = buf, !.need = @ - k]
    <2>2. /\ taken[w.conn] \in Nat /\ taken[w.conn] + k <= Len(input[w.conn])
          /\ buf \in Seq(Unit)
          /\ \A i \in 1 .. Len(buf) : buf[i].n \in 1 .. Len(asked[w.conn])
      BY ReadType
    <2>. HIDE DEF buf
    <2>3. w.need \in Nat /\ w.need - k \in Nat
      BY <1>1, <2>1 DEF Work
    <2>4. new \in Work /\ new.conn = w.conn /\ new.buf = buf
      BY <1>1, <2>2, <2>3 DEF Work
    <2>5. Becomes(w, {new})
      BY <2>1 DEF buf
    <2>. HIDE DEF new
    <2>6. work' \subseteq Work /\ UnitsBegun'
      BY <2>1, <2>2, <2>4, <2>5, WorkKept DEF Take
    <2>7. taken' = [taken EXCEPT ![w.conn] = @ + k]
      BY <2>1 DEF Take
    <2>8. /\ taken' \in [Conn -> Nat]
          /\ \A c \in Conn : taken'[c] <= Len(input[c])
      BY <1>1, <2>2, <2>7 DEF TInv, TypeOK
    <2>. QED
      BY <2>1, <2>6, <2>8 DEF TInv, TypeOK, Take, LeftBegun
  <1>10. CASE BodyDone(w)
    <2>1. work' \subseteq Work /\ UnitsBegun'
      BY <1>2, <1>5, <1>10, WorkKept DEF BodyDone, Stage, peers
    <2>. QED
      BY <1>10, <2>1 DEF TInv, TypeOK, BodyDone, LeftBegun, peers
  <1>12. CASE LookUp(w)
    <2>1. CASE Terminate
      BY <1>11, <2>1
    <2>2. CASE ~ Terminate
      <3>1. work' \subseteq Work /\ UnitsBegun'
        BY <1>2, <1>5, <1>12, <2>2, WorkKept DEF LookUp, Stage, peers
      <3>2. w.req.method \in Methods
        BY <1>1 DEF Work, Methods
      <3>3. table' = [table EXCEPT ![Resource(w.req.path)] = @ \cup {w.req.method}]
        BY <1>12, <2>2 DEF LookUp
      <3>4. table' \in [DOMAIN Offered -> SUBSET Methods]
        <4>. DEFINE D == DOMAIN Offered
                    S == Methods
                    m == w.req.method
                    res == Resource(w.req.path)
        <4>1. table \in [D -> SUBSET S]
          BY DEF TInv, TypeOK
        <4>5. {m} \subseteq S
          BY <3>2, Zenon
        <4>2. table' = [table EXCEPT ![res] = @ \cup {m}]
          BY <3>3
        <4>. HIDE DEF D, S, m, res
        <4>3. ASSUME NEW r \in D PROVE table'[r] \in SUBSET S
          BY <4>1, <4>2, <4>5
        <4>4. table' \in [D -> SUBSET S]
          BY <4>1, <4>2, <4>3
        <4>. QED
          BY <4>4 DEF D, S
      <3>. QED
        BY <1>12, <2>2, <3>1, <3>4 DEF TInv, TypeOK, LookUp, LeftBegun, peers
    <2>. QED
      BY <2>1, <2>2
  <1>13. CASE Call(w)
    <2>1. CASE ~ CanAnswer(w.req)
      BY <1>11, <1>13, <2>1 DEF Call
    <2>2. CASE CanAnswer(w.req)
      <3>. DEFINE new == At([w EXCEPT !.buf = Echo(w.req, @)], "write")
      <3>1. Echo(w.req, w.buf) = w.buf \/ Echo(w.req, w.buf) = <<>>
        BY DEF Echo
      <3>2. new \in Work /\ new.conn = w.conn /\ (new.buf = w.buf \/ Len(new.buf) = 0)
        <4>1. new = [w EXCEPT !.buf = Echo(w.req, w.buf), !.at = "write"]
          BY <1>1 DEF At, Work
        <4>2. w.buf \in Seq(Unit) /\ <<>> \in Seq(Unit)
          BY <1>1 DEF Work
        <4>3. /\ Echo(w.req, w.buf) \in Seq(Unit)
              /\ Echo(w.req, w.buf) = w.buf \/ Len(Echo(w.req, w.buf)) = 0
          BY <3>1, <4>2, NoUnits
        <4>. HIDE DEF new
        <4>. QED
          BY <1>1, <4>1, <4>3 DEF Work, Stage
      <3>3. Becomes(w, {new}) /\ UNCHANGED <<https, running, accepts, table, peers>>
        BY <1>13, <2>2 DEF Call, Answering
      <3>. HIDE DEF new
      <3>4. work' \subseteq Work /\ UnitsBegun'
        BY <1>2, <3>2, <3>3, WorkKept DEF peers
      <3>. QED
        BY <3>3, <3>4 DEF TInv, TypeOK, LeftBegun, peers
    <2>. QED
      BY <2>1, <2>2
  <1>14. CASE WriteOut(w)
    <2>1. work' \subseteq Work /\ UnitsBegun'
      BY <1>2, <1>5, <1>14, WorkKept DEF WriteOut, Stage
    <2>2. [to |-> w.n, body |-> w.buf] \in [to : Nat, body : Seq(Unit)]
      BY <1>1 DEF Work
    <2>3. answers' \in [Conn -> Seq([to : Nat, body : Seq(Unit)])]
      <3>. DEFINE Ans == [to : Nat, body : Seq(Unit)]
                  new == [to |-> w.n, body |-> w.buf]
      <3>1. new \in Ans /\ answers \in [Conn -> Seq(Ans)]
        BY <2>2 DEF TInv, TypeOK
      <3>2. answers' = answers \/ answers' = [answers EXCEPT ![w.conn] = Append(@, new)]
        BY <1>14 DEF WriteOut
      <3>. HIDE DEF Ans, new
      <3>3. answers[w.conn] \in Seq(Ans) /\ Append(answers[w.conn], new) \in Seq(Ans)
        BY <1>1, <3>1
      <3>4. answers' = answers \/ answers' = [answers EXCEPT ![w.conn] = Append(answers[w.conn], new)]
        BY <3>2
      <3>. DEFINE more == Append(answers[w.conn], new)
                  SeqAns == Seq(Ans)
      <3>5. more \in SeqAns /\ answers \in [Conn -> SeqAns]
        BY <3>1, <3>3
      <3>6. answers' = answers \/ answers' = [answers EXCEPT ![w.conn] = more]
        BY <3>4
      <3>. HIDE DEF more, SeqAns
      <3>7. answers' \in [Conn -> SeqAns]
        BY <3>5, <3>6
      <3>. QED
        BY <3>7 DEF Ans, SeqAns
    <2>. QED
      BY <1>14, <2>1, <2>3 DEF TInv, TypeOK, WriteOut, LeftBegun
  <1>15. CASE Written(w)
    <2>1. CASE w.req.version = "none"
      BY <1>11, <1>15, <2>1 DEF Written
    <2>2. CASE w.req.version # "none" /\ KeepsAlive(w.req)
      <3>1. work' \subseteq Work /\ UnitsBegun'
        BY <1>3, <1>4, <1>15, <2>2, WorkKept DEF Written
      <3>. QED
        BY <1>15, <2>2, <3>1 DEF TInv, TypeOK, Written, LeftBegun
    <2>3. CASE w.req.version # "none" /\ ~ KeepsAlive(w.req)
      <3>1. work' \subseteq Work /\ UnitsBegun'
        BY <1>15, <2>3, WorkDropped DEF Written, Drop
      <3>. QED
        BY <1>15, <2>3, <3>1 DEF TInv, TypeOK, Written, Drop, LeftBegun
    <2>. QED
      BY <2>1, <2>2, <2>3
  <1>. QED
    BY <1>6, <1>7, <1>8, <1>9, <1>10, <1>11, <1>12, <1>13, <1>14, <1>15 DEF Handler

(* ... and by what the acceptor and the clients do.                        *)
LEMMA AcceptTyped ==
  ASSUME TInv, NEW c \in Conn, Accept(c) \/ AcceptFails(c)
  PROVE  TInv'
  <1>1. /\ accepts' = Again(accepts - 1) /\ accepts \in Nat /\ accepts > 0
        /\ backlog' = backlog \ {c}
        /\ UNCHANGED <<https, running, table, client, asked, left, input, taken, answers, hasty>>
    BY DEF Accept, AcceptFails, TInv, TypeOK
  <1>2. accepts' \in Nat
    BY <1>1 DEF Again
  <1>. DEFINE new == IF https THEN At(Reading(c), "handshake") ELSE Reading(c)
  <1>3. new \in Work /\ Len(new.buf) = 0
    BY ReadingType, NoUnits
  <1>4. work' = work \/ work' = work \cup {new}
    BY DEF Accept, AcceptFails
  <1>. HIDE DEF new
  <1>5. work' \subseteq Work /\ UnitsBegun'
    <2>1. work' \subseteq Work
      BY <1>3, <1>4 DEF TInv, TypeOK
    <2>2. ASSUME NEW w \in work', NEW i \in 1 .. Len(w.buf)
          PROVE  w.buf[i].n \in 1 .. Len(asked[w.conn])
      BY <1>3, <1>4, <2>2 DEF TInv, UnitsBegun
    <2>3. UNCHANGED <<asked, input>>
      BY <1>1
    <2>. QED
      BY <2>1, <2>2, <2>3 DEF TInv, UnitsBegun
  <1>. QED
    BY <1>1, <1>2, <1>5 DEF TInv, TypeOK, LeftBegun

LEMMA AskNextTyped ==
  ASSUME TInv, NEW c \in Conn, AskNext(c)
  PROVE  TInv'
  <1>1. PICK r \in Requests :
          /\ asked' = [asked EXCEPT ![c] = Append(@, r)]
          /\ left' = [left EXCEPT ![c] = 1 + r.body]
    BY DEF AskNext
  <1>. DEFINE unit == [n |-> Len(asked[c]) + 1, part |-> "head"]
  <1>2. asked[c] \in Seq(Requests) /\ input[c] \in Seq(Unit) /\ r.body \in Nat
    BY RequestAssumption, SizeAssumption DEF TInv, TypeOK
  <1>3. unit \in Unit /\ unit.n = Len(asked[c]) + 1
    BY <1>2 DEF Unit
  <1>4. input' = [input EXCEPT ![c] = Append(input[c], unit)]
    BY DEF AskNext
  <1>. HIDE DEF unit
  <1>5. /\ Append(asked[c], r) \in Seq(Requests)
        /\ Len(Append(asked[c], r)) = Len(asked[c]) + 1
        /\ Append(asked[c], r)[Len(asked[c]) + 1] = r
    BY <1>2
  <1>6. /\ Append(input[c], unit) \in Seq(Unit)
        /\ Len(Append(input[c], unit)) = Len(input[c]) + 1
        /\ \A i \in 1 .. Len(input[c]) : Append(input[c], unit)[i] = input[c][i]
        /\ Append(input[c], unit)[Len(input[c]) + 1] = unit
    BY <1>2, <1>3
  <1>. DEFINE more == Append(asked[c], r)
              sent == Append(input[c], unit)
              SeqReq == Seq(Requests)
              SeqUnit == Seq(Unit)
  <1>7. /\ asked \in [Conn -> SeqReq] /\ asked' = [asked EXCEPT ![c] = more] /\ more \in SeqReq
        /\ input \in [Conn -> SeqUnit] /\ input' = [input EXCEPT ![c] = sent] /\ sent \in SeqUnit
        /\ left \in [Conn -> Nat] /\ left' = [left EXCEPT ![c] = 1 + r.body] /\ 1 + r.body \in Nat
    BY <1>1, <1>2, <1>4, <1>5, <1>6 DEF TInv, TypeOK
  <1>8. /\ Len(more) = Len(asked[c]) + 1 /\ more[Len(more)] = r
        /\ Len(sent) = Len(input[c]) + 1 /\ Len(asked[c]) \in Nat /\ Len(input[c]) \in Nat
        /\ \A i \in 1 .. Len(input[c]) : sent[i] = input[c][i]
        /\ sent[Len(input[c]) + 1].n = Len(asked[c]) + 1
    BY <1>2, <1>3, <1>5, <1>6
  <1>. HIDE DEF more, sent, SeqReq, SeqUnit
  <1>9. asked' \in [Conn -> SeqReq] /\ input' \in [Conn -> SeqUnit] /\ left' \in [Conn -> Nat]
    BY <1>7
  <1>10. \A d \in Conn : taken[d] <= Len(input'[d])
    <2>1. TAKE d \in Conn
    <2>2. taken[d] \in Nat /\ taken[d] <= Len(input[d])
      BY DEF TInv, TypeOK
    <2>. QED
      BY <1>7, <1>8, <2>2
  <1>11. LeftBegun'
    <2>1. SUFFICES ASSUME NEW d \in Conn, left'[d] > 0
                   PROVE  /\ Len(asked'[d]) > 0
                          /\ left'[d] <= asked'[d][Len(asked'[d])].body + 1
      BY DEF LeftBegun
    <2>2. CASE d = c
      BY <1>2, <1>7, <1>8, <2>2
    <2>3. CASE d # c
      BY <1>7, <2>1, <2>3 DEF TInv, LeftBegun
    <2>. QED
      BY <2>2, <2>3
  <1>12. UnitsBegun'
    <2>1. ASSUME NEW d \in Conn, NEW n \in 1 .. Len(asked[d]) PROVE n \in 1 .. Len(asked'[d])
      <3>1. Len(asked[d]) \in Nat
        BY DEF TInv, TypeOK
      <3>. QED
        BY <1>7, <1>8, <3>1
    <2>2. \A d \in Conn : \A i \in 1 .. Len(input'[d]) : input'[d][i].n \in 1 .. Len(asked'[d])
      <3>1. TAKE d \in Conn
      <3>2. CASE d # c
        BY <1>7, <3>2 DEF TInv, UnitsBegun
      <3>3. CASE d = c
        <4>1. TAKE i \in 1 .. Len(input'[d])
        <4>2. input'[d] = sent /\ asked'[d] = more
          BY <1>7, <3>3
        <4>3. CASE i \in 1 .. Len(input[c])
          BY <1>8, <2>1, <3>3, <4>2, <4>3 DEF TInv, UnitsBegun
        <4>4. CASE i = Len(input[c]) + 1
          <5>1. sent[i].n = Len(more) /\ Len(more) \in 1 .. Len(more)
            BY <1>8, <4>4
          <5>. QED
            BY <4>2, <5>1
        <4>. QED
          BY <1>8, <4>1, <4>2, <4>3, <4>4
      <3>. QED
        BY <3>2, <3>3
    <2>3. work' = work
      BY DEF AskNext, server
    <2>4. \A w \in work : w.conn \in Conn
      BY DEF TInv, TypeOK, Work
    <2>5. \A w \in work : \A i \in 1 .. Len(w.buf) : w.buf[i].n \in 1 .. Len(asked'[w.conn])
      BY <2>1, <2>4 DEF TInv, UnitsBegun
    <2>. QED
      BY <2>2, <2>3, <2>5 DEF UnitsBegun
  <1>13. /\ hasty' \subseteq Conn
         /\ UNCHANGED <<server, backlog, client, taken, answers>>
    BY DEF AskNext, TInv, TypeOK
  <1>. QED
    BY <1>9, <1>10, <1>11, <1>12, <1>13 DEF TInv, TypeOK, server, SeqReq, SeqUnit

LEMMA SendRestTyped ==
  ASSUME TInv, NEW c \in Conn, SendRest(c)
  PROVE  TInv'
  <1>. DEFINE n == Len(asked[c])
              unit == [n |-> n, part |-> IF left[c] = asked[c][n].body + 1 THEN "tail" ELSE "body"]
  <1>1. /\ left[c] \in Nat /\ left[c] > 0 /\ n \in Nat /\ n > 0 /\ left[c] <= asked[c][n].body + 1
        /\ input[c] \in Seq(Unit)
    BY DEF SendRest, TInv, TypeOK, LeftBegun
  <1>2. /\ input' = [input EXCEPT ![c] = Append(@, unit)]
        /\ left' = [left EXCEPT ![c] = @ - 1]
        /\ UNCHANGED <<server, backlog, client, asked, taken, answers, hasty>>
    BY DEF SendRest
  <1>3. unit \in Unit /\ unit.n = n
    BY <1>1 DEF Unit
  <1>. HIDE DEF unit
  <1>4. /\ Append(input[c], unit) \in Seq(Unit)
        /\ Len(Append(input[c], unit)) = Len(input[c]) + 1
        /\ \A i \in 1 .. Len(input[c]) : Append(input[c], unit)[i] = input[c][i]
        /\ Append(input[c], unit)[Len(input[c]) + 1] = unit
    BY <1>1, <1>3
  <1>. DEFINE sent == Append(input[c], unit)
              SeqUnit == Seq(Unit)
  <1>5. /\ input \in [Conn -> SeqUnit] /\ input' = [input EXCEPT ![c] = sent] /\ sent \in SeqUnit
        /\ left \in [Conn -> Nat] /\ left' = [left EXCEPT ![c] = left[c] - 1] /\ left[c] - 1 \in Nat
    BY <1>1, <1>2, <1>4 DEF TInv, TypeOK
  <1>6. /\ Len(sent) = Len(input[c]) + 1 /\ Len(input[c]) \in Nat
        /\ \A i \in 1 .. Len(input[c]) : sent[i] = input[c][i]
        /\ sent[Len(input[c]) + 1].n = n
    BY <1>1, <1>3, <1>4
  <1>. HIDE DEF sent, SeqUnit
  <1>7. input' \in [Conn -> SeqUnit] /\ left' \in [Conn -> Nat]
    BY <1>5
  <1>8. \A d \in Conn : taken[d] <= Len(input'[d])
    <2>1. TAKE d \in Conn
    <2>2. taken[d] \in Nat /\ taken[d] <= Len(input[d])
      BY DEF TInv, TypeOK
    <2>. QED
      BY <1>5, <1>6, <2>2
  <1>9. LeftBegun'
    <2>1. SUFFICES ASSUME NEW d \in Conn, left'[d] > 0
                   PROVE  /\ Len(asked[d]) > 0
                          /\ left'[d] <= asked[d][Len(asked[d])].body + 1
      BY <1>2 DEF LeftBegun
    <2>2. CASE d = c
      <3>1. asked[c] \in Seq(Requests) /\ asked[c][n] \in Requests
        BY <1>1, ElementOfSeq DEF TInv, TypeOK
      <3>2. asked[c][n].body \in Nat
        BY <3>1, RequestAssumption, SizeAssumption
      <3>3. left'[d] = left[c] - 1
        BY <1>5, <2>2
      <3>. QED
        BY <1>1, <2>2, <3>2, <3>3
    <2>3. CASE d # c
      BY <1>5, <2>1, <2>3 DEF TInv, LeftBegun
    <2>. QED
      BY <2>2, <2>3
  <1>10. UnitsBegun'
    <2>1. ASSUME NEW d \in Conn, NEW i \in 1 .. Len(input'[d])
          PROVE  input'[d][i].n \in 1 .. Len(asked[d])
      <3>1. CASE d # c
        BY <1>5, <2>1, <3>1 DEF TInv, UnitsBegun
      <3>2. CASE d = c /\ i \in 1 .. Len(input[c])
        BY <1>5, <1>6, <3>2 DEF TInv, UnitsBegun
      <3>3. CASE d = c /\ i = Len(input[c]) + 1
        BY <1>1, <1>5, <1>6, <3>3
      <3>. QED
        BY <1>5, <1>6, <2>1, <3>1, <3>2, <3>3
    <2>. QED
      BY <1>2, <2>1 DEF UnitsBegun, TInv, server
  <1>. QED
    BY <1>2, <1>7, <1>8, <1>9, <1>10 DEF TInv, TypeOK, server, SeqUnit

LEMMA TInvInit == Init => TInv
  <1>. SUFFICES ASSUME Init PROVE TInv
    OBVIOUS
  <1>. DEFINE none == <<>>
  <1>1. /\ none \in Seq(Requests) /\ none \in Seq(Unit)
        /\ none \in Seq([to : Nat, body : Seq(Unit)]) /\ Len(none) = 0
    BY NoUnits
  <1>2. /\ asked = [c \in Conn |-> none] /\ input = [c \in Conn |-> none]
        /\ answers = [c \in Conn |-> none]
    BY DEF Init
  <1>. HIDE DEF none
  <1>3. /\ asked \in [Conn -> Seq(Requests)] /\ input \in [Conn -> Seq(Unit)]
        /\ answers \in [Conn -> Seq([to : Nat, body : Seq(Unit)])]
    BY <1>1, <1>2
  <1>4. table \in [DOMAIN Offered -> SUBSET Methods]
    <2>1. table = Offered
      BY DEF Init
    <2>2. "GET" \in Methods /\ "POST" \in Methods
      BY DEF Methods
    <2>. QED
      BY <2>1, <2>2 DEF Offered
  <1>5. TypeOK
    BY <1>1, <1>2, <1>3, <1>4 DEF Init, TypeOK
  <1>6. UnitsBegun /\ LeftBegun
    BY <1>1, <1>2 DEF Init, UnitsBegun, LeftBegun
  <1>. QED
    BY <1>5, <1>6 DEF TInv

LEMMA TInvNext == TInv /\ [Next]_vars => TInv'
  <1>. SUFFICES ASSUME TInv, [Next]_vars PROVE TInv'
    OBVIOUS
  <1>1. CASE UNCHANGED vars
    BY <1>1 DEF TInv, TypeOK, UnitsBegun, LeftBegun, vars, server, peers
  <1>2. ASSUME NEW c \in Conn, Serve(c) PROVE TInv'
    BY <1>2, AcceptTyped, HandlerTyped DEF Serve
  <1>3. ASSUME NEW c \in Conn, Connect(c) PROVE TInv'
    BY <1>3 DEF TInv, TypeOK, UnitsBegun, LeftBegun, Connect, server
  <1>4. ASSUME NEW c \in Conn, Close(c) PROVE TInv'
    BY <1>4 DEF TInv, TypeOK, UnitsBegun, LeftBegun, Close, server
  <1>. QED
    BY <1>1, <1>2, <1>3, <1>4, AskNextTyped, SendRestTyped DEF Next

(* Every variable keeps its type, whatever is sent and in whatever pieces  *)
(* it is read (server_base.h:92-200).                                      *)
THEOREM WebTyped == Spec => []TypeOK
  <1>1. TInv => TypeOK
    BY DEF TInv
  <1>. QED
    BY <1>1, TInvInit, TInvNext, PTL DEF Spec

-----------------------------------------------------------------------------
(* One operation for each connection.                                      *)

(* A connection nobody has made is nowhere in the server.                  *)
AwayIsNowhere ==
  \A c \in Conn : client[c] = "away" => c \notin backlog /\ \A w \in work : w.conn # c

OInv == OneOperation /\ AwayIsNowhere

(* A handler leaves at most one operation, of the same connection, in its  *)
(* own place.                                                              *)
InPlace(w) == \E new \in Work : new.conn = w.conn /\ Becomes(w, {new})
LEMMA HandlerInPlace ==
  ASSUME TInv, NEW w \in work, Handler(w)
  PROVE  /\ UNCHANGED <<accepts, backlog>>
         /\ InPlace(w) \/ Becomes(w, {}) \/ work' = work
         /\ \A c \in Conn : client'[c] = "away" => client[c] = "away"
  <1>1. w \in Work /\ w.conn \in Conn /\ work' \subseteq Work
    BY HandlerTyped DEF TInv, TypeOK, Work
  <1>2. UNCHANGED <<accepts, backlog>>
    BY DEF Handler, HandshakeDone, Fails, ReadHeader, ReadBody, Take, BodyDone, LookUp, Call,
           Terminate, WriteOut, Written, peers
  <1>3. \/ client' = client
        \/ client' = [client EXCEPT ![w.conn] = "up"]
        \/ client' = [client EXCEPT ![w.conn] = "closed"]
    BY DEF Handler, HandshakeDone, Fails, Drop, ReadHeader, ReadBody, Take, BodyDone, LookUp,
           Call, Terminate, WriteOut, Written, peers
  <1>4. \A c \in Conn : client'[c] = "away" => client[c] = "away"
    BY <1>1, <1>3 DEF TInv, TypeOK
  <1>5. ASSUME NEW new, Becomes(w, {new}), new.conn = w.conn PROVE InPlace(w)
    BY <1>1, <1>5 DEF Becomes, InPlace
  <1>6. ASSUME NEW stage PROVE At(w, stage).conn = w.conn
    BY <1>1 DEF At, Work
  <1>7. Reading(w.conn).conn = w.conn
    BY DEF Reading
  <1>8. InPlace(w) \/ Becomes(w, {}) \/ work' = work
    <2>1. CASE HandshakeDone(w) \/ BodyDone(w) \/ WriteOut(w)
      BY <1>5, <1>6, <1>7, <2>1 DEF HandshakeDone, BodyDone, WriteOut
    <2>2. CASE Fails(w) \/ Written(w)
      BY <1>5, <1>7, <2>2 DEF Fails, Written, Drop, Terminate
    <2>3. CASE LookUp(w)
      BY <1>5, <1>6, <2>3 DEF LookUp, Terminate
    <2>4. CASE Call(w)
      <3>. DEFINE new == At([w EXCEPT !.buf = Echo(w.req, @)], "write")
      <3>1. new.conn = w.conn
        BY <1>1 DEF At, Work
      <3>2. Becomes(w, {new}) \/ work' = work
        BY <2>4 DEF Call, Answering, Terminate
      <3>. HIDE DEF new
      <3>. QED
        BY <1>5, <3>1, <3>2
    <2>5. CASE ReadBody(w)
      <3>1. PICK k \in 1 .. Available(w.conn) :
              Becomes(w, {[w EXCEPT !.buf = Read(w, k), !.need = @ - k]})
        BY <2>5 DEF ReadBody
      <3>. DEFINE new == [w EXCEPT !.buf = Read(w, k), !.need = @ - k]
      <3>2. new.conn = w.conn
        BY <1>1 DEF Work
      <3>. QED
        BY <1>5, <3>1, <3>2
    <2>6. CASE ReadHeader(w) /\ ~ Terminate
      <3>1. PICK k \in 1 .. Available(w.conn) :
              \/ Becomes(w, {[w EXCEPT !.buf = Read(w, k)]})
              \/ \E i \in DOMAIN Read(w, k) : Becomes(w, {Parsed(w, Read(w, k), i)})
        BY <2>6, HeaderRead
      <3>2. [w EXCEPT !.buf = Read(w, k)].conn = w.conn
        BY <1>1 DEF Work
      <3>3. \A i \in DOMAIN Read(w, k) : Parsed(w, Read(w, k), i).conn = w.conn
        <4>1. Read(w, k) \in Seq(Unit)
          BY ReadType
        <4>2. \A i \in 1 .. Len(Read(w, k)) : Read(w, k)[i].n \in 1 .. Len(asked[w.conn])
          BY ReadType
        <4>. DEFINE buf == Read(w, k)
        <4>. HIDE DEF buf
        <4>3. \A i \in 1 .. Len(buf) : Parsed(w, buf, i).conn = w.conn
          BY <4>1, <4>2, ParsedType DEF buf
        <4>. QED
          BY <4>1, <4>3 DEF buf
      <3>. QED
        BY <1>5, <3>1, <3>2, <3>3
    <2>7. Terminate => work' = work
      BY DEF Terminate
    <2>. QED
      BY <2>1, <2>2, <2>3, <2>4, <2>5, <2>6, <2>7 DEF Handler
  <1>. QED
    BY <1>2, <1>4, <1>8

LEMMA OInvNext == TInv /\ OInv /\ [Next]_vars => OInv'
  <1>. SUFFICES ASSUME TInv, OInv, [Next]_vars PROVE OInv'
    OBVIOUS
  <1>. USE DEF OInv, OneOperation, AwayIsNowhere
  <1>1. CASE UNCHANGED vars
    BY <1>1 DEF vars, server, peers
  <1>2. ASSUME NEW c \in Conn, Accept(c) \/ AcceptFails(c) PROVE OInv'
    <2>1. /\ accepts' = accepts - 1 + 1 /\ accepts = 1
          /\ c \in backlog /\ backlog' = backlog \ {c} /\ client' = client
      BY <1>2 DEF Accept, AcceptFails, Again
    <2>2. work' = work \/ \E new : new.conn = c /\ work' = work \cup {new}
      <3>1. IF https THEN At(Reading(c), "handshake").conn = c ELSE Reading(c).conn = c
        BY ReadingType
      <3>. QED
        BY <1>2, <3>1 DEF Accept, AcceptFails
    <2>. QED
      BY <2>1, <2>2
  <1>3. ASSUME NEW w \in work, Handler(w) PROVE OInv'
    <2>1. /\ UNCHANGED <<accepts, backlog>>
          /\ InPlace(w) \/ Becomes(w, {}) \/ work' = work
          /\ \A c \in Conn : client'[c] = "away" => client[c] = "away"
      BY <1>3, HandlerInPlace
    <2>. QED
      BY <2>1 DEF InPlace, Becomes
  <1>4. ASSUME NEW c \in Conn, Connect(c) PROVE OInv'
    <2>1. /\ client[c] = "away" /\ backlog' = backlog \cup {c} /\ UNCHANGED <<accepts, work>>
          /\ client' = [client EXCEPT ![c] = IF https THEN "calling" ELSE "up"]
      BY <1>4 DEF Connect, server
    <2>2. client'[c] # "away" /\ \A d \in Conn : d # c => client'[d] = client[d]
      BY <2>1 DEF TInv, TypeOK
    <2>. QED
      BY <2>1, <2>2
  <1>5. ASSUME NEW c \in Conn, AskNext(c) \/ SendRest(c) PROVE OInv'
    BY <1>5 DEF AskNext, SendRest, server
  <1>6. ASSUME NEW c \in Conn, Close(c) PROVE OInv'
    <2>1. UNCHANGED <<accepts, work, backlog>> /\ client' = [client EXCEPT ![c] = "closed"]
      BY <1>6 DEF Close, server
    <2>2. \A d \in Conn : client'[d] = "away" => client[d] = "away"
      BY <2>1 DEF TInv, TypeOK
    <2>. QED
      BY <2>1, <2>2
  <1>. QED
    BY <1>1, <1>2, <1>3, <1>4, <1>5, <1>6 DEF Next, Serve

(* A connection has at most one operation or one handler, and the acceptor *)
(* one operation: handlers that take no lock never meet on a connection    *)
(* (server_base.h:140-146, 159-199; server_http.h:28-33).                  *)
THEOREM OneAtATime == Spec => []OneOperation
  <1>1. Init => OInv
    BY DEF Init, OInv, OneOperation, AwayIsNowhere
  <1>2. OInv => OneOperation
    BY DEF OInv
  <1>. QED
    BY <1>1, <1>2, TInvInit, TInvNext, OInvNext, PTL DEF Spec

-----------------------------------------------------------------------------
(* Clients that wait for their answers.                                    *)

(* What such a client c has sent from position b of its stream on: nothing *)
(* (and all it asked before is answered), or a part of its last request.   *)
Idle(c, b) ==
  /\ b = Len(input[c]) /\ left[c] = 0
  /\ Len(answers[c]) = Len(asked[c]) \/ client[c] = "closed"
Pending(c) == Len(asked[c]) > 0 /\ Len(answers[c]) = Len(asked[c]) - 1
Sending(c, b) ==
  /\ Pending(c)
  /\ Len(input[c]) > b
  /\ Len(input[c]) - b + left[c] = asked[c][Len(asked[c])].body + 2
  /\ input[c][b + 1].part = "head" /\ input[c][b + 1].n = Len(asked[c])
  /\ Len(input[c]) > b + 1 => input[c][b + 2].part = "tail"
Fresh(c, b) == Idle(c, b) \/ Sending(c, b)

(* The buffer holds the last units that have been read.                    *)
InBuffer(w) ==
  /\ Len(w.buf) <= taken[w.conn]
  /\ \A i \in 1 .. Len(w.buf) : w.buf[i] = input[w.conn][taken[w.conn] - Len(w.buf) + i]

(* A buffer starts with the first unit of a request, a body is waited for  *)
(* until just the end of that request, and then nothing more has come.     *)
HandlerTurn(w) ==
  /\ w.at = "handshake" => taken[w.conn] = 0 /\ Fresh(w.conn, 0)
  /\ w.at = "read" => InBuffer(w) /\ Fresh(w.conn, taken[w.conn] - Len(w.buf))
  /\ w.at \in {"body", "lookup", "call", "write"} =>
       Pending(w.conn) /\ w.req = asked[w.conn][Len(asked[w.conn])]
  /\ w.at = "body" => w.need = Len(input[w.conn]) - taken[w.conn] + left[w.conn]
  /\ w.at \in {"lookup", "call", "write"} =>
       taken[w.conn] = Len(input[w.conn]) /\ left[w.conn] = 0
  /\ w.at = "written" =>
       /\ Fresh(w.conn, taken[w.conn])
       /\ \E i \in 1 .. Len(asked[w.conn]) : w.req = asked[w.conn][i]
Turn(c) ==
  /\ client[c] = "away" \/ c \in backlog => taken[c] = 0 /\ Fresh(c, 0)
  /\ \A w \in work : w.conn = c => HandlerTurn(w)

KInv == \A c \in Conn \ hasty : Turn(c)

(* What goes on elsewhere.                                                 *)
LEMMA TurnElsewhere ==
  ASSUME NEW c \in Conn, Turn(c),
         asked'[c] = asked[c], left'[c] = left[c], input'[c] = input[c],
         taken'[c] = taken[c], answers'[c] = answers[c],
         client[c] = "closed" => client'[c] = "closed",
         client'[c] = "away" => client[c] = "away",
         c \in backlog' => client[c] = "away" \/ c \in backlog,
         \A w \in work' : w.conn = c => w \in work
  PROVE  Turn(c)'
  <1>1. ASSUME NEW b, Fresh(c, b) PROVE Fresh(c, b)'
    BY <1>1 DEF Fresh, Idle, Sending, Pending
  <1>2. Pending(c) => Pending(c)'
    BY DEF Pending
  <1>3. ASSUME NEW w \in work', w.conn = c PROVE HandlerTurn(w)'
    <2>1. w \in work /\ HandlerTurn(w)
      BY <1>3 DEF Turn
    <2>2. w.at = "read" => InBuffer(w)'
      BY <1>3, <2>1 DEF HandlerTurn, InBuffer
    <2>. QED
      BY <1>1, <1>2, <1>3, <2>1, <2>2 DEF HandlerTurn
  <1>. QED
    BY <1>1, <1>3 DEF Turn

(* The new operation of a connection is its only one.                      *)
LEMMA OwnTurn ==
  ASSUME TInv, OInv, NEW w \in work, NEW new, Becomes(w, {new}), backlog' = backlog,
         client'[w.conn] = client[w.conn] \/ client'[w.conn] # "away"
  PROVE  /\ \A v \in work' : v.conn = w.conn => v = new
         /\ client'[w.conn] # "away" /\ w.conn \notin backlog'
  <1>1. w.conn \in Conn
    BY DEF TInv, TypeOK, Work
  <1>. QED
    BY <1>1 DEF OInv, OneOperation, AwayIsNowhere, Becomes

(* What a patient client does next.                                        *)
LEMMA AskNextTurn ==
  ASSUME TInv, OInv, NEW c \in Conn, AskNext(c), c \notin hasty', Turn(c)
  PROVE  Turn(c)'
  <1>1. PICK r \in Requests :
          /\ asked' = [asked EXCEPT ![c] = Append(asked[c], r)]
          /\ left' = [left EXCEPT ![c] = 1 + r.body]
    BY DEF AskNext
  <1>. DEFINE unit == [n |-> Len(asked[c]) + 1, part |-> "head"]
              L == Len(asked[c])
              I == Len(input[c])
              A == Len(answers[c])
  <1>2. /\ client[c] = "up" /\ left[c] = 0
        /\ input' = [input EXCEPT ![c] = Append(input[c], unit)]
        /\ UNCHANGED <<work, backlog, client, taken, answers>>
    BY DEF AskNext, server
  <1>3. /\ asked[c] \in Seq(Requests) /\ input[c] \in Seq(Unit) /\ r.body \in Nat
        /\ taken[c] \in Nat /\ taken[c] <= I
    BY RequestAssumption, SizeAssumption DEF TInv, TypeOK
  <1>4. unit \in Unit /\ unit.n = L + 1 /\ unit.part = "head"
    BY <1>3 DEF Unit
  <1>. HIDE DEF unit
  <1>5. /\ Len(Append(asked[c], r)) = L + 1 /\ Append(asked[c], r)[L + 1] = r
        /\ \A i \in 1 .. L : Append(asked[c], r)[i] = asked[c][i]
    BY <1>3
  <1>6. /\ Len(Append(input[c], unit)) = I + 1 /\ Append(input[c], unit)[I + 1] = unit
        /\ \A i \in 1 .. I : Append(input[c], unit)[i] = input[c][i]
    BY <1>3, <1>4
  <1>7. asked'[c] = Append(asked[c], r) /\ input'[c] = Append(input[c], unit) /\ left'[c] = 1 + r.body
    BY <1>1, <1>2 DEF TInv, TypeOK
  <1>8. L \in Nat /\ I \in Nat /\ A \in Nat
    BY <1>3 DEF TInv, TypeOK
  <1>9. A >= L
    BY <1>8 DEF AskNext
  <1>. DEFINE asks == asked'[c]
              ins == input'[c]
  <1>10. /\ Len(asks) = L + 1 /\ asks[L + 1] = r /\ \A i \in 1 .. L : asks[i] = asked[c][i]
         /\ Len(ins) = I + 1 /\ ins[I + 1].n = L + 1 /\ ins[I + 1].part = "head"
         /\ \A i \in 1 .. I : ins[i] = input[c][i]
    BY <1>4, <1>5, <1>6, <1>7
  <1>11. ~ Pending(c)
    BY <1>8, <1>9 DEF Pending
  <1>12. ASSUME NEW b \in Nat, Fresh(c, b) PROVE Fresh(c, b)'
    <2>1. b = I /\ A = L
      BY <1>2, <1>11, <1>12 DEF Fresh, Idle, Sending
    <2>2. Pending(c)'
      BY <1>2, <1>8, <1>10, <2>1 DEF Pending
    <2>3. Len(asked[c])' = L + 1 /\ Len(input[c])' = I + 1 /\ asked[c]' = asks /\ input[c]' = ins
      BY <1>10
    <2>4. Sending(c, b)'
      BY <1>3, <1>7, <1>8, <1>10, <2>1, <2>2, <2>3 DEF Sending
    <2>. QED
      BY <2>4 DEF Fresh
  <1>13. ASSUME NEW w \in work, w.conn = c PROVE HandlerTurn(w)'
    <2>1. HandlerTurn(w) /\ w \in Work
      BY <1>13 DEF Turn, TInv, TypeOK
    <2>2. w.at \notin {"body", "lookup", "call", "write"}
      BY <1>11, <1>13, <2>1 DEF HandlerTurn
    <2>3. w.at = "handshake" => taken'[c] = 0 /\ Fresh(c, 0)'
      BY <1>2, <1>12, <1>13, <2>1 DEF HandlerTurn
    <2>4. ASSUME w.at = "read" PROVE InBuffer(w)' /\ Fresh(c, taken[c] - Len(w.buf))'
      <3>1. InBuffer(w) /\ Fresh(c, taken[c] - Len(w.buf)) /\ Len(w.buf) \in Nat
        BY <1>13, <2>1, <2>4 DEF HandlerTurn, Work
      <3>2. Len(w.buf) <= taken[c] /\ taken[c] - Len(w.buf) \in Nat
        BY <1>3, <1>13, <3>1 DEF InBuffer
      <3>3. Fresh(c, taken[c] - Len(w.buf))'
        <4>. DEFINE b == taken[c] - Len(w.buf)
        <4>1. b \in Nat /\ Fresh(c, b) /\ b' = b
          BY <1>2, <3>1, <3>2
        <4>. HIDE DEF b
        <4>2. PICK b0 \in Nat : b0 = b
          BY <4>1
        <4>3. Fresh(c, b0)'
          BY <1>12, <4>1, <4>2
        <4>. QED
          BY <4>1, <4>2, <4>3 DEF b
      <3>4. InBuffer(w)'
        <4>1. \A i \in 1 .. Len(w.buf) : taken[c] - Len(w.buf) + i \in 1 .. I
          BY <1>3, <1>8, <3>1, <3>2, SMTT(30)
        <4>2. \A i \in 1 .. Len(w.buf) : w.buf[i] = input[c][taken[c] - Len(w.buf) + i]
          BY <1>13, <3>1 DEF InBuffer
        <4>. QED
          BY <1>2, <1>10, <1>13, <3>2, <4>1, <4>2 DEF InBuffer
      <3>. QED
        BY <3>3, <3>4
    <2>5. ASSUME w.at = "written"
          PROVE  Fresh(c, taken[c])' /\ \E i \in 1 .. Len(asks) : w.req = asks[i]
      <3>1. PICK t \in Nat : t = taken[c]
        BY <1>3
      <3>2. Fresh(c, t) /\ taken'[c] = t
        BY <1>2, <1>13, <2>1, <2>5, <3>1 DEF HandlerTurn
      <3>3. Fresh(c, t)'
        BY <1>12, <3>2
      <3>4. \E i \in 1 .. L : w.req = asked[c][i]
        BY <1>13, <2>1, <2>5 DEF HandlerTurn
      <3>. QED
        BY <1>8, <1>10, <3>2, <3>3, <3>4
    <2>. QED
      BY <1>2, <1>13, <2>2, <2>3, <2>4, <2>5 DEF HandlerTurn
  <1>14. client'[c] # "away" /\ (c \in backlog' => taken'[c] = 0 /\ Fresh(c, 0)')
    BY <1>2, <1>12 DEF Turn
  <1>. QED
    BY <1>2, <1>13, <1>14 DEF Turn

LEMMA SendRestTurn ==
  ASSUME TInv, OInv, NEW c \in Conn, SendRest(c), Turn(c)
  PROVE  Turn(c)'
  <1>. DEFINE L == Len(asked[c])
              I == Len(input[c])
              body == asked[c][L].body
              unit == [n |-> L, part |-> IF left[c] = body + 1 THEN "tail" ELSE "body"]
  <1>1. /\ client[c] = "up" /\ left[c] > 0
        /\ input' = [input EXCEPT ![c] = Append(input[c], unit)]
        /\ left' = [left EXCEPT ![c] = left[c] - 1]
        /\ UNCHANGED <<work, backlog, client, asked, taken, answers>>
    BY DEF SendRest, server
  <1>2. /\ input[c] \in Seq(Unit) /\ taken[c] \in Nat /\ taken[c] <= I /\ I \in Nat
        /\ L \in Nat /\ L > 0 /\ left[c] \in Nat
    BY <1>1 DEF TInv, TypeOK, LeftBegun
  <1>3. body \in Nat
    <2>1. asked[c] \in Seq(Requests)
      BY DEF TInv, TypeOK
    <2>2. asked[c][L] \in Requests
      BY <1>2, <2>1, ElementOfSeq
    <2>. QED
      BY <2>2, RequestAssumption, SizeAssumption
  <1>4. unit \in Unit /\ (left[c] = body + 1 => unit.part = "tail")
    BY <1>2 DEF Unit
  <1>. DEFINE ins == Append(input[c], unit)
  <1>. HIDE DEF unit
  <1>5. /\ Len(ins) = I + 1 /\ ins[I + 1] = unit
        /\ \A i \in 1 .. I : ins[i] = input[c][i]
    BY <1>2, <1>4
  <1>6. input'[c] = ins /\ left'[c] = left[c] - 1
    BY <1>1 DEF TInv, TypeOK
  <1>. HIDE DEF ins
  <1>. HIDE DEF body, I
  <1>11. UNCHANGED <<work, backlog, client, asked, taken, answers>>
    BY <1>1
  <1>7. ASSUME NEW b \in Nat, Fresh(c, b) PROVE Fresh(c, b)'
    <2>1. Sending(c, b)
      BY <1>1, <1>7 DEF Fresh, Idle
    <2>2. Pending(c)'
      BY <1>1, <2>1 DEF Sending, Pending
    <2>3. Len(input[c])' = I + 1 /\ input[c]' = ins /\ asked[c]' = asked[c] /\ left[c]' = left[c] - 1
      BY <1>1, <1>5, <1>6
    <2>7. I > b /\ I - b + left[c] = body + 2
      BY <2>1 DEF Sending, I, body
    <2>8. b + 1 \in 1 .. I
      BY <1>2, <2>7
    <2>4. ins[b + 1].part = "head" /\ ins[b + 1].n = L
      BY <1>5, <2>1, <2>8 DEF Sending
    <2>5. ins[b + 2].part = "tail"
      <3>1. CASE I > b + 1
        <4>1. b + 2 \in 1 .. I
          BY <1>2, <3>1
        <4>2. input[c][b + 2].part = "tail"
          BY <2>1, <3>1 DEF Sending, I
        <4>. QED
          BY <1>5, <4>1, <4>2
      <3>2. CASE I = b + 1
        <4>1. left[c] = body + 1
          BY <1>2, <1>3, <2>7, <3>2
        <4>2. b + 2 = I + 1
          BY <3>2
        <4>. QED
          BY <1>4, <1>5, <4>1, <4>2
      <3>. QED
        BY <1>2, <2>7, <3>1, <3>2
    <2>6. Sending(c, b)'
      <3>2. Len(asked'[c]) = L /\ asked'[c][L].body = body
        BY <2>3 DEF body
      <3>3. Len(input'[c]) = I + 1 /\ input'[c] = ins /\ left'[c] = left[c] - 1
        BY <1>5, <1>6
      <3>4. /\ Len(input'[c]) > b
            /\ Len(input'[c]) - b + left'[c] = asked'[c][Len(asked'[c])].body + 2
        <4>. DEFINE more == Len(input'[c])
                    less == left'[c]
                    l == left[c]
        <4>1. more = I + 1 /\ less = l - 1 /\ l \in Nat /\ I \in Nat /\ body \in Nat
          BY <1>2, <1>3, <3>3 DEF I
        <4>2. I > b /\ I - b + l = body + 2
          BY <2>7
        <4>. HIDE DEF more, less, l
        <4>3. more > b /\ more - b + less = body + 2
          BY <4>1, <4>2
        <4>4. asked'[c][Len(asked'[c])].body = body
          BY <3>2
        <4>. QED
          BY <4>3, <4>4 DEF more, less
      <3>5. input'[c][b + 1].part = "head" /\ input'[c][b + 1].n = Len(asked'[c])
        BY <2>4, <3>2, <3>3
      <3>. QED
        BY <2>2, <2>5, <3>3, <3>4, <3>5 DEF Sending
    <2>. QED
      BY <2>6 DEF Fresh
  <1>8. ASSUME NEW w \in work, w.conn = c PROVE HandlerTurn(w)'
    <2>1. HandlerTurn(w) /\ w \in Work
      BY <1>8 DEF Turn, TInv, TypeOK
    <2>2. w.at \notin {"lookup", "call", "write"}
      BY <1>1, <1>8, <2>1 DEF HandlerTurn
    <2>3. w.at = "handshake" => taken'[c] = 0 /\ Fresh(c, 0)'
      BY <1>1, <1>7, <1>8, <2>1 DEF HandlerTurn
    <2>4. ASSUME w.at = "read" PROVE InBuffer(w)' /\ Fresh(c, taken[c] - Len(w.buf))'
      <3>1. InBuffer(w) /\ Fresh(c, taken[c] - Len(w.buf)) /\ Len(w.buf) \in Nat
        BY <1>8, <2>1, <2>4 DEF HandlerTurn, Work
      <3>2. Len(w.buf) <= taken[c] /\ taken[c] - Len(w.buf) \in Nat
        BY <1>2, <1>8, <3>1 DEF InBuffer
      <3>3. Fresh(c, taken[c] - Len(w.buf))'
        <4>. DEFINE b == taken[c] - Len(w.buf)
        <4>1. b \in Nat /\ Fresh(c, b) /\ b' = b
          BY <1>1, <3>1, <3>2
        <4>. HIDE DEF b
        <4>2. PICK b0 \in Nat : b0 = b
          BY <4>1
        <4>3. Fresh(c, b0)'
          BY <1>7, <4>1, <4>2
        <4>. QED
          BY <4>1, <4>2, <4>3 DEF b
      <3>4. InBuffer(w)'
        <4>1. \A i \in 1 .. Len(w.buf) : taken[c] - Len(w.buf) + i \in 1 .. I
          BY <1>2, <3>1, <3>2
        <4>2. \A i \in 1 .. Len(w.buf) : w.buf[i] = input[c][taken[c] - Len(w.buf) + i]
          BY <1>8, <3>1 DEF InBuffer
        <4>. QED
          BY <1>5, <1>6, <1>8, <1>11, <3>2, <4>1, <4>2 DEF InBuffer
      <3>. QED
        BY <3>3, <3>4
    <2>5. w.at = "body" => w.need = Len(input'[c]) - taken[c] + left'[c]
      <3>1. w.at = "body" => w.need = I - taken[c] + left[c]
        BY <1>8, <2>1 DEF HandlerTurn, I
      <3>2. Len(input'[c]) = I + 1
        BY <1>5, <1>6
      <3>3. Len(input'[c]) - taken[c] + left'[c] = I - taken[c] + left[c]
        <4>. DEFINE more == Len(input'[c])
                    less == left'[c]
                    t == taken[c]
                    l == left[c]
        <4>1. more = I + 1 /\ less = l - 1 /\ l \in Nat /\ I \in Nat /\ t \in Nat
          BY <1>2, <1>6, <3>2 DEF I
        <4>. HIDE DEF more, less, t, l
        <4>2. more - t + less = I - t + l
          BY <4>1
        <4>. QED
          BY <4>2 DEF more, less, t, l
      <3>. QED
        BY <3>1, <3>3
    <2>6. w.at = "body" => Pending(c)' /\ w.req = asked[c][L]
      BY <1>1, <1>8, <2>1 DEF HandlerTurn, Pending
    <2>7. ASSUME w.at = "written"
          PROVE  Fresh(c, taken[c])' /\ \E i \in 1 .. L : w.req = asked[c][i]
      <3>1. PICK t \in Nat : t = taken[c]
        BY <1>2
      <3>2. Fresh(c, t) /\ taken'[c] = t
        BY <1>1, <1>8, <2>1, <2>7, <3>1 DEF HandlerTurn
      <3>3. Fresh(c, t)'
        BY <1>7, <3>2
      <3>. QED
        BY <1>8, <2>1, <2>7, <3>2, <3>3 DEF HandlerTurn
    <2>. QED
      BY <1>1, <1>8, <2>2, <2>3, <2>4, <2>5, <2>6, <2>7 DEF HandlerTurn
  <1>9. client'[c] # "away" /\ (c \in backlog' => taken'[c] = 0 /\ Fresh(c, 0)')
    BY <1>1, <1>7 DEF Turn
  <1>. QED
    BY <1>1, <1>8, <1>9 DEF Turn

LEMMA AcceptTurn ==
  ASSUME TInv, OInv, NEW c \in Conn, Accept(c), Turn(c)
  PROVE  Turn(c)'
  <1>1. PICK new : /\ new = IF https THEN At(Reading(c), "handshake") ELSE Reading(c)
                   /\ work' = work \cup {new}
    BY DEF Accept
  <1>2. /\ c \in backlog /\ c \notin backlog'
        /\ UNCHANGED <<client, asked, left, input, taken, answers>>
    BY DEF Accept
  <1>3. /\ new.conn = c /\ new.at \in {"handshake", "read"} /\ Len(new.buf) = 0
    BY <1>1, ReadingType, NoUnits
  <1>4. /\ client[c] # "away" /\ \A w \in work : w.conn # c
    BY <1>2 DEF OInv, OneOperation, AwayIsNowhere
  <1>5. taken[c] = 0 /\ Fresh(c, 0)'
    BY <1>2 DEF Turn, Fresh, Idle, Sending, Pending
  <1>6. InBuffer(new)'
    BY <1>2, <1>3, <1>5 DEF InBuffer
  <1>7. taken'[c] - Len(new.buf) = 0 /\ taken'[c] = 0
    BY <1>2, <1>3, <1>5
  <1>8. HandlerTurn(new)'
    BY <1>3, <1>5, <1>6, <1>7 DEF HandlerTurn
  <1>. QED
    BY <1>1, <1>2, <1>4, <1>8 DEF Turn

(* What the server does with the stream of such a client.                  *)
LEMMA HeaderParsed ==
  ASSUME TInv, NEW w \in work, w.at = "read", InBuffer(w), NEW k \in 1 .. Available(w.conn),
         NEW i \in 1 .. Len(Read(w, k)), EndsHeader(Read(w, k), i),
         Fresh(w.conn, taken[w.conn] - Len(w.buf))
  PROVE  /\ Pending(w.conn)
         /\ Request(w.conn, Read(w, k)) = asked[w.conn][Len(asked[w.conn])]
         /\ i = 2
         /\ Request(w.conn, Read(w, k)).body + 2
              = Len(input[w.conn]) - (taken[w.conn] - Len(w.buf)) + left[w.conn]
  <1>. DEFINE c == w.conn
              m == Len(w.buf)
              t == taken[c]
              I == Len(input[c])
              b == t - m
              buf == Read(w, k)
  <1>1. /\ c \in Conn /\ m \in Nat /\ t \in Nat /\ I \in Nat /\ k \in Nat /\ k > 0
        /\ t + k <= I /\ m <= t
    <2>1. w \in Work /\ c \in Conn /\ m \in Nat
      BY DEF TInv, TypeOK, Work
    <2>2. t \in Nat /\ input[c] \in Seq(Unit) /\ t + k <= I
      BY ReadType
    <2>3. m <= t
      BY DEF InBuffer
    <2>4. k \in Nat /\ k > 0
      BY <2>2 DEF Available
    <2>. QED
      BY <2>1, <2>2, <2>3, <2>4
  <1>2. Len(buf) = m + k
    BY ReadType
  <1>3. \A j \in 1 .. m : buf[j] = input[c][b + j]
    BY ReadType DEF InBuffer
  <1>4. \A j \in 1 .. k : buf[m + j] = input[c][t + j]
    BY ReadType
  <1>5. Fresh(c, b)
    OBVIOUS
  <1>. HIDE DEF buf, m, t, I
  <1>6. b \in Nat /\ b + m = t /\ b < I
    BY <1>1
  <1>7. ASSUME NEW j \in 1 .. Len(buf) PROVE buf[j] = input[c][b + j]
    <2>1. CASE j <= m
      BY <1>1, <1>2, <1>3, <1>7, <2>1
    <2>2. CASE ~ (j <= m)
      <3>1. PICK d \in 1 .. k : d = j - m
        BY <1>1, <1>2, <1>7, <2>2
      <3>2. j = m + d /\ t + d = b + j
        BY <1>1, <1>6, <1>7, <3>1
      <3>3. buf[m + d] = input[c][t + d]
        BY <1>4, <3>1
      <3>. QED
        BY <3>2, <3>3
    <2>. QED
      BY <2>1, <2>2
  <1>8. Sending(c, b)
    BY <1>1, <1>5, <1>6 DEF Fresh, Idle, I
  <1>9. buf[1].part = "head" /\ buf[1].n = Len(asked[c])
    <2>1. 1 \in 1 .. Len(buf)
      BY <1>1, <1>2
    <2>2. buf[1] = input[c][b + 1]
      BY <1>7, <2>1
    <2>. QED
      BY <1>8, <2>2 DEF Sending
  <1>10. i = 2
    <2>1. i \in 1 .. Len(buf) /\ EndsHeader(buf, i)
      BY DEF buf
    <2>2. i # 1
      BY <1>9, <2>1 DEF EndsHeader
    <2>3. i \in Nat /\ i >= 2 /\ 2 \in 1 .. Len(buf) /\ Len(buf) <= I - b
      BY <1>1, <1>2, <1>6, <2>1, <2>2
    <2>4. buf[2].part = "tail"
      <3>1. buf[2] = input[c][b + 2]
        BY <1>7, <2>3
      <3>2. I > b + 1
        BY <1>1, <1>2, <1>6, <2>3
      <3>. QED
        BY <1>8, <3>1, <3>2 DEF Sending, I
    <2>5. ~ (2 \in 1 .. i - 1)
      BY <2>1, <2>4 DEF EndsHeader
    <2>. QED
      BY <2>3, <2>5
  <1>11. Request(c, buf) = asked[c][Len(asked[c])]
    BY <1>9 DEF Request
  <1>12. I - b + left[c] = asked[c][Len(asked[c])].body + 2
    BY <1>8 DEF Sending, I
  <1>. QED
    BY <1>8, <1>10, <1>11, <1>12 DEF Sending, I, t, m, buf

LEMMA RequestBody ==
  ASSUME TInv, NEW c \in Conn, Pending(c)
  PROVE  /\ asked[c][Len(asked[c])] \in Requests
         /\ asked[c][Len(asked[c])].body \in 0 .. SizeMax - 1
         /\ asked[c][Len(asked[c])].body > 0 => asked[c][Len(asked[c])].announced
  <1>1. asked[c] \in Seq(Requests) /\ Len(asked[c]) \in 1 .. Len(asked[c])
    BY DEF TInv, TypeOK, Pending
  <1>2. asked[c][Len(asked[c])] \in Requests
    BY <1>1, ElementOfSeq
  <1>. QED
    BY <1>2, RequestAssumption

LEMMA ReadHeaderTurn ==
  ASSUME TInv, OInv, NEW w \in work, ReadHeader(w), ~ Terminate, Turn(w.conn)
  PROVE  Turn(w.conn)'
  <1>. DEFINE c == w.conn
              m == Len(w.buf)
              t == taken[c]
              I == Len(input[c])
  <1>1. PICK k \in 1 .. Available(c) :
          /\ \/ Becomes(w, {[w EXCEPT !.buf = Read(w, k)]})
             \/ \E i \in DOMAIN Read(w, k) :
                  EndsHeader(Read(w, k), i) /\ Becomes(w, {Parsed(w, Read(w, k), i)})
          /\ Take(w, k)
    BY HeaderRead
  <1>2. /\ w \in Work /\ c \in Conn /\ w.at = "read"
        /\ InBuffer(w) /\ Fresh(c, t - m)
    BY DEF ReadHeader, Turn, HandlerTurn, TInv, TypeOK, Work
  <1>3. /\ taken' = [taken EXCEPT ![c] = @ + k]
        /\ UNCHANGED <<backlog, client, asked, left, input, answers>>
    BY <1>1 DEF Take
  <1>4. /\ m \in Nat /\ t \in Nat /\ I \in Nat /\ k \in Nat /\ k > 0
        /\ t + k <= I /\ m <= t
    <2>1. m \in Nat
      BY <1>2 DEF Work
    <2>2. t \in Nat /\ input[c] \in Seq(Unit) /\ t + k <= I
      BY ReadType
    <2>3. m <= t
      BY <1>2 DEF InBuffer
    <2>4. k \in Nat /\ k > 0
      BY <2>2 DEF Available
    <2>. QED
      BY <2>1, <2>2, <2>3, <2>4
  <1>5. taken'[c] = t + k
    BY <1>2, <1>3 DEF TInv, TypeOK
  <1>6. PICK b \in Nat : b = t - m
    BY <1>4
  <1>7. PICK buf : buf = Read(w, k)
    OBVIOUS
  <1>8. /\ buf \in Seq(Unit) /\ Len(buf) = m + k
        /\ \A j \in 1 .. Len(buf) : buf[j].n \in 1 .. Len(asked[c])
    BY <1>7, ReadType
  <1>9. \A j \in 1 .. m : buf[j] = input[c][b + j]
    <2>1. \A j \in 1 .. m : buf[j] = w.buf[j]
      BY <1>7, ReadType
    <2>. QED
      BY <1>2, <1>6, <2>1 DEF InBuffer
  <1>10. \A j \in 1 .. k : buf[m + j] = input[c][t + j]
    BY <1>7, ReadType
  <1>11. \/ Becomes(w, {[w EXCEPT !.buf = buf]})
         \/ \E i \in DOMAIN buf : EndsHeader(buf, i) /\ Becomes(w, {Parsed(w, buf, i)})
    BY <1>1, <1>7
  <1>12. CASE Becomes(w, {[w EXCEPT !.buf = buf]})
    <2>1. PICK new : new = [w EXCEPT !.buf = buf]
      OBVIOUS
    <2>2. new.conn = c /\ new.at = "read" /\ new.buf = buf
      BY <1>2, <2>1 DEF Work
    <2>3. Becomes(w, {new})
      BY <1>12, <2>1
    <2>4. /\ \A v \in work' : v.conn = c => v = new
          /\ client'[c] # "away" /\ c \notin backlog'
      BY <1>3, <2>3, OwnTurn
    <2>5. taken'[c] - Len(new.buf) = b /\ Len(new.buf) <= taken'[c]
      <3>. HIDE DEF m, t
      <3>. DEFINE read == taken'[c]
                  len == Len(new.buf)
      <3>1. read = t + k /\ len = m + k
        BY <1>5, <1>8, <2>2
      <3>. HIDE DEF read, len
      <3>2. read - len = b /\ len <= read
        BY <1>4, <1>6, <3>1
      <3>. QED
        BY <3>2 DEF read, len
    <2>6. Fresh(c, b)'
      <3>1. Fresh(c, b)
        BY <1>2, <1>6
      <3>. QED
        BY <1>3, <3>1 DEF Fresh, Idle, Sending, Pending
    <2>7. \A j \in 1 .. Len(buf) : buf[j] = input[c][b + j]
      <3>1. TAKE j \in 1 .. Len(buf)
      <3>. HIDE DEF m, t
      <3>2. CASE j <= m
        BY <1>4, <1>8, <1>9, <3>1, <3>2
      <3>3. CASE ~ (j <= m)
        <4>1. PICK d \in 1 .. k : d = j - m
          BY <1>4, <1>8, <3>1, <3>3
        <4>2. j = m + d /\ t + d = b + j
          BY <1>4, <1>6, <3>1, <4>1
        <4>3. buf[m + d] = input[c][t + d]
          BY <1>10, <4>1
        <4>. QED
          BY <4>2, <4>3
      <3>. QED
        BY <3>2, <3>3
    <2>8. InBuffer(new)'
      BY <1>3, <2>2, <2>5, <2>7 DEF InBuffer
    <2>9. HandlerTurn(new)'
      BY <2>2, <2>5, <2>6, <2>8 DEF HandlerTurn
    <2>. QED
      BY <2>4, <2>9 DEF Turn
  <1>13. CASE \E i \in DOMAIN buf : EndsHeader(buf, i) /\ Becomes(w, {Parsed(w, buf, i)})
    <2>1. PICK i \in 1 .. Len(buf) : EndsHeader(buf, i) /\ Becomes(w, {Parsed(w, buf, i)})
      <3>1. DOMAIN buf = 1 .. Len(buf)
        BY <1>8
      <3>. QED
        BY <1>13, <3>1, Zenon
    <2>. DEFINE r == asked[c][Len(asked[c])]
    <2>2. /\ Pending(c) /\ Request(c, buf) = r /\ i = 2
          /\ r.body + 2 = I - b + left[c]
      BY <1>2, <1>6, <1>7, <2>1, HeaderParsed
    <2>3. PICK new : new = Parsed(w, buf, i)
      OBVIOUS
    <2>4. Becomes(w, {new})
      BY <2>1, <2>3
    <2>5. /\ \A v \in work' : v.conn = c => v = new
          /\ client'[c] # "away" /\ c \notin backlog'
      BY <1>3, <2>4, OwnTurn
    <2>6. /\ new.conn = c /\ new.req = r
          /\ new.at = IF r.announced THEN "body" ELSE "lookup"
      BY <1>8, <2>1, <2>2, <2>3, ParsedType
    <2>7. Pending(c)' /\ r' = r
      BY <1>3, <2>2 DEF Pending
    <2>8. r \in Requests /\ r.body \in 0 .. SizeMax - 1 /\ (r.body > 0 => r.announced)
      BY <1>2, <2>2, RequestBody
    <2>9. Len(buf) >= 2 /\ left[c] \in Nat
      BY <1>2, <1>8, <2>1, <2>2 DEF TInv, TypeOK
    <2>10. CASE r.announced
      <3>1. Len(SubSeq(buf, i + 1, Len(buf))) = Len(buf) - 2
        BY <1>8, <2>1, <2>2, RestType
      <3>2. new.need = Remaining(r.body, Len(buf) - 2)
        BY <1>2, <2>2, <2>3, <2>10, <3>1 DEF Parsed, Work
      <3>3. r.body - (Len(buf) - 2) = I - (t + k) + left[c]
        <4>. DEFINE l == left[c]
                    d == r.body
                    len == Len(buf)
        <4>1. l \in Nat /\ d \in Int /\ len = m + k /\ d + 2 = I - b + l
          BY <1>8, <2>2, <2>8, <2>9, SizeAssumption
        <4>. HIDE DEF m, t, l, d, I, len
        <4>2. d - (len - 2) = I - (t + k) + l
          BY <1>4, <1>6, <4>1
        <4>. QED
          BY <4>2 DEF l, d, len
      <3>4. Remaining(r.body, Len(buf) - 2) = r.body - (Len(buf) - 2)
        <4>. DEFINE d == r.body - (Len(buf) - 2)
        <4>1. d \in Nat /\ d < SizeMax /\ SizeMax \in Nat
          <5>. DEFINE l == left[c]
                      bd == r.body
                      len == Len(buf)
          <5>1. /\ bd - (len - 2) = I - (t + k) + l /\ len >= 2 /\ len \in Nat
                /\ SizeMax \in Nat /\ bd \in 0 .. SizeMax - 1 /\ l \in Nat
            BY <1>8, <2>8, <2>9, <3>3, SizeAssumption
          <5>. HIDE DEF m, t, l, I, bd, len
          <5>2. bd - (len - 2) \in Nat /\ bd - (len - 2) < SizeMax
            BY <1>4, <5>1
          <5>. QED
            BY <5>1, <5>2 DEF bd, len
        <4>. HIDE DEF d
        <4>2. d % SizeMax = d
          BY <4>1
        <4>. QED
          BY <4>2 DEF Remaining, d
      <3>5. new.need = I - (t + k) + left[c]
        BY <3>2, <3>3, <3>4
      <3>6. HandlerTurn(new)'
        BY <1>3, <1>5, <2>6, <2>7, <2>10, <3>5 DEF HandlerTurn
      <3>. QED
        BY <2>5, <3>6 DEF Turn
    <2>11. CASE ~ r.announced
      <3>1. t + k = I /\ left[c] = 0
        <4>. DEFINE l == left[c]
                    d == r.body
        <4>1. l \in Nat /\ d = 0 /\ d + 2 = I - b + l /\ m + k >= 2
          BY <1>8, <2>2, <2>8, <2>9, <2>11, SizeAssumption
        <4>. HIDE DEF m, t, l, d, I
        <4>2. t + k = I /\ l = 0
          BY <1>4, <1>6, <4>1
        <4>. QED
          BY <4>2 DEF l
      <3>2. HandlerTurn(new)'
        BY <1>3, <1>5, <2>6, <2>7, <2>11, <3>1 DEF HandlerTurn
      <3>. QED
        BY <2>5, <3>2 DEF Turn
    <2>. QED
      BY <2>10, <2>11
  <1>. QED
    BY <1>11, <1>12, <1>13

LEMMA ReadBodyTurn ==
  ASSUME TInv, OInv, NEW w \in work, ReadBody(w), Turn(w.conn)
  PROVE  Turn(w.conn)'
  <1>. DEFINE c == w.conn
              t == taken[c]
              I == Len(input[c])
              l == left[c]
  <1>1. PICK k \in 1 .. Available(c) :
          /\ Becomes(w, {[w EXCEPT !.buf = Read(w, k), !.need = @ - k]})
          /\ Take(w, k)
    BY DEF ReadBody
  <1>2. /\ w \in Work /\ c \in Conn /\ w.at = "body"
        /\ Pending(c) /\ w.req = asked[c][Len(asked[c])] /\ w.need = I - t + l
    BY DEF ReadBody, Turn, HandlerTurn, TInv, TypeOK, Work
  <1>3. /\ taken' = [taken EXCEPT ![c] = @ + k]
        /\ UNCHANGED <<backlog, client, asked, left, input, answers>>
    BY <1>1 DEF Take
  <1>4. t \in Nat /\ I \in Nat /\ k \in Nat /\ l \in Nat
    BY <1>2, ReadType DEF TInv, TypeOK, Available
  <1>5. taken'[c] = t + k
    BY <1>2, <1>3 DEF TInv, TypeOK
  <1>6. PICK new : new = [w EXCEPT !.buf = Read(w, k), !.need = @ - k]
    OBVIOUS
  <1>7. new.conn = c /\ new.at = "body" /\ new.req = w.req /\ new.need = w.need - k
    BY <1>2, <1>6 DEF Work
  <1>8. Becomes(w, {new})
    BY <1>1, <1>6
  <1>9. /\ \A v \in work' : v.conn = c => v = new
        /\ client'[c] # "away" /\ c \notin backlog'
    BY <1>3, <1>8, OwnTurn
  <1>10. new.need = I - taken'[c] + l
    <2>. DEFINE read == taken'[c]
                need == new.need
                needed == w.need
    <2>1. read = t + k /\ need = needed - k /\ needed = I - t + l
      BY <1>2, <1>5, <1>7
    <2>. HIDE DEF read, need, needed, t, I, l
    <2>2. need = I - read + l
      BY <1>4, <2>1
    <2>. QED
      BY <2>2 DEF read, need
  <1>11. HandlerTurn(new)'
    BY <1>2, <1>3, <1>7, <1>10 DEF HandlerTurn, Pending
  <1>. QED
    BY <1>9, <1>11 DEF Turn

LEMMA HandlerOwnTurn ==
  ASSUME TInv, OInv, NEW w \in work, Handler(w), Turn(w.conn)
  PROVE  Turn(w.conn)'
  <1>. DEFINE c == w.conn
  <1>1. /\ w \in Work /\ c \in Conn /\ HandlerTurn(w)
        /\ taken[c] \in Nat /\ Len(input[c]) \in Nat /\ taken[c] <= Len(input[c])
        /\ left[c] \in Nat
    BY DEF Turn, TInv, TypeOK, Work
  <1>2. /\ client[c] # "away" /\ c \notin backlog
        /\ \A v \in work : v.conn = c => v = w
    BY <1>1 DEF OInv, OneOperation, AwayIsNowhere
  <1>3. ASSUME Drop(w), backlog' = backlog PROVE Turn(c)'
    <2>1. client'[c] = "closed" /\ \A v \in work' : v.conn # c
      BY <1>1, <1>2, <1>3 DEF Drop, Becomes, TInv, TypeOK
    <2>. QED
      BY <1>2, <1>3, <2>1 DEF Turn
  <1>4. ASSUME Terminate PROVE Turn(c)'
    BY <1>1, <1>4, TurnElsewhere DEF Terminate, peers
  <1>5. ASSUME NEW new, Becomes(w, {new}), backlog' = backlog,
               client'[c] = client[c] \/ client'[c] # "away", HandlerTurn(new)'
        PROVE  Turn(c)'
    <2>1. /\ \A v \in work' : v.conn = c => v = new
          /\ client'[c] # "away" /\ c \notin backlog'
      BY <1>5, OwnTurn
    <2>. QED
      BY <1>5, <2>1 DEF Turn
  <1>6. CASE HandshakeDone(w)
    <2>1. PICK new : new = Reading(c)
      OBVIOUS
    <2>2. new.conn = c /\ new.at = "read" /\ Len(new.buf) = 0
      BY <1>1, <2>1, ReadingType, NoUnits
    <2>3. /\ Becomes(w, {new}) /\ client[c] = "calling" /\ client'[c] = "up" /\ w.at = "handshake"
          /\ UNCHANGED <<backlog, asked, left, input, taken, answers>>
      BY <1>1, <1>6, <2>1 DEF HandshakeDone, TInv, TypeOK
    <2>4. taken[c] = 0 /\ Fresh(c, 0)
      BY <1>1, <2>3 DEF HandlerTurn
    <2>5. Fresh(c, 0)' /\ taken'[c] - Len(new.buf) = 0
      BY <2>2, <2>3, <2>4 DEF Fresh, Idle, Sending, Pending
    <2>6. InBuffer(new)'
      BY <2>2, <2>3, <2>4 DEF InBuffer
    <2>7. HandlerTurn(new)'
      BY <2>2, <2>5, <2>6 DEF HandlerTurn
    <2>. QED
      BY <1>5, <2>3, <2>7
  <1>7. CASE Fails(w)
    BY <1>3, <1>7 DEF Fails
  <1>8. CASE ReadHeader(w)
    BY <1>4, <1>8, ReadHeaderTurn
  <1>9. CASE ReadBody(w)
    BY <1>9, ReadBodyTurn
  <1>10. CASE BodyDone(w)
    <2>1. /\ w.at = "body" /\ w.need = 0 /\ Becomes(w, {At(w, "lookup")})
          /\ UNCHANGED peers
      BY <1>10 DEF BodyDone
    <2>2. /\ Pending(c) /\ w.req = asked[c][Len(asked[c])]
          /\ w.need = Len(input[c]) - taken[c] + left[c]
      BY <1>1, <2>1 DEF HandlerTurn
    <2>3. taken[c] = Len(input[c]) /\ left[c] = 0
      BY <1>1, <2>1, <2>2
    <2>4. PICK new : new = At(w, "lookup")
      OBVIOUS
    <2>5. new.conn = c /\ new.at = "lookup" /\ new.req = w.req
      BY <1>1, <2>4 DEF At, Work
    <2>6. HandlerTurn(new)'
      BY <2>1, <2>2, <2>3, <2>5 DEF HandlerTurn, Pending, peers
    <2>. QED
      BY <1>5, <2>1, <2>4, <2>6 DEF peers
  <1>11. CASE LookUp(w)
    <2>1. CASE Terminate
      BY <1>4, <2>1
    <2>2. CASE ~ Terminate
      <3>1. w.at = "lookup" /\ Becomes(w, {At(w, "call")}) /\ UNCHANGED peers
        BY <1>11, <2>2 DEF LookUp
      <3>2. PICK new : new = At(w, "call")
        OBVIOUS
      <3>3. new.conn = c /\ new.at = "call" /\ new.req = w.req
        BY <1>1, <3>2 DEF At, Work
      <3>4. HandlerTurn(new)'
        BY <1>1, <3>1, <3>3 DEF HandlerTurn, Pending, peers
      <3>. QED
        BY <1>5, <3>1, <3>2, <3>4 DEF peers
    <2>. QED
      BY <2>1, <2>2
  <1>12. CASE Call(w)
    <2>1. CASE ~ CanAnswer(w.req)
      BY <1>4, <1>12, <2>1 DEF Call
    <2>2. CASE CanAnswer(w.req)
      <3>1. PICK new : new = At([w EXCEPT !.buf = Echo(w.req, @)], "write")
        OBVIOUS
      <3>2. w.at = "call" /\ Becomes(w, {new}) /\ UNCHANGED peers
        BY <1>12, <2>2, <3>1 DEF Call, Answering
      <3>3. new.conn = c /\ new.at = "write" /\ new.req = w.req
        BY <1>1, <3>1 DEF At, Work
      <3>4. HandlerTurn(new)'
        BY <1>1, <3>2, <3>3 DEF HandlerTurn, Pending, peers
      <3>. QED
        BY <1>5, <3>2, <3>4 DEF peers
    <2>. QED
      BY <2>1, <2>2
  <1>13. CASE WriteOut(w)
    <2>1. /\ w.at = "write" /\ Becomes(w, {At(w, "written")})
          /\ UNCHANGED <<backlog, client, asked, left, input, taken>>
      BY <1>13 DEF WriteOut
    <2>2. /\ Pending(c) /\ w.req = asked[c][Len(asked[c])]
          /\ taken[c] = Len(input[c]) /\ left[c] = 0
      BY <1>1, <2>1 DEF HandlerTurn
    <2>3. client[c] = "closed" \/ Len(answers'[c]) = Len(asked[c])
      <3>1. SUFFICES ASSUME client[c] # "closed" PROVE Len(answers'[c]) = Len(asked[c])
        OBVIOUS
      <3>. DEFINE Ans == [to : Nat, body : Seq(Unit)]
                  new == [to |-> w.n, body |-> w.buf]
      <3>2. answers' = [answers EXCEPT ![c] = Append(answers[c], new)]
        BY <1>13, <3>1 DEF WriteOut
      <3>3. answers'[c] = Append(answers[c], new)
        BY <1>1, <3>2 DEF TInv, TypeOK
      <3>4. answers[c] \in Seq(Ans) /\ new \in Ans /\ Len(asked[c]) \in Nat
        <4>1. answers[c] \in Seq(Ans)
          BY <1>1 DEF TInv, TypeOK
        <4>2. new \in Ans
          BY <1>1 DEF Work
        <4>3. Len(asked[c]) \in Nat
          BY <1>1 DEF TInv, TypeOK
        <4>. QED
          BY <4>1, <4>2, <4>3
      <3>. HIDE DEF Ans, new
      <3>5. Len(answers'[c]) = Len(answers[c]) + 1 /\ Len(answers[c]) \in Nat
        BY <3>3, <3>4
      <3>6. Len(answers[c]) = Len(asked[c]) - 1
        BY <2>2 DEF Pending
      <3>. QED
        BY <3>4, <3>5, <3>6
    <2>4. Idle(c, taken[c])'
      BY <2>1, <2>2, <2>3 DEF Idle
    <2>5. PICK new : new = At(w, "written")
      OBVIOUS
    <2>6. new.conn = c /\ new.at = "written" /\ new.req = w.req
      BY <1>1, <2>5 DEF At, Work
    <2>7. \E i \in 1 .. Len(asked[c]) : w.req = asked[c][i]
      <3>1. Len(asked[c]) \in 1 .. Len(asked[c])
        BY <1>1, <2>2 DEF Pending, TInv, TypeOK
      <3>. QED
        BY <2>2, <3>1
    <2>8. HandlerTurn(new)'
      BY <2>1, <2>4, <2>6, <2>7 DEF HandlerTurn, Fresh
    <2>. QED
      BY <1>5, <2>1, <2>5, <2>8
  <1>14. CASE Written(w)
    <2>1. CASE w.req.version = "none"
      BY <1>4, <1>14, <2>1 DEF Written
    <2>2. CASE w.req.version # "none" /\ ~ KeepsAlive(w.req)
      BY <1>3, <1>14, <2>2 DEF Written
    <2>3. CASE w.req.version # "none" /\ KeepsAlive(w.req)
      <3>1. PICK new : new = Reading(c)
        OBVIOUS
      <3>2. new.conn = c /\ new.at = "read" /\ Len(new.buf) = 0
        BY <1>1, <3>1, ReadingType, NoUnits
      <3>3. /\ w.at = "written" /\ Becomes(w, {new})
            /\ UNCHANGED <<backlog, client, asked, left, input, taken, answers>>
        BY <1>14, <2>3, <3>1 DEF Written
      <3>4. Fresh(c, taken[c])'
        BY <1>1, <3>3 DEF HandlerTurn, Fresh, Idle, Sending, Pending
      <3>5. InBuffer(new)' /\ taken'[c] - Len(new.buf) = taken'[c]
        BY <1>1, <3>2, <3>3 DEF InBuffer
      <3>6. HandlerTurn(new)'
        BY <3>2, <3>4, <3>5 DEF HandlerTurn
      <3>. QED
        BY <1>5, <3>3, <3>6
    <2>. QED
      BY <2>1, <2>2, <2>3
  <1>. QED
    BY <1>6, <1>7, <1>8, <1>9, <1>10, <1>11, <1>12, <1>13, <1>14 DEF Handler

LEMMA HandlerElsewhere ==
  ASSUME TInv, OInv, NEW w \in work, Handler(w), NEW c \in Conn, c # w.conn, Turn(c)
  PROVE  Turn(c)'
  <1>1. w.conn \in Conn
    BY DEF TInv, TypeOK, Work
  <1>2. UNCHANGED <<asked, left, input, backlog>>
    BY DEF Handler, HandshakeDone, Fails, ReadHeader, ReadBody, Take, BodyDone, LookUp, Call,
           Terminate, WriteOut, Written, peers
  <1>3. taken'[c] = taken[c] /\ answers'[c] = answers[c] /\ client'[c] = client[c]
    <2>1. taken' = taken \/ \E k : taken' = [taken EXCEPT ![w.conn] = @ + k]
      BY DEF Handler, HandshakeDone, Fails, ReadHeader, ReadBody, Take, BodyDone, LookUp, Call,
             Terminate, WriteOut, Written, peers
    <2>2. answers' = answers \/ \E a : answers' = [answers EXCEPT ![w.conn] = Append(@, a)]
      BY DEF Handler, HandshakeDone, Fails, ReadHeader, ReadBody, Take, BodyDone, LookUp, Call,
             Terminate, WriteOut, Written, peers
    <2>3. client' = client \/ \E s : client' = [client EXCEPT ![w.conn] = s]
      BY DEF Handler, HandshakeDone, Fails, Drop, ReadHeader, ReadBody, Take, BodyDone, LookUp,
             Call, Terminate, WriteOut, Written, peers
    <2>. QED
      BY <1>1, <2>1, <2>2, <2>3 DEF TInv, TypeOK
  <1>4. \A v \in work' : v.conn = c => v \in work
    BY HandlerInPlace DEF InPlace, Becomes
  <1>. QED
    BY <1>2, <1>3, <1>4, TurnElsewhere

LEMMA KInvNext == TInv /\ OInv /\ KInv /\ [Next]_vars => KInv'
  <1>. SUFFICES ASSUME TInv, OInv, KInv, [Next]_vars, NEW c \in Conn, c \notin hasty'
                PROVE  Turn(c)'
    BY DEF KInv
  <1>1. hasty \subseteq hasty'
    BY ZenonT(60) DEF Next, Serve, Accept, AcceptFails, Handler, HandshakeDone, Fails, ReadHeader, ReadBody,
           Take, BodyDone, LookUp, Call, Terminate, WriteOut, Written, Connect, AskNext, SendRest,
           Close, vars, server, peers
  <1>2. Turn(c)
    BY <1>1 DEF KInv
  <1>3. CASE UNCHANGED vars
    BY <1>2, <1>3, TurnElsewhere DEF vars, server, peers
  <1>4. ASSUME NEW d \in Conn, Accept(d) PROVE Turn(c)'
    <2>1. CASE d = c
      BY <1>2, <1>4, <2>1, AcceptTurn
    <2>2. CASE d # c
      <3>1. PICK new : new.conn = d /\ work' = work \cup {new}
        BY <1>4, ReadingType DEF Accept
      <3>2. /\ backlog' \subseteq backlog
            /\ UNCHANGED <<client, asked, left, input, taken, answers>>
        BY <1>4 DEF Accept
      <3>. QED
        BY <1>2, <2>2, <3>1, <3>2, TurnElsewhere
    <2>. QED
      BY <2>1, <2>2
  <1>5. ASSUME NEW d \in Conn, AcceptFails(d) PROVE Turn(c)'
    BY <1>2, <1>5, TurnElsewhere DEF AcceptFails
  <1>6. ASSUME NEW w \in work, Handler(w) PROVE Turn(c)'
    <2>1. CASE w.conn = c
      BY <1>2, <1>6, <2>1, HandlerOwnTurn
    <2>2. CASE w.conn # c
      BY <1>2, <1>6, <2>2, HandlerElsewhere
    <2>. QED
      BY <2>1, <2>2
  <1>7. ASSUME NEW d \in Conn, Connect(d) PROVE Turn(c)'
    <2>1. /\ client[d] = "away" /\ backlog' = backlog \cup {d}
          /\ UNCHANGED <<work, asked, left, input, taken, answers>>
          /\ \E s \in {"calling", "up"} : client' = [client EXCEPT ![d] = s]
      BY <1>7 DEF Connect, server
    <2>2. /\ client[c] = "closed" => client'[c] = "closed"
          /\ client'[c] = "away" => client[c] = "away"
          /\ c \in backlog' => client[c] = "away" \/ c \in backlog
      BY <2>1 DEF TInv, TypeOK
    <2>. QED
      BY <1>2, <2>1, <2>2, TurnElsewhere
  <1>8. ASSUME NEW d \in Conn, Close(d) PROVE Turn(c)'
    <2>1. /\ client[d] # "away" /\ client' = [client EXCEPT ![d] = "closed"]
          /\ UNCHANGED <<work, backlog, asked, left, input, taken, answers>>
      BY <1>8 DEF Close, server
    <2>2. /\ client[c] = "closed" => client'[c] = "closed"
          /\ client'[c] = "away" => client[c] = "away"
      BY <2>1 DEF TInv, TypeOK
    <2>. QED
      BY <1>2, <2>1, <2>2, TurnElsewhere
  <1>9. ASSUME NEW d \in Conn, AskNext(d) PROVE Turn(c)'
    <2>1. CASE d = c
      BY <1>2, <1>9, <2>1, AskNextTurn
    <2>2. CASE d # c
      <3>1. /\ UNCHANGED <<work, backlog, client, taken, answers>>
            /\ asked'[c] = asked[c] /\ left'[c] = left[c] /\ input'[c] = input[c]
        BY <1>9, <2>2 DEF AskNext, server, TInv, TypeOK
      <3>. QED
        BY <1>2, <3>1, TurnElsewhere
    <2>. QED
      BY <2>1, <2>2
  <1>10. ASSUME NEW d \in Conn, SendRest(d) PROVE Turn(c)'
    <2>1. CASE d = c
      BY <1>2, <1>10, <2>1, SendRestTurn
    <2>2. CASE d # c
      <3>1. /\ UNCHANGED <<work, backlog, client, asked, taken, answers>>
            /\ left'[c] = left[c] /\ input'[c] = input[c]
        BY <1>10, <2>2 DEF SendRest, server, TInv, TypeOK
      <3>. QED
        BY <1>2, <3>1, TurnElsewhere
    <2>. QED
      BY <2>1, <2>2
  <1>. QED
    BY <1>3, <1>4, <1>5, <1>6, <1>7, <1>8, <1>9, <1>10 DEF Next, Serve

-----------------------------------------------------------------------------
(* Why the process ends.                                                   *)

Good == \A c \in Conn : c \notin hasty /\ \A i \in DOMAIN asked[c] : Served(asked[c][i])

(* As long as all clients wait and ask what can be answered, no entry is   *)
(* made in the shared tables and nothing throws.                           *)
DInv == Good => running /\ table = Offered

LEMMA ServedAnswerable ==
  ASSUME NEW r, Served(r)
  PROVE  r.method \in Offered[Resource(r.path)] /\ CanAnswer(r)
  <1>1. Resource(r.path) \in DOMAIN Offered /\ (Resource(r.path) = "string" <=> r.path = "string")
    BY ResourceFound
  <1>. QED
    BY <1>1 DEF Served, CanAnswer, Offered

LEMMA RequestServed ==
  ASSUME TInv, KInv, Good, NEW w \in work, w.at \in {"lookup", "call", "written"}
  PROVE  Served(w.req)
  <1>1. /\ w.conn \in Conn /\ HandlerTurn(w) /\ asked[w.conn] \in Seq(Requests)
        /\ \A i \in DOMAIN asked[w.conn] : Served(asked[w.conn][i])
    BY DEF KInv, Turn, Good, TInv, TypeOK, Work
  <1>2. DOMAIN asked[w.conn] = 1 .. Len(asked[w.conn]) /\ Len(asked[w.conn]) \in Nat
    BY <1>1
  <1>3. \E i \in 1 .. Len(asked[w.conn]) : w.req = asked[w.conn][i]
    <2>1. CASE w.at = "written"
      BY <1>1, <2>1 DEF HandlerTurn
    <2>2. CASE w.at \in {"lookup", "call"}
      <3>1. w.req = asked[w.conn][Len(asked[w.conn])] /\ Len(asked[w.conn]) > 0
        BY <1>1, <2>2 DEF HandlerTurn, Pending
      <3>2. Len(asked[w.conn]) \in 1 .. Len(asked[w.conn])
        BY <1>2, <3>1
      <3>. QED
        BY <3>1, <3>2
    <2>. QED
      BY <2>1, <2>2
  <1>. QED
    BY <1>1, <1>2, <1>3

(* The header a proper request ends with can be read.                      *)
LEMMA ServedRead ==
  ASSUME TInv, KInv, Good, NEW w \in work, ReadHeader(w), running
  PROVE  running'
  <1>1. /\ w.conn \in Conn /\ Turn(w.conn) /\ HandlerTurn(w) /\ w.at = "read"
        /\ asked[w.conn] \in Seq(Requests)
        /\ \A i \in DOMAIN asked[w.conn] : Served(asked[w.conn][i])
    BY DEF KInv, Turn, Good, TInv, TypeOK, Work, ReadHeader
  <1>2. InBuffer(w) /\ Fresh(w.conn, taken[w.conn] - Len(w.buf))
    BY <1>1 DEF HandlerTurn
  <1>3. ASSUME NEW k \in 1 .. Available(w.conn), NEW i \in DOMAIN Read(w, k),
               EndsHeader(Read(w, k), i)
        PROVE  Legible(Request(w.conn, Read(w, k)))
    <2>1. Read(w, k) \in Seq(Unit)
      BY ReadType
    <2>2. i \in 1 .. Len(Read(w, k))
      BY <1>3, <2>1
    <2>3. /\ Pending(w.conn)
          /\ Request(w.conn, Read(w, k)) = asked[w.conn][Len(asked[w.conn])]
      BY <1>1, <1>2, <1>3, <2>2, HeaderParsed
    <2>4. Len(asked[w.conn]) \in DOMAIN asked[w.conn]
      BY <1>1, <2>3 DEF Pending
    <2>. QED
      BY <1>1, <2>3, <2>4 DEF Served
  <1>. QED
    BY <1>3 DEF ReadHeader, Take

LEMMA GoodBefore ==
  ASSUME TInv, [Next]_vars, Good'
  PROVE  Good
  <1>1. hasty \subseteq hasty'
    BY ZenonT(60) DEF Next, Serve, Accept, AcceptFails, Handler, HandshakeDone, Fails, ReadHeader, ReadBody,
           Take, BodyDone, LookUp, Call, Terminate, WriteOut, Written, Connect, AskNext, SendRest,
           Close, vars, server, peers
  <1>2. \/ asked' = asked
        \/ \E c \in Conn : \E r \in Requests : asked' = [asked EXCEPT ![c] = Append(@, r)]
    BY ZenonT(60) DEF Next, Serve, Accept, AcceptFails, Handler, HandshakeDone, Fails, ReadHeader, ReadBody,
           Take, BodyDone, LookUp, Call, Terminate, WriteOut, Written, Connect, AskNext, SendRest,
           Close, vars, server, peers
  <1>3. ASSUME NEW c \in Conn, NEW i \in DOMAIN asked[c]
        PROVE  i \in DOMAIN asked'[c] /\ asked'[c][i] = asked[c][i]
    <2>1. asked[c] \in Seq(Requests) /\ i \in 1 .. Len(asked[c])
      BY <1>3 DEF TInv, TypeOK
    <2>2. asked'[c] = asked[c] \/ \E r \in Requests : asked'[c] = Append(asked[c], r)
      BY <1>2 DEF TInv, TypeOK
    <2>. QED
      BY <2>1, <2>2
  <1>. QED
    BY <1>1, <1>3 DEF Good

LEMMA DInvNext == TInv /\ KInv /\ DInv /\ [Next]_vars => DInv'
  <1>. SUFFICES ASSUME TInv, KInv, DInv, [Next]_vars, Good'
                PROVE  running' /\ table' = Offered
    BY DEF DInv
  <1>1. Good /\ running /\ table = Offered
    BY GoodBefore DEF DInv
  <1>2. ASSUME NEW w \in work, w.at \in {"lookup", "call", "written"}
        PROVE  /\ w.req.method \in Offered[Resource(w.req.path)] /\ CanAnswer(w.req)
               /\ w.req.version # "none"
    <2>1. Served(w.req)
      BY <1>1, <1>2, RequestServed
    <2>. QED
      BY <2>1, ServedAnswerable DEF Served
  <1>3. ASSUME NEW w \in work, LookUp(w) PROVE running' /\ table' = Offered
    <2>1. w.at = "lookup"
      BY <1>3 DEF LookUp
    <2>2. ~ Racing(w)
      BY <1>1, <1>2, <2>1 DEF Racing
    <2>3. table' = [table EXCEPT ![Resource(w.req.path)] = @ \cup {w.req.method}] /\ running' = running
      BY <1>3, <2>2 DEF LookUp
    <2>. DEFINE res == Resource(w.req.path)
                m == w.req.method
    <2>4. m \in Offered[res]
      BY <1>2, <2>1
    <2>5. table' = [table EXCEPT ![res] = @ \cup {m}]
      BY <2>3
    <2>. HIDE DEF res, m
    <2>6. table \in [DOMAIN Offered -> SUBSET Methods]
      BY DEF TInv, TypeOK
    <2>7. table[res] \cup {m} = table[res]
      BY <1>1, <2>4
    <2>8. table' = table
      BY <2>5, <2>6, <2>7
    <2>. QED
      BY <1>1, <2>3, <2>8
  <1>4. ASSUME NEW w \in work, Call(w) \/ Written(w) PROVE running' /\ table' = Offered
    BY <1>1, <1>2, <1>4 DEF Call, Written
  <1>6. ASSUME NEW w \in work, ReadHeader(w) PROVE ~ Terminate
    BY <1>1, <1>6, ServedRead DEF Terminate
  <1>7. ASSUME NEW w \in work, ReadHeader(w) PROVE running' /\ table' = Offered
    BY <1>1, <1>6, <1>7, HeaderRead DEF Take
  <1>5. CASE /\ ~ \E w \in work : LookUp(w) \/ Call(w) \/ Written(w) \/ ReadHeader(w)
    BY <1>1, <1>5, ZenonT(60) DEF Next, Serve, Accept, AcceptFails, Handler, HandshakeDone, Fails, ReadHeader,
           ReadBody, Take, BodyDone, WriteOut, Connect, AskNext, SendRest, Close, vars, server
  <1>. QED
    BY <1>3, <1>4, <1>5, <1>7

(* The process only ends because of a client that did not wait, or of a    *)
(* request that its resource has no function for or whose version or       *)
(* length cannot be read: what threads do at the same time for proper      *)
(* requests never ends it (server_base.h:137, 144, 181).                   *)
THEOREM DeathCaused == Spec => []DeathHasCause
  <1>1. Init => KInv /\ DInv
    <2>1. Init => KInv
      BY NoUnits DEF Init, KInv, Turn, Fresh, Idle
    <2>. QED
      BY <2>1 DEF Init, DInv
  <1>2. Init => OInv
    BY DEF Init, OInv, OneOperation, AwayIsNowhere
  <1>3. DInv => DeathHasCause
    BY DEF DInv, Good, DeathHasCause
  <1>. QED
    BY <1>1, <1>2, <1>3, TInvInit, TInvNext, OInvNext, KInvNext, DInvNext, PTL DEF Spec

-----------------------------------------------------------------------------
(* What was sent, and what has been answered.                              *)

(* The client has sent fewer units than a size_t can count.                *)
Short == \A c \in Conn : Len(input[c]) < SizeMax

(* How many requests c has sent whole.                                     *)
Made(c) == IF left[c] = 0 THEN Len(asked[c]) ELSE Len(asked[c]) - 1

(* In what c has sent, a head is followed by its tail and a tail by its    *)
(* body and then by later requests; the last one may be on its way yet.    *)
HeadAt(c, h) ==
  LET m == input[c][h].n IN
  IF h < Len(input[c])
    THEN input[c][h + 1].part = "tail" /\ input[c][h + 1].n = m
    ELSE m = Len(asked[c]) /\ left[c] = asked[c][m].body + 1
Behind(c, m, end, j) ==
  IF j <= end THEN input[c][j] = [n |-> m, part |-> "body"] ELSE input[c][j].n > m
TailAt(c, h) ==
  LET m == input[c][h].n
      end == h + asked[c][m].body IN
  /\ \A j \in h + 1 .. Len(input[c]) : Behind(c, m, end, j)
  /\ IF end <= Len(input[c]) THEN m <= Made(c)
     ELSE m = Len(asked[c]) /\ left[c] = end - Len(input[c])
Streamed(c) ==
  \A h \in 1 .. Len(input[c]) :
    /\ input[c][h].part = "head" => HeadAt(c, h)
    /\ input[c][h].part = "tail" => TailAt(c, h)

(* All that c has been answered is older than its m-th request; than what  *)
(* it has sent behind position q.  What is still to be read is newer.      *)
Past(c, m) == \A j \in 1 .. Len(answers[c]) : answers[c][j].to < m
Ahead(c, q) == \A i \in q + 1 .. Len(input[c]) : Past(c, input[c][i].n)
Beyond(c, m) == \A i \in taken[c] + 1 .. Len(input[c]) : input[c][i].n > m

InTurn(c) ==
  \A j \in 1 .. Len(answers[c]) :
    answers[c][j].to \in 1 .. Made(c) /\ (c \notin hasty => answers[c][j].to = j)
KeptBut(c, m) ==
  \A j \in 1 .. Len(answers[c]) :
    answers[c][j].to # m => KeepsAlive(asked[c][answers[c][j].to])

(* What a handler has in its hands, from the first unit it reads up to the *)
(* answer.                                                                 *)
ReadSlot(w) == InBuffer(w) /\ Ahead(w.conn, taken[w.conn] - Len(w.buf))
TailBefore(w, h) ==
  h > 0 /\ input[w.conn][h].part = "tail" /\ input[w.conn][h].n = w.n
BodySlot(w) ==
  /\ InBuffer(w) /\ TailBefore(w, taken[w.conn] - Len(w.buf))
  /\ w.n \in 1 .. Len(asked[w.conn]) /\ w.req = asked[w.conn][w.n]
  /\ Past(w.conn, w.n)
  /\ Len(w.buf) + w.need = w.req.body \/ Len(w.buf) + w.need >= SizeMax
Whole(w) ==
  w.n \in 1 .. Made(w.conn) /\ w.req = asked[w.conn][w.n] /\ Beyond(w.conn, w.n)
Slot(w) ==
  /\ w.at \in {"handshake", "read"} => ReadSlot(w)
  /\ w.at = "body" => BodySlot(w)
  /\ w.at \in {"lookup", "call"} =>
       w.req = Garbled \/ (Whole(w) /\ Past(w.conn, w.n) /\ w.buf = BodyOf(w.n, w.req))
  /\ w.at = "write" =>
       Whole(w) /\ Past(w.conn, w.n) /\ w.buf = Echo(w.req, BodyOf(w.n, w.req))
  /\ IF w.at = "written" THEN Whole(w) /\ Past(w.conn, w.n + 1) /\ KeptBut(w.conn, w.n)
     ELSE KeptBut(w.conn, 0)

Orderly(c) ==
  /\ Streamed(c) /\ InTurn(c)
  /\ client[c] = "away" \/ c \in backlog => Len(answers[c]) = 0 /\ taken[c] = 0
  /\ \A w \in work : w.conn = c => Slot(w)
SInv == \A c \in Conn : Orderly(c)

(* What goes on elsewhere.                                                 *)
LEMMA OrderlyElsewhere ==
  ASSUME NEW c \in Conn, Orderly(c), hasty \subseteq hasty',
         asked'[c] = asked[c], left'[c] = left[c], input'[c] = input[c],
         taken'[c] = taken[c], answers'[c] = answers[c],
         client'[c] = "away" \/ c \in backlog' => client[c] = "away" \/ c \in backlog,
         \A w \in work' : w.conn = c => w \in work
  PROVE  Orderly(c)'
  <1>1. Made(c)' = Made(c)
    BY DEF Made
  <1>2. Streamed(c)'
    BY <1>1 DEF Orderly, Streamed, HeadAt, TailAt, Behind
  <1>3. InTurn(c)'
    BY <1>1 DEF Orderly, InTurn
  <1>4. ASSUME NEW w \in work', w.conn = c PROVE Slot(w)'
    <2>1. Slot(w)
      BY <1>4 DEF Orderly
    <2>2. \A m : /\ Past(c, m) => Past(c, m)'
                 /\ Beyond(c, m) => Beyond(c, m)'
                 /\ KeptBut(c, m) => KeptBut(c, m)'
                 /\ Ahead(c, m) => Ahead(c, m)'
      BY DEF Past, Beyond, KeptBut, Ahead
    <2>3. InBuffer(w) => InBuffer(w)'
      BY <1>4 DEF InBuffer
    <2>4. Whole(w) => Whole(w)'
      BY <1>1, <1>4, <2>2 DEF Whole
    <2>5. ReadSlot(w) => ReadSlot(w)'
      BY <1>4, <2>2, <2>3 DEF ReadSlot
    <2>6. BodySlot(w) => BodySlot(w)'
      BY <1>4, <2>2, <2>3 DEF BodySlot, TailBefore
    <2>. QED
      BY <1>4, <2>1, <2>2, <2>4, <2>5, <2>6 DEF Slot
  <1>. QED
    BY <1>2, <1>3, <1>4 DEF Orderly

(* Some facts about a client's state.                                      *)
LEMMA MadeType ==
  ASSUME TInv, NEW c \in Conn
  PROVE  /\ input[c] \in Seq(Unit) /\ Len(input[c]) \in Nat /\ taken[c] \in Nat
         /\ taken[c] <= Len(input[c])
         /\ asked[c] \in Seq(Requests) /\ Len(asked[c]) \in Nat /\ left[c] \in Nat
         /\ Made(c) \in Nat /\ Made(c) <= Len(asked[c])
         /\ \A i \in 1 .. Len(input[c]) : input[c][i] \in Unit
                                          /\ input[c][i].n \in 1 .. Len(asked[c])
         /\ \A m \in 1 .. Len(asked[c]) : asked[c][m] \in Requests /\ asked[c][m].body \in Nat
                                          /\ asked[c][m].body < SizeMax
         /\ answers[c] \in Seq([to : Nat, body : Seq(Unit)]) /\ Len(answers[c]) \in Nat
         /\ \A j \in 1 .. Len(answers[c]) : answers[c][j].to \in Nat
  <1>1. /\ input[c] \in Seq(Unit) /\ taken[c] \in Nat /\ taken[c] <= Len(input[c])
        /\ asked[c] \in Seq(Requests) /\ left[c] \in Nat
        /\ answers[c] \in Seq([to : Nat, body : Seq(Unit)])
    BY DEF TInv, TypeOK
  <1>2. Made(c) \in Nat /\ Made(c) <= Len(asked[c])
    <2>1. left[c] > 0 => Len(asked[c]) > 0
      BY DEF TInv, LeftBegun
    <2>2. Len(asked[c]) \in Nat /\ left[c] \in Nat
      BY <1>1
    <2>. QED
      BY <2>1, <2>2 DEF Made
  <1>3. \A i \in 1 .. Len(input[c]) : input[c][i] \in Unit /\ input[c][i].n \in 1 .. Len(asked[c])
    BY <1>1, ElementOfSeq DEF TInv, UnitsBegun
  <1>4. ASSUME NEW m \in 1 .. Len(asked[c])
        PROVE  asked[c][m] \in Requests /\ asked[c][m].body \in Nat /\ asked[c][m].body < SizeMax
    <2>1. asked[c][m] \in Requests
      BY <1>1, ElementOfSeq
    <2>. QED
      BY <2>1, RequestAssumption, SizeAssumption
  <1>5. \A j \in 1 .. Len(answers[c]) : answers[c][j].to \in Nat
    <2>1. \A j \in 1 .. Len(answers[c]) : answers[c][j] \in [to : Nat, body : Seq(Unit)]
      BY <1>1, ElementOfSeq
    <2>. QED
      BY <2>1
  <1>. QED
    BY <1>1, <1>2, <1>3, <1>4, <1>5, SMTT(30)

(* The next unit of a client's stream belongs to the request behind those  *)
(* it has sent whole.                                                      *)
Grows(c, unit) ==
  /\ unit \in Unit /\ unit.n = Made(c) + 1
  /\ input'[c] = Append(input[c], unit)
  /\ Made(c) <= Made(c)' /\ Made(c)' \in Nat
  /\ Len(asked[c]) <= Len(asked[c])' /\ Len(asked[c])' \in Nat
  /\ \A i \in 1 .. Len(asked[c]) : asked'[c][i] = asked[c][i]
  /\ UNCHANGED <<work, backlog, client, taken, answers>>
  /\ hasty \subseteq hasty'

LEMMA OrderlyGrows ==
  ASSUME TInv, NEW c \in Conn, Orderly(c), NEW unit, Grows(c, unit), Streamed(c)'
  PROVE  Orderly(c)'
  <1>. DEFINE I == Len(input[c])
  <1>1. /\ input[c] \in Seq(Unit) /\ I \in Nat /\ taken[c] \in Nat /\ taken[c] <= I
        /\ Made(c) \in Nat /\ Made(c) <= Len(asked[c]) /\ Len(asked[c]) \in Nat
        /\ \A j \in 1 .. Len(answers[c]) : answers[c][j].to \in Nat
    BY MadeType
  <1>2. /\ Len(input'[c]) = I + 1 /\ input'[c][I + 1] = unit
        /\ \A i \in 1 .. I : input'[c][i] = input[c][i]
    BY <1>1, SMTT(30) DEF Grows
  <1>3. /\ work' = work /\ backlog' = backlog /\ client' = client /\ taken' = taken
        /\ answers' = answers /\ hasty \subseteq hasty'
    BY DEF Grows
  <1>4. unit.n = Made(c) + 1 /\ Made(c) <= Made(c)' /\ Made(c)' \in Nat
    BY DEF Grows
  <1>5. /\ Len(asked[c]) <= Len(asked'[c]) /\ Len(asked'[c]) \in Nat
        /\ \A i \in 1 .. Len(asked[c]) : asked'[c][i] = asked[c][i]
    BY DEF Grows
  <1>. HIDE DEF I
  <1>6. InTurn(c) /\ InTurn(c)'
    BY <1>1, <1>3, <1>4 DEF Orderly, InTurn
  <1>7. Past(c, unit.n)
    BY <1>1, <1>4, <1>6, SMTT(30) DEF Past, InTurn
  <1>8. \A m : Past(c, m) => Past(c, m)'
    BY <1>3 DEF Past
  <1>9. ASSUME NEW q \in Nat, Ahead(c, q) PROVE Ahead(c, q)'
    <2>1. ASSUME NEW i \in q + 1 .. I + 1 PROVE Past(c, input'[c][i].n)
      <3>1. CASE i = I + 1
        BY <1>2, <1>7, <3>1
      <3>2. CASE i # I + 1
        <4>1. i \in 1 .. I /\ i \in q + 1 .. I
          BY <1>1, <2>1, <3>2
        <4>. QED
          BY <1>2, <1>9, <4>1 DEF Ahead, I
      <3>. QED
        BY <3>1, <3>2
    <2>. QED
      BY <1>2, <1>8, <2>1 DEF Ahead
  <1>10. ASSUME NEW m \in 1 .. Made(c), Beyond(c, m) PROVE Beyond(c, m)'
    <2>1. ASSUME NEW i \in taken[c] + 1 .. I + 1 PROVE input'[c][i].n > m
      <3>1. CASE i = I + 1
        BY <1>1, <1>2, <1>4, <3>1
      <3>2. CASE i # I + 1
        <4>1. i \in 1 .. I /\ i \in taken[c] + 1 .. I
          BY <1>1, <2>1, <3>2
        <4>. QED
          BY <1>2, <1>10, <4>1 DEF Beyond, I
      <3>. QED
        BY <3>1, <3>2
    <2>. QED
      BY <1>2, <1>3, <2>1 DEF Beyond
  <1>11. \A m : KeptBut(c, m) => KeptBut(c, m)'
    <2>1. \A j \in 1 .. Len(answers[c]) : answers[c][j].to \in 1 .. Len(asked[c])
      BY <1>1, <1>6, SMTT(30) DEF InTurn
    <2>. QED
      BY <1>3, <1>5, <2>1 DEF KeptBut
  <1>12. ASSUME NEW w \in work, w.conn = c PROVE Slot(w)'
    <2>1. Slot(w) /\ Len(w.buf) \in Nat
      BY <1>12, SMTT(30) DEF Orderly, TInv, TypeOK, Work
    <2>2. ASSUME InBuffer(w) PROVE InBuffer(w)' /\ taken[c] - Len(w.buf) \in Nat
      <3>. DEFINE b == taken[c] - Len(w.buf)
      <3>1. Len(w.buf) <= taken[c] /\ \A i \in 1 .. Len(w.buf) : w.buf[i] = input[c][b + i]
        BY <1>12, <2>2 DEF InBuffer
      <3>2. b \in Nat /\ \A i \in 1 .. Len(w.buf) : b + i \in 1 .. I
        BY <1>1, <2>1, <3>1, SMTT(30)
      <3>3. \A i \in 1 .. Len(w.buf) : w.buf[i] = input'[c][b + i]
        BY <1>2, <3>1, <3>2
      <3>. QED
        BY <1>3, <1>12, <3>1, <3>2, <3>3 DEF InBuffer
    <2>3. ReadSlot(w) => ReadSlot(w)'
      <3>1. ASSUME ReadSlot(w) PROVE Ahead(c, taken[c] - Len(w.buf))'
        <4>1. PICK b \in Nat : b = taken[c] - Len(w.buf)
          BY <2>2, <3>1 DEF ReadSlot
        <4>2. Ahead(c, b)'
          BY <1>9, <1>12, <3>1, <4>1 DEF ReadSlot
        <4>3. taken'[c] - Len(w.buf) = b
          BY <1>3, <4>1
        <4>. QED
          BY <4>2, <4>3
      <3>. QED
        BY <1>12, <2>2, <3>1 DEF ReadSlot
    <2>4. BodySlot(w) => BodySlot(w)'
      <3>. SUFFICES ASSUME BodySlot(w) PROVE BodySlot(w)'
        OBVIOUS
      <3>1. PICK h \in Nat : h = taken[c] - Len(w.buf)
        BY <2>2 DEF BodySlot
      <3>2. TailBefore(w, h) /\ h \in 1 .. I
        BY <1>1, <1>12, <2>1, <3>1, SMTT(30) DEF BodySlot, TailBefore
      <3>3. TailBefore(w, h)' /\ h = taken'[c] - Len(w.buf)
        BY <1>2, <1>3, <1>12, <3>1, <3>2 DEF TailBefore
      <3>4. InBuffer(w)' /\ Past(c, w.n)'
        BY <1>8, <1>12, <2>2 DEF BodySlot
      <3>5. w.n \in 1 .. Len(asked'[c]) /\ w.req = asked'[c][w.n]
        BY <1>1, <1>5, <1>12 DEF BodySlot
      <3>. QED
        BY <1>12, <3>3, <3>4, <3>5 DEF BodySlot
    <2>5. Whole(w) => Whole(w)'
      <3>. SUFFICES ASSUME Whole(w) PROVE Whole(w)'
        OBVIOUS
      <3>1. w.n \in 1 .. Made(c) /\ w.req = asked[c][w.n] /\ Beyond(c, w.n)
        BY <1>12 DEF Whole
      <3>2. w.n \in 1 .. Made(c)' /\ w.n \in 1 .. Len(asked[c])
        BY <1>1, <1>4, <3>1
      <3>3. w.req = asked'[c][w.n] /\ Beyond(c, w.n)'
        BY <1>5, <1>10, <3>1, <3>2
      <3>. QED
        BY <1>12, <3>2, <3>3 DEF Whole
    <2>. QED
      BY <1>8, <1>11, <1>12, <2>1, <2>3, <2>4, <2>5 DEF Slot
  <1>. QED
    BY <1>3, <1>6, <1>12 DEF Orderly

(* What a client sends next keeps its stream in order.                     *)
LEMMA AskNextOrderly ==
  ASSUME TInv, NEW c \in Conn, AskNext(c), Orderly(c)
  PROVE  Orderly(c)'
  <1>p. PICK L, I : L = Len(asked[c]) /\ I = Len(input[c])
    OBVIOUS
  <1>1. PICK r \in Requests :
          /\ asked' = [asked EXCEPT ![c] = Append(asked[c], r)]
          /\ left' = [left EXCEPT ![c] = 1 + r.body]
    BY <1>p DEF AskNext
  <1>2. PICK unit : unit = [n |-> L + 1, part |-> "head"]
    OBVIOUS
  <1>3. /\ left[c] = 0
        /\ input' = [input EXCEPT ![c] = Append(input[c], unit)]
        /\ UNCHANGED <<work, backlog, client, taken, answers>>
        /\ hasty \subseteq hasty'
    BY <1>p, <1>2 DEF AskNext, server
  <1>4. /\ input[c] \in Seq(Unit) /\ I \in Nat /\ L \in Nat /\ asked[c] \in Seq(Requests)
        /\ \A i \in 1 .. I : input[c][i].n \in 1 .. L
        /\ \A m \in 1 .. L : asked[c][m].body \in Nat
    BY <1>p, MadeType
  <1>5. unit \in Unit /\ unit.n = L + 1 /\ unit.part = "head"
    BY <1>p, <1>2, <1>4 DEF Unit
  <1>6. asked'[c] = Append(asked[c], r) /\ left'[c] = 1 + r.body /\ input'[c] = Append(input[c], unit)
    BY <1>p, <1>1, <1>3 DEF TInv, TypeOK
  <1>7. r.body \in Nat
    BY <1>p, RequestAssumption
  <1>8. /\ Len(asked'[c]) = L + 1 /\ asked'[c][L + 1] = r
        /\ \A m \in 1 .. L : asked'[c][m] = asked[c][m]
    BY <1>p, <1>4, <1>6
  <1>9. /\ Len(input'[c]) = I + 1 /\ input'[c][I + 1] = unit
        /\ \A i \in 1 .. I : input'[c][i] = input[c][i]
    BY <1>p, <1>4, <1>5, <1>6
  <1>10. Made(c) = L /\ Made(c)' = L
    BY <1>p, <1>3, <1>4, <1>6, <1>7, <1>8 DEF Made
  <1>11. Grows(c, unit)
    BY <1>p, <1>1, <1>3, <1>4, <1>5, <1>6, <1>8, <1>10 DEF Grows
  <1>12. ASSUME NEW h \in 1 .. I, input[c][h].part = "head" PROVE HeadAt(c, h)'
    <2>1. HeadAt(c, h)
      BY <1>p, <1>12 DEF Orderly, Streamed
    <2>2. h < I
      BY <1>p, <1>3, <1>4, <1>12, <2>1, SMTT(30) DEF HeadAt
    <2>3. h + 1 \in 1 .. I /\ h < I + 1
      BY <1>p, <1>4, <1>12, <2>2
    <2>. QED
      BY <1>p, <1>9, <1>12, <2>1, <2>2, <2>3 DEF HeadAt
  <1>13. ASSUME NEW h \in 1 .. I, input[c][h].part = "tail" PROVE TailAt(c, h)'
    <2>p. PICK m, end : m = input[c][h].n /\ end = h + asked[c][m].body
      OBVIOUS
    <2>1. TailAt(c, h) /\ m \in 1 .. L /\ end \in Nat
      BY <1>p, <2>p, <1>4, <1>13, SMTT(30) DEF Orderly, Streamed
    <2>2. end <= I /\ \A j \in h + 1 .. I : Behind(c, m, end, j)
      BY <1>p, <2>p, <1>3, <1>4, <2>1, SMTT(30) DEF TailAt
    <2>3. input'[c][h].n = m /\ h + asked'[c][input'[c][h].n].body = end
      BY <1>p, <2>p, <1>8, <1>9, <2>1
    <2>4. ASSUME NEW j \in h + 1 .. I + 1 PROVE Behind(c, m, end, j)'
      <3>1. CASE j = I + 1
        BY <1>p, <1>4, <1>5, <1>9, <2>1, <2>2, <3>1, SMTT(30) DEF Behind
      <3>2. CASE j # I + 1
        <4>1. j \in h + 1 .. I /\ j \in 1 .. I
          BY <1>p, <1>4, <2>4, <3>2
        <4>. QED
          BY <1>p, <1>9, <2>2, <4>1 DEF Behind
      <3>. QED
        BY <1>p, <3>1, <3>2
    <2>5. end <= I + 1 /\ m <= Made(c)'
      BY <1>p, <1>4, <1>10, <2>1, <2>2
    <2>. QED
      BY <1>p, <1>9, <2>3, <2>4, <2>5 DEF TailAt
  <1>14. HeadAt(c, I + 1)'
    BY <1>p, <1>5, <1>6, <1>7, <1>8, <1>9 DEF HeadAt
  <1>15. Streamed(c)'
    <2>1. ASSUME NEW h \in 1 .. I + 1
          PROVE  /\ input'[c][h].part = "head" => HeadAt(c, h)'
                 /\ input'[c][h].part = "tail" => TailAt(c, h)'
      <3>1. CASE h = I + 1
        BY <1>p, <1>5, <1>9, <1>14, <3>1
      <3>2. CASE h # I + 1
        <4>1. h \in 1 .. I
          BY <1>p, <1>4, <2>1, <3>2
        <4>. QED
          BY <1>p, <1>9, <1>12, <1>13, <4>1
      <3>. QED
        BY <1>p, <3>1, <3>2
    <2>. QED
      BY <1>p, <1>9, <2>1 DEF Streamed
  <1>. QED
    BY <1>11, <1>15, OrderlyGrows

LEMMA SendRestOrderly ==
  ASSUME TInv, NEW c \in Conn, SendRest(c), Orderly(c)
  PROVE  Orderly(c)'
  <1>p. PICK L, I, b, l : /\ L = Len(asked[c]) /\ I = Len(input[c])
                          /\ b = asked[c][L].body /\ l = left[c]
    OBVIOUS
  <1>1. PICK unit : unit = [n |-> L, part |-> IF l = b + 1 THEN "tail" ELSE "body"]
    OBVIOUS
  <1>2. /\ l > 0
        /\ input' = [input EXCEPT ![c] = Append(input[c], unit)]
        /\ left' = [left EXCEPT ![c] = l - 1]
        /\ UNCHANGED <<work, backlog, client, asked, taken, answers, hasty>>
    BY <1>p, <1>1 DEF SendRest, server
  <1>3. /\ input[c] \in Seq(Unit) /\ I \in Nat /\ L \in Nat /\ l \in Nat
        /\ \A i \in 1 .. I : input[c][i].n \in 1 .. L
        /\ \A m \in 1 .. L : asked[c][m].body \in Nat
    BY <1>p, MadeType
  <1>4. L > 0 /\ l <= b + 1 /\ L \in 1 .. L /\ b \in Nat
    <2>1. L > 0 /\ l <= b + 1
      BY <1>p, <1>2 DEF TInv, LeftBegun
    <2>2. L \in 1 .. L
      BY <1>p, <1>3, <2>1
    <2>. QED
      BY <1>p, <1>3, <2>1, <2>2
  <1>5. /\ unit \in Unit /\ unit.n = L
        /\ unit.part = IF l = b + 1 THEN "tail" ELSE "body"
        /\ l # b + 1 => unit = [n |-> L, part |-> "body"]
    BY <1>p, <1>1, <1>3 DEF Unit
  <1>6. left'[c] = l - 1 /\ input'[c] = Append(input[c], unit) /\ asked'[c] = asked[c]
    BY <1>p, <1>2 DEF TInv, TypeOK
  <1>9. /\ Len(input'[c]) = I + 1 /\ input'[c][I + 1] = unit
        /\ \A i \in 1 .. I : input'[c][i] = input[c][i]
    BY <1>p, <1>3, <1>5, <1>6
  <1>10. Made(c) = L - 1 /\ Made(c)' = IF l = 1 THEN L ELSE L - 1
    BY <1>p, <1>2, <1>3, <1>4, <1>6 DEF Made
  <1>11. Grows(c, unit)
    <2>1. /\ unit.n = Made(c) + 1 /\ Made(c) <= Made(c)' /\ Made(c)' \in Nat
      BY <1>p, <1>3, <1>4, <1>5, <1>10
    <2>2. Len(asked[c])' = L /\ Len(asked[c]) = L /\ L <= L
      BY <1>p, <1>3, <1>6
    <2>. QED
      BY <1>p, <1>2, <1>3, <1>5, <1>6, <2>1, <2>2 DEF Grows
  <1>12. ASSUME NEW h \in 1 .. I, input[c][h].part = "head" PROVE HeadAt(c, h)'
    <2>p. PICK m : m = input[c][h].n
      OBVIOUS
    <2>1. HeadAt(c, h)
      BY <1>p, <1>12 DEF Orderly, Streamed
    <2>2. CASE h < I
      <3>1. h + 1 \in 1 .. I /\ h < I + 1
        BY <1>p, <1>3, <1>12, <2>2
      <3>. QED
        BY <1>p, <1>9, <1>12, <2>1, <2>2, <3>1 DEF HeadAt
    <2>3. CASE ~ (h < I)
      <3>1. h + 1 = I + 1 /\ h < I + 1
        BY <1>p, <1>3, <1>12, <2>3
      <3>2. m = L /\ l = b + 1
        BY <1>p, <2>p, <2>1, <2>3 DEF HeadAt
      <3>. QED
        BY <1>p, <2>p, <1>5, <1>6, <1>9, <1>12, <3>1, <3>2 DEF HeadAt
    <2>. QED
      BY <1>p, <2>2, <2>3
  <1>13. ASSUME NEW h \in 1 .. I, input[c][h].part = "tail" PROVE TailAt(c, h)'
    <2>p. PICK m, end : m = input[c][h].n /\ end = h + asked[c][m].body
      OBVIOUS
    <2>1. TailAt(c, h) /\ m \in 1 .. L /\ end \in Nat
      <3>1. TailAt(c, h)
        BY <1>p, <1>13, SMTT(30) DEF Orderly, Streamed
      <3>2. m \in 1 .. L
        BY <1>p, <2>p, <1>3
      <3>3. asked[c][m].body \in Nat
        BY <1>p, <1>3, <3>2
      <3>. QED
        BY <2>p, <3>1, <3>2, <3>3
    <2>2. /\ \A j \in h + 1 .. I : Behind(c, m, end, j)
          /\ IF end <= I THEN m <= L - 1 ELSE m = L /\ l = end - I
      BY <1>p, <2>p, <1>10, <2>1 DEF TailAt
    <2>3. input'[c][h].n = m /\ h + asked'[c][input'[c][h].n].body = end
      BY <1>p, <2>p, <1>6, <1>9, <2>1
    <2>0. m = L => end = h + b
      BY <1>p, <2>p
    <2>4. ASSUME NEW j \in h + 1 .. I + 1 PROVE Behind(c, m, end, j)'
      <3>1. CASE j = I + 1
        <4>1. CASE end <= I
          <5>1. ~ (I + 1 <= end) /\ L > m
            BY <1>3, <2>1, <2>2, <4>1
          <5>. QED
            BY <1>5, <1>9, <3>1, <5>1 DEF Behind
        <4>2. CASE ~ (end <= I)
          <5>1. m = L /\ l = (h + b) - I /\ I + 1 <= end
            <6>1. m = L /\ l = end - I
              BY <2>2, <4>2, Zenon
            <6>2. I + 1 <= end
              BY <1>3, <2>1, <4>2
            <6>3. end = h + b
              BY <2>0, <6>1
            <6>. QED
              BY <6>1, <6>2, <6>3
          <5>2. l # b + 1
            BY <1>3, <1>4, <5>1
          <5>. QED
            BY <1>p, <1>5, <1>9, <3>1, <5>1, <5>2 DEF Behind
        <4>. QED
          BY <1>p, <4>1, <4>2
      <3>2. CASE j # I + 1
        <4>1. j \in h + 1 .. I /\ j \in 1 .. I
          BY <1>p, <1>3, <2>4, <3>2
        <4>. QED
          BY <1>p, <1>9, <2>2, <4>1 DEF Behind
      <3>. QED
        BY <1>p, <3>1, <3>2
    <2>5. IF end <= I + 1 THEN m <= Made(c)' ELSE m = L /\ left'[c] = end - (I + 1)
      BY <1>p, <1>3, <1>4, <1>6, <1>10, <2>1, <2>2
    <2>. QED
      BY <1>p, <1>6, <1>9, <2>3, <2>4, <2>5 DEF TailAt
  <1>14. unit.part = "tail" => TailAt(c, I + 1)'
    <2>. SUFFICES ASSUME unit.part = "tail" PROVE TailAt(c, I + 1)'
      OBVIOUS
    <2>1. l = b + 1
      BY <1>p, <1>5
    <2>2. input'[c][I + 1].n = L /\ asked'[c][L].body = b
      BY <1>p, <1>5, <1>6, <1>9
    <2>3. IF I + 1 + b <= I + 1 THEN L <= Made(c)' ELSE left'[c] = (I + 1 + b) - (I + 1)
      <3>1. b = 0 => Made(c)' = L
        BY <1>10, <2>1
      <3>2. left'[c] = b
        <4>1. l - 1 = b
          BY <1>4, <2>1
        <4>. QED
          BY <1>6, <4>1
      <3>3. (I + 1 + b <= I + 1) <=> (b = 0)
        BY <1>3, <1>4
      <3>4. b = (I + 1 + b) - (I + 1) /\ L <= L
        BY <1>3, <1>4
      <3>. QED
        BY <3>1, <3>2, <3>3, <3>4
    <2>4. \A j \in I + 1 + 1 .. I + 1 : FALSE
      BY <1>p, <1>3
    <2>5. Len(asked'[c]) = L /\ Len(input'[c]) = I + 1
      BY <1>p, <1>6, <1>9
    <2>6. PICK e : e = I + 1
      OBVIOUS
    <2>7. /\ input'[c][e].n = L /\ asked'[c][L].body = b /\ Len(input'[c]) = e
          /\ IF e + b <= e THEN L <= Made(c)' ELSE left'[c] = (e + b) - e
      BY <2>2, <2>3, <2>5, <2>6, Zenon
    <2>8. \A j \in e + 1 .. e : Behind(c, L, e + b, j)'
      BY <2>4, <2>6
    <2>9. TailAt(c, e)'
      BY <2>5, <2>7, <2>8 DEF TailAt
    <2>. QED
      BY <2>6, <2>9, Zenon
  <1>15. Streamed(c)'
    <2>1. ASSUME NEW h \in 1 .. I + 1
          PROVE  /\ input'[c][h].part = "head" => HeadAt(c, h)'
                 /\ input'[c][h].part = "tail" => TailAt(c, h)'
      <3>1. CASE h = I + 1
        BY <1>p, <1>5, <1>9, <1>14, <3>1
      <3>2. CASE h # I + 1
        <4>1. h \in 1 .. I
          BY <1>p, <1>3, <2>1, <3>2
        <4>. QED
          BY <1>p, <1>9, <1>12, <1>13, <4>1
      <3>. QED
        BY <1>p, <3>1, <3>2
    <2>. QED
      BY <1>p, <1>9, <2>1 DEF Streamed
  <1>. QED
    BY <1>11, <1>15, OrderlyGrows

-----------------------------------------------------------------------------
(* The handlers.                                                           *)

(* A new operation takes the place of the one that has completed, or none. *)
LEMMA OrderlyPut ==
  ASSUME TInv, OInv, NEW w \in work, Orderly(w.conn), NEW new, Becomes(w, {new}),
         UNCHANGED <<backlog, asked, left, input>>, InTurn(w.conn)',
         client'[w.conn] = client[w.conn] \/ client'[w.conn] # "away", Slot(new)'
  PROVE  Orderly(w.conn)'
  <1>. DEFINE c == w.conn
  <1>1. /\ \A v \in work' : v.conn = c => v = new
        /\ client'[c] # "away" /\ c \notin backlog'
    BY OwnTurn
  <1>2. Made(c)' = Made(c)
    BY DEF Made
  <1>3. Streamed(c)'
    BY <1>2, ZenonT(60) DEF Orderly, Streamed, HeadAt, TailAt, Behind
  <1>. QED
    BY <1>1, <1>3 DEF Orderly

LEMMA OrderlyReplaced ==
  ASSUME TInv, OInv, NEW w \in work, Orderly(w.conn), NEW new, Becomes(w, {new}),
         UNCHANGED <<backlog, asked, left, input, answers, hasty>>,
         client'[w.conn] = client[w.conn] \/ client'[w.conn] # "away", Slot(new)'
  PROVE  Orderly(w.conn)'
  <1>1. InTurn(w.conn)'
    BY DEF Orderly, InTurn, Made
  <1>. QED
    BY <1>1, OrderlyPut

LEMMA OrderlyDropped ==
  ASSUME TInv, OInv, NEW w \in work, Orderly(w.conn), Drop(w),
         UNCHANGED <<backlog, asked, left, input, answers, hasty>>
  PROVE  Orderly(w.conn)'
  <1>. DEFINE c == w.conn
  <1>1. c \in Conn /\ c \notin backlog /\ \A v \in work : v.conn = c => v = w
    BY DEF OInv, OneOperation, TInv, TypeOK, Work
  <1>2. client'[c] = "closed" /\ \A v \in work' : v.conn # c
    BY <1>1 DEF Drop, Becomes, TInv, TypeOK
  <1>3. Made(c)' = Made(c)
    BY DEF Made
  <1>4. Streamed(c)' /\ InTurn(c)'
    BY <1>3, ZenonT(60) DEF Orderly, Streamed, HeadAt, TailAt, Behind, InTurn
  <1>. QED
    BY <1>1, <1>2, <1>4 DEF Orderly

(* A read puts what comes next in the stream behind what is in the buffer. *)
ReadFrom(w, k, b) ==
  /\ b = taken[w.conn] - Len(w.buf)
  /\ taken[w.conn] + k = b + Len(Read(w, k))
  /\ b + Len(Read(w, k)) <= Len(input[w.conn])
  /\ \A j \in 1 .. Len(Read(w, k)) : Read(w, k)[j] = input[w.conn][b + j]

LEMMA ReadPlaces ==
  ASSUME TInv, NEW w \in work, InBuffer(w), NEW k \in 1 .. Available(w.conn)
  PROVE  /\ Read(w, k) \in Seq(Unit) /\ Len(Read(w, k)) = Len(w.buf) + k
         /\ k \in Nat /\ k > 0 /\ Len(w.buf) \in Nat
         /\ \E b \in Nat : ReadFrom(w, k, b)
  <1>p. PICK c, m, t, I, buf : /\ c = w.conn /\ m = Len(w.buf) /\ t = taken[c]
                               /\ I = Len(input[c]) /\ buf = Read(w, k)
    OBVIOUS
  <1>1. /\ c \in Conn /\ m \in Nat /\ t \in Nat /\ I \in Nat
        /\ t + k <= I /\ m <= t
        /\ buf \in Seq(Unit) /\ Len(buf) = m + k
    <2>1. w \in Work /\ c \in Conn /\ m \in Nat
      BY <1>p DEF TInv, TypeOK, Work
    <2>2. t \in Nat /\ I \in Nat /\ t + k <= I /\ buf \in Seq(Unit) /\ Len(buf) = m + k
      BY <1>p, ReadType
    <2>3. m <= t
      BY <1>p DEF InBuffer
    <2>. QED
      BY <2>1, <2>2, <2>3
  <1>2. k \in Nat /\ k > 0
    <2>1. input[c] \in Seq(Unit) /\ taken[c] \in Nat
      BY <1>1, MadeType
    <2>2. Available(c) \in Int
      BY <2>1 DEF Available
    <2>. QED
      BY <1>p, <2>2
  <1>3. PICK b \in Nat : b = t - m
    BY <1>1
  <1>4. \A j \in 1 .. m : buf[j] = input[c][b + j]
    BY <1>p, <1>3, ReadType DEF InBuffer
  <1>5. \A j \in 1 .. k : buf[m + j] = input[c][t + j]
    BY <1>p, ReadType
  <1>6. ASSUME NEW j \in 1 .. Len(buf) PROVE buf[j] = input[c][b + j]
    <2>1. CASE j <= m
      BY <1>1, <1>4, <2>1
    <2>2. CASE ~ (j <= m)
      <3>1. PICK d \in 1 .. k : d = j - m
        BY <1>1, <1>2, <2>2
      <3>2. j = m + d /\ t + d = b + j
        BY <1>1, <1>3, <3>1
      <3>3. buf[m + d] = input[c][t + d]
        BY <1>5, <3>1
      <3>. QED
        BY <3>2, <3>3
    <2>. QED
      BY <2>1, <2>2
  <1>7. t + k = b + Len(buf) /\ b + Len(buf) <= I
    BY <1>1, <1>2, <1>3
  <1>. QED
    BY <1>p, <1>1, <1>2, <1>3, <1>6, <1>7 DEF ReadFrom

(* What is read of a stream in order starts in the middle of a request, or *)
(* with a header: then its tail is the second unit.                        *)
LEMMA HeaderFound ==
  ASSUME TInv, NEW w \in work, Streamed(w.conn), InBuffer(w), NEW k \in 1 .. Available(w.conn),
         NEW b \in Nat, ReadFrom(w, k, b),
         NEW i \in 1 .. Len(Read(w, k)), EndsHeader(Read(w, k), i),
         Read(w, k)[1].part = "head"
  PROVE  /\ i = 2 /\ Len(Read(w, k)) >= 2
         /\ input[w.conn][b + 2].part = "tail"
         /\ input[w.conn][b + 2].n = Read(w, k)[1].n /\ input[w.conn][b + 1].n = Read(w, k)[1].n
         /\ TailAt(w.conn, b + 2)
  <1>p. PICK c, I, buf : c = w.conn /\ I = Len(input[c]) /\ buf = Read(w, k)
    OBVIOUS
  <1>1. /\ c \in Conn /\ I \in Nat /\ buf \in Seq(Unit) /\ Len(buf) \in Nat
        /\ b + Len(buf) <= I /\ \A j \in 1 .. Len(buf) : buf[j] = input[c][b + j]
    <2>1. c \in Conn
      BY <1>p DEF TInv, TypeOK, Work
    <2>2. I \in Nat /\ buf \in Seq(Unit)
      BY <1>p, <2>1, MadeType, ReadPlaces
    <2>. QED
      BY <1>p, <2>1, <2>2 DEF ReadFrom
  <1>2. i \in 1 .. Len(buf) /\ EndsHeader(buf, i) /\ buf[1].part = "head"
    BY <1>p
  <1>3. i # 1
    BY <1>2 DEF EndsHeader
  <1>4. /\ i >= 2 /\ 1 \in 1 .. Len(buf) /\ 2 \in 1 .. Len(buf)
        /\ b + 1 \in 1 .. I /\ b + 2 \in 1 .. I /\ b + 1 < I /\ b + 1 + 1 = b + 2
    BY <1>1, <1>2, <1>3
  <1>5. buf[1] = input[c][b + 1] /\ buf[2] = input[c][b + 2]
    BY <1>1, <1>4
  <1>6. HeadAt(c, b + 1)
    BY <1>p, <1>2, <1>4, <1>5 DEF Streamed
  <1>7. input[c][b + 2].part = "tail" /\ input[c][b + 2].n = input[c][b + 1].n
    BY <1>p, <1>4, <1>6 DEF HeadAt
  <1>8. TailAt(c, b + 2)
    BY <1>p, <1>4, <1>7 DEF Streamed
  <1>9. i = 2
    <2>1. ~ (2 \in 1 .. i - 1)
      BY <1>2, <1>5, <1>7 DEF EndsHeader
    <2>. QED
      BY <1>2, <1>4, <2>1
  <1>. QED
    BY <1>p, <1>4, <1>5, <1>7, <1>8, <1>9

(* A size_t that is too small for the difference is at least what is       *)
(* missing up to the next multiple.                                        *)
LEMMA WhatRemains ==
  ASSUME NEW length \in 0 .. SizeMax - 1, NEW additional \in 0 .. SizeMax - 1
  PROVE  LET r == Remaining(length, additional) IN
         r \in Nat /\ (additional + r = length \/ additional + r >= SizeMax)
  <1>1. SizeMax \in Nat \ {0}
    BY SizeAssumption
  <1>2. ASSUME NEW M \in Nat \ {0}, NEW a \in 0 .. M - 1, NEW l \in 0 .. M - 1
        PROVE  LET r == (a - l) % M IN r \in Nat /\ (a >= l => r = a - l) /\ (a < l => l + r >= M)
    OBVIOUS
  <1>3. PICK r : r = Remaining(length, additional)
    OBVIOUS
  <1>4. r \in Nat /\ (length >= additional => r = length - additional)
        /\ (length < additional => additional + r >= SizeMax)
    BY <1>1, <1>2, <1>3 DEF Remaining
  <1>5. additional + r = length \/ additional + r >= SizeMax
    BY <1>1, <1>4
  <1>. QED
    BY <1>3, <1>4, <1>5

LEMMA ReadHeaderOrderly ==
  ASSUME TInv, OInv, Short, NEW w \in work, ReadHeader(w), ~ Terminate, Orderly(w.conn)
  PROVE  Orderly(w.conn)'
  <1>1. PICK k \in 1 .. Available(w.conn) :
          /\ \/ Becomes(w, {[w EXCEPT !.buf = Read(w, k)]})
             \/ \E i \in DOMAIN Read(w, k) :
                  EndsHeader(Read(w, k), i) /\ Becomes(w, {Parsed(w, Read(w, k), i)})
          /\ Take(w, k)
    BY HeaderRead
  <1>p. PICK c, I, buf : c = w.conn /\ I = Len(input[c]) /\ buf = Read(w, k)
    OBVIOUS
  <1>2. /\ w \in Work /\ c \in Conn /\ w.at = "read" /\ Slot(w) /\ Streamed(c)
    BY <1>p DEF ReadHeader, Orderly, TInv, TypeOK, Work
  <1>3. InBuffer(w) /\ Ahead(c, taken[c] - Len(w.buf)) /\ KeptBut(c, 0)
    BY <1>p, <1>2 DEF Slot, ReadSlot
  <1>4. PICK b \in Nat : ReadFrom(w, k, b)
    BY <1>3, ReadPlaces
  <1>5. /\ buf \in Seq(Unit) /\ Len(buf) \in Nat /\ Len(buf) >= 1 /\ I \in Nat
        /\ \A j \in 1 .. Len(buf) : buf[j] = input[c][b + j]
        /\ \A j \in 1 .. Len(buf) : buf[j].n \in 1 .. Len(asked[c])
        /\ b = taken[c] - Len(w.buf) /\ taken[c] + k = b + Len(buf) /\ b + Len(buf) <= I
    <2>1. buf \in Seq(Unit) /\ Len(buf) = Len(w.buf) + k /\ k \in Nat /\ k > 0 /\ Len(w.buf) \in Nat
      BY <1>p, <1>3, ReadPlaces
    <2>2. Len(buf) >= 1 /\ Len(buf) \in Nat
      BY <2>1
    <2>3. I \in Nat
      BY <1>p, <1>2, MadeType
    <2>4. \A j \in 1 .. Len(buf) : buf[j].n \in 1 .. Len(asked[c])
      BY <1>p, ReadType
    <2>. QED
      BY <1>p, <1>4, <2>1, <2>2, <2>3, <2>4 DEF ReadFrom
  <1>6. /\ taken' = [taken EXCEPT ![c] = @ + k]
        /\ UNCHANGED <<backlog, client, asked, left, input, answers, hasty>>
    BY <1>1, <1>p DEF Take
  <1>7. taken'[c] = b + Len(buf)
    BY <1>2, <1>5, <1>6 DEF TInv, TypeOK
  <1>8. ASSUME NEW new, Becomes(w, {new}), Slot(new)' PROVE Orderly(w.conn)'
    BY <1>6, <1>8, OrderlyReplaced
  <1>9. KeptBut(c, 0)' /\ \A m : Past(c, m) => Past(c, m)'
    BY <1>3, <1>6 DEF KeptBut, Past
  <1>10. CASE Becomes(w, {[w EXCEPT !.buf = buf]})
    <2>1. PICK new : new = [w EXCEPT !.buf = buf]
      OBVIOUS
    <2>2. new.conn = c /\ new.at = "read" /\ new.buf = buf
      BY <1>p, <1>2, <2>1 DEF Work
    <2>3. taken'[c] - Len(buf) = b /\ Len(buf) <= taken'[c]
      BY <1>5, <1>7
    <2>4. InBuffer(new)'
      BY <1>5, <1>6, <2>2, <2>3 DEF InBuffer
    <2>5. Ahead(c, b)'
      BY <1>3, <1>5, <1>6, <1>9 DEF Ahead
    <2>6. Slot(new)'
      BY <1>9, <2>2, <2>3, <2>4, <2>5 DEF Slot, ReadSlot
    <2>. QED
      BY <1>8, <1>10, <2>1, <2>6
  <1>11. ASSUME NEW i \in DOMAIN buf, EndsHeader(buf, i), Becomes(w, {Parsed(w, buf, i)})
         PROVE  Orderly(w.conn)'
    <2>1. i \in 1 .. Len(buf)
      BY <1>5, <1>11
    <2>2. PICK new : new = Parsed(w, buf, i)
      OBVIOUS
    <2>3. CASE buf[1].part # "head"
      <3>1. new.conn = c /\ new.at = "lookup" /\ new.req = Garbled
        BY <1>p, <1>2, <2>2, <2>3 DEF Parsed, Request, Garbled, Work
      <3>2. Slot(new)'
        BY <1>9, <3>1 DEF Slot
      <3>. QED
        BY <1>8, <1>11, <2>2, <3>2
    <2>4. CASE buf[1].part = "head"
      <3>1. PICK m, r : m = buf[1].n /\ r = asked[c][m]
        OBVIOUS
      <3>2. /\ i = 2 /\ Len(buf) >= 2 /\ input[c][b + 2].part = "tail"
            /\ input[c][b + 2].n = m /\ input[c][b + 1].n = m /\ TailAt(c, b + 2)
        BY <1>p, <1>2, <1>3, <1>4, <1>11, <2>1, <2>4, <3>1, HeaderFound
      <3>3. m \in 1 .. Len(asked[c]) /\ r \in Requests /\ r.body \in 0 .. SizeMax - 1
            /\ (r.body > 0 => r.announced)
        <4>1. m \in 1 .. Len(asked[c])
          BY <1>5, <3>1
        <4>2. asked[c] \in Seq(Requests)
          BY <1>2, MadeType
        <4>3. r \in Requests
          BY <3>1, <4>1, <4>2, ElementOfSeq
        <4>. QED
          BY <4>1, <4>3, RequestAssumption
      <3>4. Past(c, m)'
        <4>1. b + 1 \in b + 1 .. I
          BY <1>5
        <4>2. Past(c, m)
          BY <1>p, <1>3, <1>5, <3>2, <4>1 DEF Ahead
        <4>. QED
          BY <1>9, <4>2
      <3>5. Request(w.conn, buf) = r
        BY <1>p, <2>4, <3>1 DEF Request
      <3>6. CASE r.announced
        <4>1. PICK rest : rest = SubSeq(buf, 3, Len(buf))
          OBVIOUS
        <4>2. new = [w EXCEPT !.req = r, !.n = m, !.at = "body", !.buf = rest,
                              !.need = Remaining(r.body, Len(rest))]
          BY <1>p, <1>2, <2>2, <3>1, <3>2, <3>5, <3>6, <4>1 DEF Parsed, Work
        <4>3. /\ new.conn = c /\ new.at = "body" /\ new.buf = rest /\ new.n = m /\ new.req = r
              /\ new.need = Remaining(r.body, Len(rest))
          BY <1>p, <1>2, <4>2 DEF Work
        <4>4. /\ Len(rest) = Len(buf) - 2
              /\ \A j \in 1 .. Len(buf) - 2 : rest[j] = buf[2 + j]
          <5>1. PICK two \in Nat : two = 2
            OBVIOUS
          <5>2. Len(buf) \in two .. Len(buf) /\ rest = SubSeq(buf, two + 1, Len(buf))
            BY <1>5, <3>2, <4>1, <5>1
          <5>3. /\ Len(rest) = Len(buf) - two
                /\ \A j \in 1 .. Len(buf) - two : rest[j] = buf[two + j]
            BY <1>5, <5>2, Slice
          <5>. QED
            BY <5>1, <5>3
        <4>5. /\ Len(rest) \in Nat /\ Len(rest) <= taken'[c]
              /\ taken'[c] - Len(rest) = b + 2 /\ Len(rest) < I
          BY <1>5, <1>7, <3>2, <4>4, SMTT(30)
        <4>6. \A j \in 1 .. Len(rest) : rest[j] = input[c][b + 2 + j]
          <5>1. TAKE j \in 1 .. Len(rest)
          <5>2. 2 + j \in 1 .. Len(buf) /\ b + (2 + j) = b + 2 + j
            BY <1>5, <3>2, <4>4, <5>1
          <5>. QED
            BY <1>5, <4>4, <5>1, <5>2
        <4>7. InBuffer(new)'
          BY <1>6, <4>3, <4>5, <4>6 DEF InBuffer
        <4>8. TailBefore(new, b + 2)'
          <5>1. PICK h : h = b + 2
            OBVIOUS
          <5>2. h > 0 /\ input'[c][h].part = "tail" /\ input'[c][h].n = m
            BY <1>6, <3>2, <5>1
          <5>3. TailBefore(new, h)'
            BY <4>3, <5>2 DEF TailBefore
          <5>. QED
            BY <5>1, <5>3
        <4>9. Len(rest) + new.need = r.body \/ Len(rest) + new.need >= SizeMax
          <5>1. Len(rest) \in 0 .. SizeMax - 1
            BY <1>p, <1>2, <1>5, <4>5, SizeAssumption DEF Short
          <5>. QED
            BY <3>3, <4>3, <5>1, WhatRemains
        <4>10. new.n \in 1 .. Len(asked'[c]) /\ new.req = asked'[c][new.n]
          BY <1>6, <3>1, <3>3, <4>3
        <4>11. BodySlot(new)'
          BY <3>4, <4>3, <4>5, <4>7, <4>8, <4>9, <4>10 DEF BodySlot
        <4>12. Slot(new)'
          BY <1>9, <4>3, <4>11 DEF Slot
        <4>. QED
          BY <1>8, <1>11, <2>2, <4>12
      <3>7. CASE ~ r.announced
        <4>1. new = [w EXCEPT !.req = r, !.n = m, !.at = "lookup", !.buf = <<>>]
          BY <1>p, <1>2, <2>2, <3>1, <3>5, <3>7 DEF Parsed, Work
        <4>2. new.conn = c /\ new.at = "lookup" /\ new.buf = <<>> /\ new.n = m /\ new.req = r
          BY <1>p, <1>2, <4>1 DEF Work
        <4>3. r.body = 0
          BY <3>3, <3>7
        <4>4. m \in 1 .. Made(c) /\ \A j \in b + 3 .. I : input[c][j].n > m
          <5>1. PICK h : h = b + 2
            OBVIOUS
          <5>2. /\ h \in Nat /\ h <= I /\ h + asked[c][input[c][h].n].body = h
                /\ input[c][h].n = m /\ TailAt(c, h)
            <6>1. h \in Nat /\ h <= I
              BY <1>5, <3>2, <5>1
            <6>2. input[c][h].n = m /\ TailAt(c, h)
              BY <3>2, <5>1
            <6>3. asked[c][input[c][h].n].body = 0
              BY <3>1, <4>3, <6>2
            <6>. QED
              BY <6>1, <6>2, <6>3
          <5>3. /\ \A j \in h + 1 .. I : Behind(c, m, h, j)
                /\ m <= Made(c)
            BY <1>p, <5>2 DEF TailAt
          <5>4. \A j \in h + 1 .. I : input[c][j].n > m
            BY <5>2, <5>3 DEF Behind
          <5>5. Made(c) \in Nat
            BY <1>2, MadeType
          <5>6. h + 1 = b + 3
            BY <5>1
          <5>. QED
            BY <3>3, <5>3, <5>4, <5>5, <5>6
        <4>5. Beyond(c, m)'
          <5>1. \A j \in b + Len(buf) + 1 .. I : j \in b + 3 .. I
            BY <1>5, <3>2
          <5>. QED
            BY <1>p, <1>6, <1>7, <4>4, <5>1 DEF Beyond
        <4>6. Made(c)' = Made(c)
          BY <1>6 DEF Made
        <4>7. Whole(new)'
          BY <1>6, <3>1, <4>2, <4>4, <4>5, <4>6 DEF Whole
        <4>8. new.buf = BodyOf(new.n, new.req)
          BY <4>2, <4>3 DEF BodyOf
        <4>9. Slot(new)'
          BY <1>9, <3>4, <4>2, <4>7, <4>8 DEF Slot
        <4>. QED
          BY <1>8, <1>11, <2>2, <4>9
      <3>. QED
        BY <3>6, <3>7
    <2>. QED
      BY <2>3, <2>4
  <1>. QED
    BY <1>1, <1>p, <1>10, <1>11

LEMMA ReadBodyOrderly ==
  ASSUME TInv, OInv, NEW w \in work, ReadBody(w), Orderly(w.conn)
  PROVE  Orderly(w.conn)'
  <1>1. PICK k \in 1 .. Available(w.conn) :
          /\ k <= w.need
          /\ Becomes(w, {[w EXCEPT !.buf = Read(w, k), !.need = @ - k]})
          /\ Take(w, k)
    BY ZenonT(60) DEF ReadBody
  <1>p. PICK c, I, buf : c = w.conn /\ I = Len(input[c]) /\ buf = Read(w, k)
    OBVIOUS
  <1>2. /\ w \in Work /\ c \in Conn /\ w.at = "body" /\ BodySlot(w) /\ KeptBut(c, 0)
    BY <1>p DEF ReadBody, Orderly, Slot, TInv, TypeOK, Work
  <1>4. PICK b \in Nat : ReadFrom(w, k, b)
    BY <1>2, ReadPlaces DEF BodySlot
  <1>5. /\ Len(buf) \in Nat /\ Len(buf) = Len(w.buf) + k /\ k \in Nat /\ Len(w.buf) \in Nat
        /\ \A j \in 1 .. Len(buf) : buf[j] = input[c][b + j]
        /\ b = taken[c] - Len(w.buf) /\ taken[c] + k = b + Len(buf)
    BY <1>p, <1>2, <1>4, ReadPlaces DEF BodySlot, ReadFrom
  <1>6. /\ taken' = [taken EXCEPT ![c] = @ + k]
        /\ UNCHANGED <<backlog, client, asked, left, input, answers, hasty>>
    BY <1>1, <1>p DEF Take
  <1>7. taken'[c] = b + Len(buf)
    BY <1>2, <1>5, <1>6 DEF TInv, TypeOK
  <1>8. PICK new : new = [w EXCEPT !.buf = buf, !.need = @ - k]
    OBVIOUS
  <1>9. /\ new.conn = c /\ new.at = "body" /\ new.buf = buf /\ new.n = w.n /\ new.req = w.req
        /\ new.need = w.need - k
    BY <1>p, <1>2, <1>8 DEF Work
  <1>10. taken'[c] - Len(buf) = b /\ Len(buf) <= taken'[c]
    BY <1>5, <1>7
  <1>11. InBuffer(new)'
    BY <1>5, <1>6, <1>9, <1>10 DEF InBuffer
  <1>12. TailBefore(new, b)'
    BY <1>p, <1>2, <1>5, <1>6, <1>9 DEF BodySlot, TailBefore
  <1>13. Past(c, w.n)' /\ KeptBut(c, 0)'
    BY <1>p, <1>2, <1>6 DEF BodySlot, Past, KeptBut
  <1>14. Len(buf) + new.need = w.req.body \/ Len(buf) + new.need >= SizeMax
    <2>1. w.need \in Nat
      BY <1>2 DEF Work
    <2>2. Len(buf) + new.need = Len(w.buf) + w.need
      BY <1>5, <1>9, <2>1
    <2>. QED
      BY <1>2, <2>2 DEF BodySlot
  <1>15. w.n \in 1 .. Len(asked'[c]) /\ w.req = asked'[c][w.n]
    BY <1>p, <1>2, <1>6 DEF BodySlot
  <1>16. BodySlot(new)'
    BY <1>9, <1>10, <1>11, <1>12, <1>13, <1>14, <1>15 DEF BodySlot
  <1>17. Slot(new)'
    BY <1>9, <1>13, <1>16 DEF Slot
  <1>. QED
    BY <1>1, <1>p, <1>6, <1>8, <1>17, OrderlyReplaced

(* A body that is complete is that of its request: what is missing cannot  *)
(* have run through zero while so little has been sent.                    *)
LEMMA BodyDoneOrderly ==
  ASSUME TInv, OInv, Short, NEW w \in work, BodyDone(w), Orderly(w.conn)
  PROVE  Orderly(w.conn)'
  <1>p. PICK c, I, n, l, h : /\ c = w.conn /\ I = Len(input[c]) /\ n = w.n /\ l = Len(w.buf)
                             /\ h = taken[c] - Len(w.buf)
    OBVIOUS
  <1>1. /\ w \in Work /\ c \in Conn /\ w.at = "body" /\ BodySlot(w) /\ KeptBut(c, 0)
        /\ w.need = 0 /\ Streamed(c)
    BY <1>p DEF BodyDone, Orderly, Slot, TInv, TypeOK, Work
  <1>2. /\ I \in Nat /\ taken[c] \in Nat /\ taken[c] <= I /\ l \in Nat /\ I < SizeMax
    <2>1. I \in Nat /\ taken[c] \in Nat /\ taken[c] <= I
      BY <1>p, <1>1, MadeType
    <2>. QED
      BY <1>p, <1>1, <2>1 DEF Short, Work
  <1>3. /\ l <= taken[c] /\ \A j \in 1 .. l : w.buf[j] = input[c][h + j]
        /\ h > 0 /\ input[c][h].part = "tail" /\ input[c][h].n = n
        /\ n \in 1 .. Len(asked[c]) /\ w.req = asked[c][n] /\ Past(c, n)
        /\ l + w.need = w.req.body \/ l + w.need >= SizeMax
    BY <1>p, <1>1 DEF BodySlot, InBuffer, TailBefore
  <1>4. l = w.req.body
    <2>1. l + w.need = l /\ ~ (l >= SizeMax)
      BY <1>1, <1>2, <1>3, SizeAssumption
    <2>. QED
      BY <1>3, <2>1
  <1>5. h \in 1 .. I /\ h + l = taken[c] /\ h \in Nat
    <2>1. PICK t \in Nat : t = taken[c]
      BY <1>2
    <2>2. h = t - l /\ t <= I /\ l <= t /\ h > 0
      BY <1>p, <1>2, <1>3, <2>1
    <2>3. h \in 1 .. I /\ h + l = t /\ h \in Nat
      BY <1>2, <2>2
    <2>. QED
      BY <2>1, <2>3
  <1>6. TailAt(c, h)
    BY <1>p, <1>3, <1>5 DEF Orderly, Streamed
  <1>7. /\ \A j \in h + 1 .. I : Behind(c, n, h + l, j)
        /\ n <= Made(c)
    <2>1. h + asked[c][input[c][h].n].body = h + l
      BY <1>3, <1>4
    <2>2. h + l <= I
      BY <1>2, <1>5
    <2>. QED
      BY <1>p, <1>3, <1>6, <2>1, <2>2 DEF TailAt
  <1>8. n \in 1 .. Made(c)
    BY <1>1, <1>3, <1>7, MadeType
  <1>9. Beyond(c, n)
    <2>1. ASSUME NEW j \in taken[c] + 1 .. I PROVE input[c][j].n > n
      <3>1. j \in h + 1 .. I /\ ~ (j <= h + l)
        BY <1>2, <1>5, <2>1
      <3>. QED
        BY <1>7, <3>1 DEF Behind
    <2>. QED
      BY <1>p, <2>1 DEF Beyond
  <1>10. w.buf = BodyOf(n, w.req)
    <2>1. ASSUME NEW j \in 1 .. l PROVE w.buf[j] = [n |-> n, part |-> "body"]
      <3>1. h + j \in h + 1 .. I /\ h + j <= h + l
        BY <1>2, <1>5, <2>1
      <3>2. input[c][h + j] = [n |-> n, part |-> "body"]
        BY <1>7, <3>1 DEF Behind
      <3>. QED
        BY <1>3, <2>1, <3>2
    <2>2. w.buf \in Seq(Unit)
      BY <1>1 DEF Work
    <2>3. w.buf = [j \in 1 .. l |-> w.buf[j]]
      BY <1>p, <2>2
    <2>. QED
      BY <1>4, <2>1, <2>3 DEF BodyOf
  <1>11. PICK new : new = At(w, "lookup")
    OBVIOUS
  <1>12. new.conn = c /\ new.at = "lookup" /\ new.buf = w.buf /\ new.n = n /\ new.req = w.req
    BY <1>p, <1>1, <1>11 DEF At, Work
  <1>13. Becomes(w, {new}) /\ UNCHANGED <<backlog, client, asked, left, input, taken, answers, hasty>>
    BY <1>11 DEF BodyDone, peers
  <1>14. Past(c, n)' /\ KeptBut(c, 0)' /\ Beyond(c, n)' /\ Made(c)' = Made(c)
    BY <1>1, <1>3, <1>9, <1>13 DEF Past, KeptBut, Beyond, Made
  <1>15. Whole(new)'
    BY <1>3, <1>8, <1>12, <1>13, <1>14 DEF Whole
  <1>16. Slot(new)'
    BY <1>10, <1>12, <1>14, <1>15 DEF Slot
  <1>. QED
    BY <1>13, <1>16, OrderlyReplaced

(* A client that waits is answered its requests one by one.                *)
LEMMA NextInTurn ==
  ASSUME TInv, KInv, NEW w \in work, w.at = "write", Orderly(w.conn), w.conn \notin hasty
  PROVE  w.n = Len(answers[w.conn]) + 1
  <1>p. PICK c, A, n, L : /\ c = w.conn /\ A = Len(answers[c]) /\ n = w.n /\ L = Len(asked[c])
    OBVIOUS
  <1>1. c \in Conn /\ Slot(w) /\ InTurn(c) /\ HandlerTurn(w)
    BY <1>p DEF Orderly, KInv, Turn, TInv, TypeOK, Work
  <1>2. /\ n \in 1 .. Made(c) /\ Past(c, n) /\ Made(c) \in Nat /\ Made(c) <= L
        /\ A \in Nat /\ L \in Nat
    BY <1>p, <1>1, MadeType DEF Slot, Whole
  <1>3. A = L - 1
    BY <1>p, <1>1 DEF HandlerTurn, Pending
  <1>4. A > 0 => A < n
    <2>1. A > 0 => A \in 1 .. A
      BY <1>2
    <2>. QED
      BY <1>p, <1>1, <1>2, <2>1 DEF InTurn, Past
  <1>5. n = A + 1
    BY <1>2, <1>3, <1>4
  <1>. QED
    BY <1>p, <1>5

LEMMA WriteOutOrderly ==
  ASSUME TInv, OInv, KInv, NEW w \in work, WriteOut(w), Orderly(w.conn)
  PROVE  Orderly(w.conn)'
  <1>p. PICK c, A, n, a : /\ c = w.conn /\ A = Len(answers[c]) /\ n = w.n
                          /\ a = [to |-> n, body |-> w.buf]
    OBVIOUS
  <1>1. /\ w \in Work /\ c \in Conn /\ w.at = "write" /\ Whole(w) /\ Past(c, n)
        /\ KeptBut(c, 0) /\ InTurn(c) /\ n \in Nat /\ a.to = n
    BY <1>p DEF WriteOut, Orderly, Slot, TInv, TypeOK, Work
  <1>2. /\ answers[c] \in Seq([to : Nat, body : Seq(Unit)]) /\ A \in Nat
        /\ a \in [to : Nat, body : Seq(Unit)]
        /\ \A j \in 1 .. A : answers[c][j].to \in Nat
        /\ Made(c) \in Nat
    <2>1. a \in [to : Nat, body : Seq(Unit)]
      BY <1>p, <1>1 DEF Work
    <2>. QED
      BY <1>p, <1>1, <2>1, MadeType
  <1>3. /\ UNCHANGED <<backlog, client, asked, left, input, taken, hasty>>
        /\ Becomes(w, {At(w, "written")})
    BY DEF WriteOut
  <1>4. PICK new : new = At(w, "written")
    OBVIOUS
  <1>5. new.conn = c /\ new.at = "written" /\ new.n = n /\ new.req = w.req
    BY <1>p, <1>1, <1>4 DEF At, Work
  <1>6. Whole(new)'
    <2>1. n \in 1 .. Made(c) /\ w.req = asked[c][n] /\ Beyond(c, n)
      BY <1>p, <1>1 DEF Whole
    <2>2. Made(c)' = Made(c) /\ Beyond(c, n)'
      BY <1>3, <2>1 DEF Made, Beyond
    <2>. QED
      BY <1>3, <1>5, <2>1, <2>2 DEF Whole
  <1>7. /\ \A j \in 1 .. A : answers[c][j].to < n + 1
        /\ \A j \in 1 .. A : KeepsAlive(asked[c][answers[c][j].to])
    <2>1. ASSUME NEW j \in 1 .. A PROVE answers[c][j].to < n + 1
      <3>1. PICK x \in Nat : x = answers[c][j].to
        BY <1>2
      <3>2. x < n
        BY <1>p, <1>1, <2>1, <3>1 DEF Past
      <3>3. x < n + 1
        BY <1>1, <3>2
      <3>. QED
        BY <3>1, <3>3
    <2>2. \A j \in 1 .. A : answers[c][j].to # 0
      <3>1. \A j \in 1 .. A : answers[c][j].to \in 1 .. Made(c)
        BY <1>p, <1>1 DEF InTurn
      <3>2. 0 \notin 1 .. Made(c)
        BY <1>2
      <3>. QED
        BY <3>1, <3>2, Zenon
    <2>. QED
      BY <1>p, <1>1, <2>1, <2>2 DEF KeptBut
  <1>8. Past(c, n + 1)' /\ KeptBut(c, n)' /\ InTurn(c)'
    <2>1. CASE client[c] = "closed"
      <3>1. answers' = answers
        BY <1>p, <2>1 DEF WriteOut
      <3>2. PICK m : m = n + 1
        OBVIOUS
      <3>3. Past(c, m)'
        BY <1>p, <1>7, <3>1, <3>2 DEF Past
      <3>4. KeptBut(c, n)' /\ InTurn(c)'
        BY <1>p, <1>1, <1>3, <1>7, <3>1 DEF KeptBut, InTurn, Made
      <3>. QED
        BY <3>2, <3>3, <3>4
    <2>2. CASE client[c] # "closed"
      <3>1. answers'[c] = Append(answers[c], a)
        BY <1>p, <1>1, <2>2 DEF WriteOut, TInv, TypeOK
      <3>2. /\ Len(answers'[c]) = A + 1 /\ answers'[c][A + 1] = a
            /\ \A j \in 1 .. A : answers'[c][j] = answers[c][j]
        BY <1>p, <1>2, <3>1
      <3>3. \A j \in 1 .. A + 1 : j # A + 1 => j \in 1 .. A
        BY <1>2
      <3>4. PICK m : m = n + 1
        OBVIOUS
      <3>5. Past(c, m)'
        <4>1. \A j \in 1 .. A + 1 : answers'[c][j].to < m
          <5>1. n < n + 1
            BY <1>1
          <5>. QED
            BY <1>1, <1>7, <3>2, <3>3, <3>4, <5>1
        <4>. QED
          BY <3>2, <4>1 DEF Past
      <3>6. KeptBut(c, n)'
        <4>1. \A j \in 1 .. A + 1 : answers'[c][j].to # n =>
                KeepsAlive(asked'[c][answers'[c][j].to])
          BY <1>1, <1>3, <1>7, <3>2, <3>3
        <4>. QED
          BY <3>2, <4>1 DEF KeptBut
      <3>7. InTurn(c)'
        <4>1. n \in 1 .. Made(c)' /\ (c \notin hasty' => n = A + 1)
          <5>1. Made(c)' = Made(c) /\ n \in 1 .. Made(c)
            BY <1>p, <1>1, <1>3 DEF Made, Whole
          <5>2. c \notin hasty => n = A + 1
            BY <1>p, <1>1, NextInTurn
          <5>. QED
            BY <1>3, <5>1, <5>2
        <4>2. ASSUME NEW j \in 1 .. A
              PROVE  answers[c][j].to \in 1 .. Made(c)' /\ (c \notin hasty' => answers[c][j].to = j)
          BY <1>p, <1>1, <1>3 DEF InTurn, Made
        <4>3. \A j \in 1 .. A + 1 :
                answers'[c][j].to \in 1 .. Made(c)' /\ (c \notin hasty' => answers'[c][j].to = j)
          BY <1>1, <3>2, <3>3, <4>1, <4>2
        <4>. QED
          BY <3>2, <4>3 DEF InTurn
      <3>. QED
        BY <3>4, <3>5, <3>6, <3>7
    <2>. QED
      BY <2>1, <2>2
  <1>9. Slot(new)'
    BY <1>5, <1>6, <1>8 DEF Slot
  <1>. QED
    BY <1>p, <1>3, <1>4, <1>8, <1>9, OrderlyPut

LEMMA WrittenOrderly ==
  ASSUME TInv, OInv, NEW w \in work, Written(w), w.req.version # "none", Orderly(w.conn)
  PROVE  Orderly(w.conn)'
  <1>p. PICK c, n : c = w.conn /\ n = w.n
    OBVIOUS
  <1>1. /\ w \in Work /\ c \in Conn /\ w.at = "written" /\ Whole(w) /\ Past(c, n + 1)
        /\ KeptBut(c, n) /\ n \in Nat
    BY <1>p DEF Written, Orderly, Slot, TInv, TypeOK, Work
  <1>2. UNCHANGED <<backlog, asked, left, input, taken, answers, hasty>>
    BY DEF Written
  <1>3. CASE ~ KeepsAlive(w.req)
    BY <1>2, <1>3, OrderlyDropped DEF Written
  <1>4. CASE KeepsAlive(w.req)
    <2>1. PICK new : new = Reading(c)
      OBVIOUS
    <2>2. new.conn = c /\ new.at = "read" /\ Len(new.buf) = 0
      BY <1>1, <2>1, ReadingType, NoUnits
    <2>3. Becomes(w, {new}) /\ client' = client
      BY <1>p, <1>4, <2>1 DEF Written
    <2>4. /\ taken[c] \in Nat /\ Len(input[c]) \in Nat
          /\ \A i \in 1 .. Len(input[c]) : input[c][i].n \in Nat
          /\ \A j \in 1 .. Len(answers[c]) : answers[c][j].to \in Nat
      <3>1. \A i \in 1 .. Len(input[c]) : input[c][i] \in Unit
        BY <1>1, MadeType
      <3>2. \A i \in 1 .. Len(input[c]) : input[c][i].n \in Nat
        BY <3>1 DEF Unit
      <3>. QED
        BY <1>1, <3>2, MadeType
    <2>5. PICK t \in Nat : t = taken[c]
      BY <2>4
    <2>6. Ahead(c, t)'
      <3>1. ASSUME NEW i \in t + 1 .. Len(input[c]), NEW j \in 1 .. Len(answers[c])
            PROVE  answers[c][j].to < input[c][i].n
        <4>1. input[c][i].n > n
          BY <1>p, <1>1, <2>5, <3>1 DEF Whole, Beyond
        <4>2. answers[c][j].to < n + 1
          BY <1>1, <3>1 DEF Past
        <4>3. i \in 1 .. Len(input[c])
          BY <2>4, <3>1
        <4>4. PICK x \in Nat, y \in Nat : x = input[c][i].n /\ y = answers[c][j].to
          BY <2>4, <3>1, <4>3
        <4>5. y < x
          BY <1>1, <4>1, <4>2, <4>4, SMTT(30)
        <4>. QED
          BY <4>4, <4>5
      <3>. QED
        BY <1>2, <3>1 DEF Ahead, Past
    <2>7. InBuffer(new)' /\ taken'[c] - Len(new.buf) = t
      BY <1>2, <2>2, <2>4, <2>5 DEF InBuffer
    <2>8. KeptBut(c, 0)'
      <3>1. ASSUME NEW j \in 1 .. Len(answers[c]) PROVE KeepsAlive(asked[c][answers[c][j].to])
        <4>1. w.req = asked[c][n]
          BY <1>p, <1>1 DEF Whole
        <4>. QED
          BY <1>1, <1>4, <4>1 DEF KeptBut
      <3>. QED
        BY <1>2, <3>1 DEF KeptBut
    <2>9. Slot(new)'
      BY <2>2, <2>6, <2>7, <2>8 DEF Slot, ReadSlot
    <2>. QED
      BY <1>p, <1>2, <2>3, <2>9, OrderlyReplaced
  <1>. QED
    BY <1>3, <1>4

(* Nothing that is not a request is answered.                              *)
LEMMA GarbledUnanswered == ~ CanAnswer(Garbled)
  <1>1. Resource(Garbled.path) \in DOMAIN Offered
    BY ResourceFound
  <1>2. Garbled.method = "none"
    BY DEF Garbled
  <1>. QED
    BY <1>1, <1>2 DEF CanAnswer, Offered

LEMMA HandlerOrderly ==
  ASSUME TInv, OInv, KInv, Short, NEW w \in work, Handler(w), Orderly(w.conn),
         hasty \subseteq hasty'
  PROVE  Orderly(w.conn)'
  <1>p. PICK c : c = w.conn
    OBVIOUS
  <1>1. w \in Work /\ c \in Conn /\ Slot(w)
    BY <1>p DEF Orderly, TInv, TypeOK, Work
  <1>2. ASSUME Terminate PROVE Orderly(c)'
    BY <1>p, <1>1, <1>2, OrderlyElsewhere DEF Terminate, peers
  <1>3. CASE HandshakeDone(w)
    <2>1. PICK new : new = Reading(c)
      OBVIOUS
    <2>2. new.conn = c /\ new.at = "read" /\ Len(new.buf) = 0
      BY <1>1, <2>1, ReadingType, NoUnits
    <2>3. /\ Becomes(w, {new}) /\ client'[c] = "up" /\ w.at = "handshake"
          /\ UNCHANGED <<backlog, asked, left, input, taken, answers, hasty>>
      BY <1>p, <1>1, <1>3, <2>1 DEF HandshakeDone, TInv, TypeOK
    <2>4. InBuffer(w) /\ Ahead(c, taken[c] - Len(w.buf)) /\ KeptBut(c, 0)
      BY <1>p, <1>1, <2>3 DEF Slot, ReadSlot
    <2>p. PICK t \in Nat : t = taken[c]
      BY <1>1, MadeType
    <2>5. PICK b : t = taken[c] /\ b = t - Len(w.buf)
      BY <2>p
    <2>6. Ahead(c, t)'
      <3>1. Len(w.buf) \in Nat /\ Len(w.buf) <= t
        BY <1>p, <1>1, <2>4, <2>5 DEF InBuffer, Work
      <3>2. Len(input[c]) \in Nat /\ b \in Nat /\ b <= t
        BY <1>1, <2>5, <3>1, MadeType, SMTT(30)
      <3>3. \A i \in t + 1 .. Len(input[c]) : i \in b + 1 .. Len(input[c])
        BY <3>2
      <3>. QED
        BY <2>3, <2>4, <2>5, <3>3 DEF Ahead, Past
    <2>7. InBuffer(new)' /\ taken'[c] - Len(new.buf) = t
      BY <2>2, <2>3, <2>5 DEF InBuffer
    <2>8. Slot(new)'
      BY <2>2, <2>3, <2>4, <2>6, <2>7 DEF Slot, ReadSlot, KeptBut
    <2>. QED
      BY <1>p, <2>3, <2>8, OrderlyReplaced
  <1>4. CASE Fails(w)
    BY <1>p, <1>4, OrderlyDropped DEF Fails
  <1>5. CASE LookUp(w)
    <2>1. CASE Terminate
      BY <1>2, <1>p, <2>1
    <2>2. CASE ~ Terminate
      <3>1. PICK new : new = At(w, "call")
        OBVIOUS
      <3>2. /\ Becomes(w, {new}) /\ w.at = "lookup"
            /\ UNCHANGED <<backlog, client, asked, left, input, taken, answers, hasty>>
        BY <1>5, <2>2, <3>1 DEF LookUp, peers
      <3>3. new.conn = c /\ new.at = "call" /\ new.buf = w.buf /\ new.n = w.n /\ new.req = w.req
        BY <1>p, <1>1, <3>1 DEF At, Work
      <3>4. /\ KeptBut(c, 0)'
            /\ w.req = Garbled \/ (Whole(w) /\ Past(c, w.n) /\ w.buf = BodyOf(w.n, w.req))
        BY <1>p, <1>1, <3>2 DEF Slot, KeptBut
      <3>5. Whole(w) => Whole(new)'
        BY <1>p, <3>2, <3>3 DEF Whole, Beyond, Made
      <3>6. Past(c, w.n) => Past(c, w.n)'
        BY <3>2 DEF Past
      <3>7. Slot(new)'
        BY <3>3, <3>4, <3>5, <3>6 DEF Slot
      <3>. QED
        BY <1>p, <3>2, <3>7, OrderlyReplaced
    <2>. QED
      BY <2>1, <2>2
  <1>6. CASE Call(w)
    <2>1. CASE ~ CanAnswer(w.req)
      BY <1>2, <1>p, <1>6, <2>1 DEF Call
    <2>2. CASE CanAnswer(w.req)
      <3>1. PICK old, new : old = [w EXCEPT !.buf = Echo(w.req, @)] /\ new = At(old, "write")
        OBVIOUS
      <3>2. /\ Becomes(w, {new}) /\ w.at = "call"
            /\ UNCHANGED <<backlog, client, asked, left, input, taken, answers, hasty>>
        BY <1>6, <2>2, <3>1 DEF Call, Answering, peers
      <3>3. /\ new.conn = c /\ new.at = "write" /\ new.buf = Echo(w.req, w.buf) /\ new.n = w.n
            /\ new.req = w.req
        BY <1>p, <1>1, <3>1 DEF At, Work
      <3>4. /\ KeptBut(c, 0)'
            /\ Whole(w) /\ Past(c, w.n) /\ w.buf = BodyOf(w.n, w.req)
        BY <1>p, <1>1, <2>2, <3>2, GarbledUnanswered DEF Slot, KeptBut
      <3>5. Whole(new)'
        BY <1>p, <3>2, <3>3, <3>4 DEF Whole, Beyond, Made
      <3>6. Past(c, w.n)'
        BY <3>2, <3>4 DEF Past
      <3>7. Slot(new)'
        BY <3>3, <3>4, <3>5, <3>6 DEF Slot
      <3>. QED
        BY <1>p, <3>2, <3>7, OrderlyReplaced
    <2>. QED
      BY <2>1, <2>2
  <1>7. CASE Written(w)
    <2>1. CASE w.req.version = "none"
      BY <1>2, <1>p, <1>7, <2>1 DEF Written
    <2>2. CASE w.req.version # "none"
      BY <1>7, <2>2, WrittenOrderly
    <2>. QED
      BY <2>1, <2>2
  <1>. QED
    BY <1>p, <1>2, <1>3, <1>4, <1>5, <1>6, <1>7, ReadHeaderOrderly, ReadBodyOrderly, BodyDoneOrderly,
       WriteOutOrderly DEF Handler

LEMMA HandlerLeavesOrderly ==
  ASSUME TInv, OInv, NEW w \in work, Handler(w), NEW c \in Conn, c # w.conn, Orderly(c),
         hasty \subseteq hasty'
  PROVE  Orderly(c)'
  <1>1. w.conn \in Conn
    BY DEF TInv, TypeOK, Work
  <1>2. UNCHANGED <<asked, left, input, backlog>>
    BY ZenonT(60) DEF Handler, HandshakeDone, Fails, ReadHeader, ReadBody, Take, BodyDone, LookUp, Call,
           Terminate, WriteOut, Written, peers
  <1>3. taken'[c] = taken[c] /\ answers'[c] = answers[c] /\ client'[c] = client[c]
    <2>1. taken' = taken \/ \E k : taken' = [taken EXCEPT ![w.conn] = @ + k]
      BY ZenonT(60) DEF Handler, HandshakeDone, Fails, ReadHeader, ReadBody, Take, BodyDone, LookUp, Call,
             Terminate, WriteOut, Written, peers
    <2>2. answers' = answers \/ \E a : answers' = [answers EXCEPT ![w.conn] = Append(@, a)]
      BY ZenonT(60) DEF Handler, HandshakeDone, Fails, ReadHeader, ReadBody, Take, BodyDone, LookUp, Call,
             Terminate, WriteOut, Written, peers
    <2>3. client' = client \/ \E s : client' = [client EXCEPT ![w.conn] = s]
      BY ZenonT(60) DEF Handler, HandshakeDone, Fails, Drop, ReadHeader, ReadBody, Take, BodyDone, LookUp,
             Call, Terminate, WriteOut, Written, peers
    <2>. QED
      BY <1>1, <2>1, <2>2, <2>3, ZenonT(60) DEF TInv, TypeOK
  <1>4. \A v \in work' : v.conn = c => v \in work
    BY HandlerInPlace DEF InPlace, Becomes
  <1>. QED
    BY <1>2, <1>3, <1>4, OrderlyElsewhere

LEMMA AcceptOrderly ==
  ASSUME TInv, OInv, NEW c \in Conn, Accept(c), Orderly(c)
  PROVE  Orderly(c)'
  <1>1. PICK new : /\ new = IF https THEN At(Reading(c), "handshake") ELSE Reading(c)
                   /\ work' = work \cup {new}
    BY DEF Accept
  <1>2. /\ c \in backlog /\ c \notin backlog'
        /\ UNCHANGED <<client, asked, left, input, taken, answers, hasty>>
    BY DEF Accept
  <1>3. /\ new.conn = c /\ new.at \in {"handshake", "read"} /\ Len(new.buf) = 0
    BY <1>1, ReadingType, NoUnits
  <1>4. /\ client[c] # "away" /\ \A w \in work : w.conn # c
    BY <1>2 DEF OInv, OneOperation, AwayIsNowhere
  <1>5. taken[c] = 0 /\ Len(answers[c]) = 0
    BY <1>2 DEF Orderly
  <1>6. InBuffer(new)' /\ taken'[c] - Len(new.buf) = 0
    BY <1>2, <1>3, <1>5 DEF InBuffer
  <1>7. Ahead(c, 0)' /\ KeptBut(c, 0)'
    BY <1>2, <1>5 DEF Ahead, Past, KeptBut
  <1>8. Slot(new)'
    BY <1>3, <1>6, <1>7 DEF Slot, ReadSlot
  <1>9. Streamed(c)' /\ InTurn(c)'
    BY <1>2, ZenonT(60) DEF Orderly, Streamed, HeadAt, TailAt, Behind, InTurn, Made
  <1>. QED
    BY <1>1, <1>2, <1>4, <1>8, <1>9 DEF Orderly

LEMMA SInvNext == TInv /\ OInv /\ KInv /\ SInv /\ Short /\ [Next]_vars => SInv'
  <1>. SUFFICES ASSUME TInv, OInv, KInv, SInv, Short, [Next]_vars, NEW c \in Conn
                PROVE  Orderly(c)'
    BY DEF SInv
  <1>1. hasty \subseteq hasty'
    BY ZenonT(60) DEF Next, Serve, Accept, AcceptFails, Handler, HandshakeDone, Fails, ReadHeader,
           ReadBody, Take, BodyDone, LookUp, Call, Terminate, WriteOut, Written, Connect, AskNext,
           SendRest, Close, vars, server, peers
  <1>2. Orderly(c)
    BY DEF SInv
  <1>3. CASE UNCHANGED vars
    BY <1>1, <1>2, <1>3, OrderlyElsewhere DEF vars, server, peers
  <1>4. ASSUME NEW d \in Conn, Accept(d) PROVE Orderly(c)'
    <2>1. CASE d = c
      BY <1>2, <1>4, <2>1, AcceptOrderly
    <2>2. CASE d # c
      <3>1. PICK new : new.conn = d /\ work' = work \cup {new}
        BY <1>4, ReadingType DEF Accept
      <3>2. /\ backlog' \subseteq backlog
            /\ UNCHANGED <<client, asked, left, input, taken, answers>>
        BY <1>4 DEF Accept
      <3>. QED
        BY <1>1, <1>2, <2>2, <3>1, <3>2, OrderlyElsewhere
    <2>. QED
      BY <2>1, <2>2
  <1>5. ASSUME NEW d \in Conn, AcceptFails(d) PROVE Orderly(c)'
    BY <1>1, <1>2, <1>5, OrderlyElsewhere DEF AcceptFails
  <1>6. ASSUME NEW w \in work, Handler(w) PROVE Orderly(c)'
    <2>1. CASE w.conn = c
      BY <1>1, <1>2, <1>6, <2>1, HandlerOrderly
    <2>2. CASE w.conn # c
      BY <1>1, <1>2, <1>6, <2>2, HandlerLeavesOrderly
    <2>. QED
      BY <2>1, <2>2
  <1>7. ASSUME NEW d \in Conn, Connect(d) PROVE Orderly(c)'
    <2>1. /\ client[d] = "away" /\ backlog' = backlog \cup {d}
          /\ UNCHANGED <<work, asked, left, input, taken, answers>>
          /\ \E s \in {"calling", "up"} : client' = [client EXCEPT ![d] = s]
      BY <1>7 DEF Connect, server
    <2>2. client'[c] = "away" \/ c \in backlog' => client[c] = "away" \/ c \in backlog
      BY <2>1 DEF TInv, TypeOK
    <2>. QED
      BY <1>1, <1>2, <2>1, <2>2, OrderlyElsewhere
  <1>8. ASSUME NEW d \in Conn, Close(d) PROVE Orderly(c)'
    <2>1. /\ client' = [client EXCEPT ![d] = "closed"]
          /\ UNCHANGED <<work, backlog, asked, left, input, taken, answers>>
      BY <1>8 DEF Close, server
    <2>2. client'[c] = "away" => client[c] = "away"
      BY <2>1 DEF TInv, TypeOK
    <2>. QED
      BY <1>1, <1>2, <2>1, <2>2, OrderlyElsewhere
  <1>9. ASSUME NEW d \in Conn, AskNext(d) PROVE Orderly(c)'
    <2>1. CASE d = c
      BY <1>2, <1>9, <2>1, AskNextOrderly
    <2>2. CASE d # c
      <3>1. /\ UNCHANGED <<work, backlog, client, taken, answers>>
            /\ asked'[c] = asked[c] /\ left'[c] = left[c] /\ input'[c] = input[c]
        BY <1>9, <2>2 DEF AskNext, server, TInv, TypeOK
      <3>. QED
        BY <1>1, <1>2, <3>1, OrderlyElsewhere
    <2>. QED
      BY <2>1, <2>2
  <1>10. ASSUME NEW d \in Conn, SendRest(d) PROVE Orderly(c)'
    <2>1. CASE d = c
      BY <1>2, <1>10, <2>1, SendRestOrderly
    <2>2. CASE d # c
      <3>1. /\ UNCHANGED <<work, backlog, client, asked, taken, answers>>
            /\ left'[c] = left[c] /\ input'[c] = input[c]
        BY <1>10, <2>2 DEF SendRest, server, TInv, TypeOK
      <3>. QED
        BY <1>1, <1>2, <3>1, OrderlyElsewhere
    <2>. QED
      BY <2>1, <2>2
  <1>. QED
    BY <1>3, <1>4, <1>5, <1>6, <1>7, <1>8, <1>9, <1>10 DEF Next, Serve

-----------------------------------------------------------------------------
(* The server implements the conversation.                                 *)

Questions == [c \in Conn |-> CompleteRequests(c)]

LEMMA Completed ==
  ASSUME TInv, NEW c \in Conn
  PROVE  /\ CompleteRequests(c) \in Seq(Requests)
         /\ Len(CompleteRequests(c)) = Made(c)
         /\ \A i \in 1 .. Made(c) : CompleteRequests(c)[i] = asked[c][i]
         /\ Questions[c] = CompleteRequests(c)
  <1>1. /\ asked[c] \in Seq(Requests) /\ Len(asked[c]) \in Nat /\ left[c] \in Nat
        /\ Made(c) \in Nat /\ Made(c) <= Len(asked[c])
    BY MadeType
  <1>2. CASE left[c] = 0
    BY <1>1, <1>2 DEF CompleteRequests, Made, Questions
  <1>3. CASE left[c] # 0
    <2>1. PICK none \in Nat : none = 0
      OBVIOUS
    <2>2. Made(c) = Len(asked[c]) - 1 /\ Made(c) \in none .. Len(asked[c])
      BY <1>1, <1>3, <2>1 DEF Made
    <2>3. CompleteRequests(c) = SubSeq(asked[c], none + 1, Made(c))
      BY <1>3, <2>1, <2>2 DEF CompleteRequests
    <2>4. /\ CompleteRequests(c) \in Seq(Requests)
          /\ Len(CompleteRequests(c)) = Made(c) - none
          /\ \A i \in 1 .. Made(c) - none : CompleteRequests(c)[i] = asked[c][none + i]
      BY <1>1, <2>1, <2>2, <2>3, Slice
    <2>5. /\ Len(CompleteRequests(c)) = Made(c)
          /\ \A i \in 1 .. Made(c) : CompleteRequests(c)[i] = asked[c][i]
      BY <1>1, <2>1, <2>4
    <2>. QED
      BY <2>4, <2>5 DEF Questions
  <1>. QED
    BY <1>2, <1>3

(* What is not seen in the conversation.                                   *)
LEMMA Unseen ==
  ASSUME UNCHANGED <<running, answers, hasty>>,
         \A c \in Conn : CompleteRequests(c)' = CompleteRequests(c)
  PROVE  UNCHANGED Conversation!vars
  BY DEF Conversation!vars

LEMMA TerminateEnds ==
  ASSUME running, Terminate
  PROVE  Conversation!Next
  <1>1. \A c \in Conn : CompleteRequests(c)' = CompleteRequests(c)
    BY DEF Terminate, peers, CompleteRequests
  <1>2. Conversation!End
    BY <1>1 DEF Terminate, peers, Conversation!End
  <1>. QED
    BY <1>2 DEF Conversation!Next

LEMMA WriteOutAnswers ==
  ASSUME TInv, OInv, KInv, SInv, NEW w \in work, WriteOut(w)
  PROVE  [Conversation!Next]_(Conversation!vars)
  <1>p. PICK c, A, n : c = w.conn /\ A = Len(answers[c]) /\ n = w.n
    OBVIOUS
  <1>1. /\ w \in Work /\ c \in Conn /\ w.at = "write" /\ Slot(w) /\ InTurn(c)
        /\ Whole(w) /\ Past(c, n) /\ KeptBut(c, 0) /\ w.buf = Echo(w.req, BodyOf(n, w.req))
    BY <1>p DEF WriteOut, SInv, Orderly, Slot, TInv, TypeOK, Work
  <1>2. running /\ UNCHANGED <<running, asked, left, hasty>>
    BY DEF WriteOut
  <1>3. \A d \in Conn : CompleteRequests(d)' = CompleteRequests(d)
    BY <1>2 DEF CompleteRequests
  <1>4. CASE client[c] = "closed"
    <2>1. answers' = answers
      BY <1>p, <1>4 DEF WriteOut
    <2>. QED
      BY <1>2, <1>3, <2>1, Unseen
  <1>5. CASE client[c] # "closed"
    <2>1. answers' = [answers EXCEPT ![c] = Append(@, [to |-> n, body |-> w.buf])]
      BY <1>p, <1>5 DEF WriteOut
    <2>2. /\ n \in 1 .. Made(c) /\ w.req = asked[c][n] /\ Made(c) \in Nat /\ A \in Nat
          /\ \A j \in 1 .. A : answers[c][j].to \in 1 .. Made(c)
      BY <1>p, <1>1, MadeType DEF Whole, InTurn
    <2>3. /\ Len(Questions[c]) = Made(c) /\ Questions[c][n] = w.req
          /\ \A j \in 1 .. A : Questions[c][answers[c][j].to] = asked[c][answers[c][j].to]
      BY <1>1, <2>2, Completed
    <2>4. \A j \in 1 .. A : KeepsAlive(Questions[c][answers[c][j].to])
      <3>1. \A j \in 1 .. A : answers[c][j].to # 0
        BY <2>2
      <3>. QED
        BY <1>p, <1>1, <2>3, <3>1 DEF KeptBut
    <2>5. PICK t : t = Conversation!Turn(c)
      OBVIOUS
    <2>6. t \in Nat /\ t < n /\ (c \notin hasty => n = t + 1)
      <3>1. CASE answers[c] = <<>>
        <4>1. t = 0 /\ A = 0
          BY <1>p, <2>5, <3>1 DEF Conversation!Turn
        <4>2. c \notin hasty => n = A + 1
          BY <1>p, <1>1, NextInTurn DEF SInv
        <4>. QED
          BY <2>2, <4>1, <4>2
      <3>2. CASE answers[c] # <<>>
        <4>1. t = answers[c][A].to
          BY <1>p, <2>5, <3>2 DEF Conversation!Turn
        <4>2. A \in 1 .. A
          <5>1. answers[c] \in Seq([to : Nat, body : Seq(Unit)])
            BY <1>1, MadeType
          <5>2. A # 0
            BY <1>p, <3>2, <5>1
          <5>. QED
            BY <2>2, <5>2
        <4>3. t \in Nat /\ t < n
          BY <1>p, <1>1, <2>2, <4>1, <4>2 DEF Past
        <4>4. c \notin hasty => t = A /\ n = A + 1
          <5>1. c \notin hasty => n = A + 1
            BY <1>p, <1>1, NextInTurn DEF SInv
          <5>. QED
            BY <1>p, <1>1, <4>1, <4>2, <5>1 DEF InTurn
        <4>. QED
          BY <4>3, <4>4
      <3>. QED
        BY <3>1, <3>2
    <2>7. n \in t + 1 .. Len(Questions[c])
      BY <2>2, <2>3, <2>6
    <2>8. answers' = [answers EXCEPT ![c] =
                       Append(@, [to |-> n, body |-> Echo(Questions[c][n], BodyOf(n, Questions[c][n]))])]
      BY <1>1, <2>1, <2>3
    <2>9. Questions' = Questions
      BY <1>3 DEF Questions
    <2>10. Conversation!Answer(c)
      BY <1>p, <1>2, <2>4, <2>5, <2>6, <2>7, <2>8, <2>9, ZenonT(60) DEF Conversation!Answer, Questions
    <2>. QED
      BY <1>1, <2>10 DEF Conversation!Next
  <1>. QED
    BY <1>4, <1>5

LEMMA AskNextUnseen ==
  ASSUME TInv, NEW c \in Conn, AskNext(c)
  PROVE  [Conversation!Next]_(Conversation!vars)
  <1>1. PICK r \in Requests :
          /\ asked' = [asked EXCEPT ![c] = Append(asked[c], r)]
          /\ left' = [left EXCEPT ![c] = 1 + r.body]
    BY DEF AskNext
  <1>2. left[c] = 0 /\ UNCHANGED <<running, answers>> /\ (hasty' = hasty \/ hasty' = hasty \cup {c})
    BY DEF AskNext, server
  <1>3. /\ asked[c] \in Seq(Requests) /\ r.body \in Nat
        /\ asked'[c] = Append(asked[c], r) /\ left'[c] = 1 + r.body
        /\ \A d \in Conn : d # c => asked'[d] = asked[d] /\ left'[d] = left[d]
    BY <1>1, RequestAssumption DEF TInv, TypeOK
  <1>4. CompleteRequests(c)' = CompleteRequests(c)
    <2>1. CompleteRequests(c) = asked[c]
      BY <1>2 DEF CompleteRequests
    <2>p. PICK s : s = asked'[c]
      OBVIOUS
    <2>2. PICK L \in Nat, none \in Nat : L = Len(asked[c]) /\ none = 0
      BY <1>3
    <2>3. /\ s \in Seq(Requests) /\ Len(s) = L + 1 /\ Len(s) - 1 = L
          /\ \A i \in 1 .. L : s[i] = asked[c][i]
      BY <1>3, <2>p, <2>2
    <2>4. CompleteRequests(c)' = SubSeq(s, none + 1, L)
      <3>1. left'[c] # 0
        BY <1>3
      <3>. QED
        BY <2>p, <2>2, <2>3, <3>1 DEF CompleteRequests
    <2>5. /\ SubSeq(s, none + 1, L) \in Seq(Requests) /\ Len(SubSeq(s, none + 1, L)) = L - none
          /\ \A i \in 1 .. L - none : SubSeq(s, none + 1, L)[i] = s[none + i]
      <3>1. L \in none .. Len(s)
        BY <2>2, <2>3
      <3>. QED
        BY <2>2, <2>3, <3>1, Slice
    <2>6. PICK part : part = SubSeq(s, none + 1, L)
      OBVIOUS
    <2>7. part \in Seq(Requests) /\ Len(part) = L /\ \A i \in 1 .. L : part[i] = asked[c][i]
      BY <2>2, <2>3, <2>5, <2>6
    <2>8. part = asked[c]
      <3>1. part = [i \in 1 .. L |-> part[i]]
        BY <2>7
      <3>2. asked[c] = [i \in 1 .. L |-> asked[c][i]]
        BY <1>3, <2>2
      <3>. QED
        BY <2>7, <3>1, <3>2, Zenon
    <2>. QED
      BY <2>1, <2>4, <2>6, <2>8
  <1>5. \A d \in Conn : CompleteRequests(d)' = CompleteRequests(d)
    BY <1>3, <1>4 DEF CompleteRequests
  <1>6. CASE hasty' = hasty
    BY <1>2, <1>5, <1>6, Unseen
  <1>7. CASE hasty' = hasty \cup {c}
    <2>1. Conversation!Hurry(c)
      BY <1>2, <1>5, <1>7 DEF Conversation!Hurry
    <2>. QED
      BY <2>1 DEF Conversation!Next
  <1>. QED
    BY <1>2, <1>6, <1>7

LEMMA SendRestAsks ==
  ASSUME TInv, NEW c \in Conn, SendRest(c)
  PROVE  [Conversation!Next]_(Conversation!vars)
  <1>1. /\ left[c] > 0 /\ left' = [left EXCEPT ![c] = left[c] - 1]
        /\ UNCHANGED <<running, asked, answers, hasty>>
    BY DEF SendRest, server
  <1>2. /\ asked[c] \in Seq(Requests) /\ left[c] \in Nat /\ Len(asked[c]) \in 1 .. Len(asked[c])
        /\ left'[c] = left[c] - 1 /\ \A d \in Conn : d # c => left'[d] = left[d]
    BY <1>1 DEF TInv, TypeOK, LeftBegun
  <1>3. \A d \in Conn : d # c => CompleteRequests(d)' = CompleteRequests(d)
    BY <1>1, <1>2 DEF CompleteRequests
  <1>4. CASE left'[c] # 0
    <2>1. CompleteRequests(c)' = CompleteRequests(c)
      BY <1>1, <1>2, <1>4 DEF CompleteRequests
    <2>. QED
      BY <1>1, <1>3, <2>1, Unseen
  <1>5. CASE left'[c] = 0
    <2>1. PICK L, q : L = Len(asked[c]) /\ q = asked[c][L]
      OBVIOUS
    <2>2. q \in Requests
      BY <1>2, <2>1, ElementOfSeq
    <2>3. CompleteRequests(c)' = Append(CompleteRequests(c), q)
      <3>1. CompleteRequests(c)' = asked[c]
        BY <1>1, <1>5 DEF CompleteRequests
      <3>2. CompleteRequests(c) = SubSeq(asked[c], 1, L - 1)
        BY <1>1, <2>1 DEF CompleteRequests
      <3>3. NextTaken(asked[c], L)
        BY <1>2, <2>1, TakeOneMore
      <3>4. SubSeq(asked[c], 1, L) = asked[c]
        BY <1>2, <2>1
      <3>. QED
        BY <2>1, <3>1, <3>2, <3>3, <3>4 DEF NextTaken
    <2>4. Questions' = [Questions EXCEPT ![c] = Append(@, q)]
      BY <1>3, <2>3 DEF Questions
    <2>5. Conversation!Ask(c)
      BY <1>1, <2>2, <2>4 DEF Conversation!Ask, Questions
    <2>. QED
      BY <2>5 DEF Conversation!Next
  <1>. QED
    BY <1>4, <1>5

LEMMA StepConverses ==
  TInv /\ OInv /\ KInv /\ SInv /\ [Next]_vars => [Conversation!Next]_(Conversation!vars)
  <1>. SUFFICES ASSUME TInv, OInv, KInv, SInv, [Next]_vars
                PROVE  [Conversation!Next]_(Conversation!vars)
    OBVIOUS
  <1>1. ASSUME UNCHANGED <<running, asked, left, answers, hasty>>
        PROVE  [Conversation!Next]_(Conversation!vars)
    <2>1. \A c \in Conn : CompleteRequests(c)' = CompleteRequests(c)
      BY <1>1 DEF CompleteRequests
    <2>. QED
      BY <1>1, <2>1, Unseen
  <1>2. CASE UNCHANGED vars
    BY <1>1, <1>2 DEF vars, server, peers
  <1>3. ASSUME NEW c \in Conn, Accept(c) \/ AcceptFails(c) \/ Connect(c) \/ Close(c)
        PROVE  [Conversation!Next]_(Conversation!vars)
    BY <1>1, <1>3 DEF Accept, AcceptFails, Connect, Close, server
  <1>4. ASSUME NEW w \in work, Handler(w)
        PROVE  [Conversation!Next]_(Conversation!vars)
    <2>1. CASE HandshakeDone(w) \/ Fails(w) \/ (ReadHeader(w) /\ ~ Terminate) \/ ReadBody(w) \/ BodyDone(w)
      <3>1. CASE ReadHeader(w) /\ ~ Terminate
        <4>1. \E k \in 1 .. Available(w.conn) : Take(w, k)
          BY <3>1, HeaderRead
        <4>. QED
          BY <1>1, <4>1 DEF Take
      <3>. QED
        BY <1>1, <2>1, <3>1, ZenonT(60) DEF HandshakeDone, Fails, ReadBody, Take, BodyDone, peers
    <2>2. CASE running /\ Terminate
      BY <2>2, TerminateEnds
    <2>3. CASE (LookUp(w) \/ Call(w) \/ Written(w)) /\ ~ Terminate
      BY <1>1, <2>3 DEF LookUp, Call, Written, peers
    <2>4. running
      BY <1>4, ZenonT(60) DEF Handler, HandshakeDone, Fails, ReadHeader, ReadBody, BodyDone, LookUp, Call,
             WriteOut, Written, Runs
    <2>. QED
      BY <1>4, <2>1, <2>2, <2>3, <2>4, WriteOutAnswers DEF Handler
  <1>. QED
    BY <1>2, <1>3, <1>4, AskNextUnseen, SendRestAsks DEF Next, Serve

(* As long as no client sends more over its connection than a size_t can   *)
(* count, requests are answered in turn, each at most once and with what   *)
(* belongs to it, however they are read in pieces and whether or not their *)
(* clients wait (server_base.h:159-199).                                   *)
THEOREM ServerConverses == Spec /\ []Short => RefinesConversation
  <1>1. Init => OInv /\ KInv /\ SInv
    <2>1. Init => KInv
      BY NoUnits DEF Init, KInv, Turn, Fresh, Idle
    <2>2. Init => SInv
      BY NoUnits DEF Init, SInv, Orderly, Streamed, InTurn
    <2>. QED
      BY <2>1, <2>2 DEF Init, OInv, OneOperation, AwayIsNowhere
  <1>2. Init => Conversation!Init
    <2>. SUFFICES ASSUME Init PROVE Conversation!Init
      OBVIOUS
    <2>1. \A c \in Conn : CompleteRequests(c) = <<>>
      BY DEF Init, CompleteRequests
    <2>. QED
      BY <2>1 DEF Init, Conversation!Init
  <1>. QED
    BY <1>1, <1>2, TInvInit, TInvNext, OInvNext, KInvNext, SInvNext, StepConverses,
       PTL DEF Spec, RefinesConversation, Conversation!Spec
=============================================================================
