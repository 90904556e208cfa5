--------------------------- MODULE ContactsProofs ---------------------------
(***************************************************************************)
(* Proofs about Contacts, for any lines a user types and any number of     *)
(* contacts: what is read back from the file after a save, after one that  *)
(* was cut short, and what a deletion leaves.                              *)
(***************************************************************************)
EXTENDS Contacts, SequenceLemmas

USE BlankAssumption

-----------------------------------------------------------------------------
(* The lines of the file.                                                  *)

(* Two lines for each contact, its name and its number.                    *)
Laid(lines, list, k) ==
  /\ Len(lines) = 2 * k
  /\ \A i \in 1 .. k : lines[2 * i - 1] = list[i].name /\ lines[2 * i] = list[i].number
LEMMA LinesLaid ==
  ASSUME NEW list \in Seq(Contact)
  PROVE  LinesOf(list) \in Seq(Line) /\ Laid(LinesOf(list), list, Len(list))
  <1>. DEFINE L == Len(list)
              pairs == [i \in 1 .. L |-> <<list[i].name, list[i].number>>]
  <1>1. L \in Nat /\ \A i \in 1 .. L : list[i].name \in Line /\ list[i].number \in Line
    <2>1. L \in Nat /\ \A i \in 1 .. L : list[i] \in Contact
      BY ElementOfSeq
    <2>. QED
      BY <2>1 DEF Contact
  <1>2. /\ pairs \in Seq(Seq(Line)) /\ Len(pairs) = L
        /\ \A i \in 1 .. L : /\ pairs[i] \in Seq(Line) /\ Len(pairs[i]) = 2
                             /\ pairs[i][1] = list[i].name /\ pairs[i][2] = list[i].number
    <2>1. \A i \in 1 .. L : <<list[i].name, list[i].number>> \in Seq(Line)
      BY <1>1
    <2>. QED
      BY <1>1, <2>1
  <1>3. LinesOf(list) = FlattenSeq(pairs)
    BY DEF LinesOf
  <1>. HIDE DEF pairs, L
  <1>4. PICK f \in [0 .. L -> Seq(Line)] :
          /\ FlattenSeq(pairs) = f[L] /\ f[0] = <<>>
          /\ \A i \in 1 .. L : f[i] = f[i - 1] \o pairs[i]
    <2>1. FlattensBy(Line, pairs)
      BY <1>2, FlattenSteps
    <2>. QED
      BY <1>2, <2>1 DEF FlattensBy
  <1>5. Laid(f[0], list, 0)
    BY <1>4 DEF Laid
  <1>6. ASSUME NEW k \in 1 .. L, Laid(f[k - 1], list, k - 1) PROVE Laid(f[k], list, k)
    <2>. DEFINE s == f[k - 1]
                t == pairs[k]
                r == f[k]
    <2>1. /\ s \in Seq(Line) /\ t \in Seq(Line) /\ r = s \o t /\ k \in Nat
          /\ Len(s) = 2 * (k - 1) /\ Len(t) = 2
          /\ t[1] = list[k].name /\ t[2] = list[k].number
          /\ \A i \in 1 .. k - 1 : s[2 * i - 1] = list[i].name /\ s[2 * i] = list[i].number
      <3>0. k \in Nat /\ k - 1 \in 0 .. L
        BY <1>1
      <3>1. f[k] = f[k - 1] \o pairs[k]
        BY <1>4
      <3>2. s \in Seq(Line)
        BY <1>4, <3>0
      <3>. HIDE DEF L
      <3>. QED
        BY <1>2, <1>6, <3>0, <3>1, <3>2 DEF Laid
    <2>. HIDE DEF s, t, r
    <2>a. /\ Len(r) = Len(s) + Len(t)
          /\ \A i \in 1 .. Len(s) + Len(t) : r[i] = IF i <= Len(s) THEN s[i] ELSE t[i - Len(s)]
      BY <2>1, ConcatProperties, Zenon
    <2>b. Len(s) + Len(t) = 2 * k
      BY <2>1
    <2>2. /\ Len(r) = 2 * k
          /\ \A i \in 1 .. 2 * k : r[i] = IF i <= Len(s) THEN s[i] ELSE t[i - Len(s)]
      BY <2>a, <2>b, Zenon
    <2>3. ASSUME NEW i \in 1 .. k
          PROVE  r[2 * i - 1] = list[i].name /\ r[2 * i] = list[i].number
      <3>1. CASE i = k
        <4>1. r[2 * k - 1] = t[1] /\ r[2 * k] = t[2]
          BY <2>1, <2>2
        <4>. QED
          BY <2>1, <3>1, <4>1
      <3>2. CASE i # k
        <4>1. /\ 2 * i - 1 \in 1 .. 2 * k /\ 2 * i \in 1 .. 2 * k
              /\ 2 * i - 1 <= Len(s) /\ 2 * i <= Len(s) /\ i \in 1 .. k - 1
          BY <2>1, <3>2
        <4>2. r[2 * i - 1] = s[2 * i - 1] /\ r[2 * i] = s[2 * i]
          BY <2>2, <4>1
        <4>. QED
          BY <2>1, <4>1, <4>2
      <3>. QED
        BY <3>1, <3>2
    <2>. QED
      BY <2>2, <2>3 DEF Laid, r
  <1>7. Laid(f[L], list, L)
    <2>. DEFINE P == {k \in 0 .. L : Laid(f[k], list, k)}
    <2>1. 0 \in P
      BY <1>1, <1>5
    <2>2. ASSUME NEW k \in 1 .. L, k - 1 \in P PROVE k \in P
      <3>1. Laid(f[k - 1], list, k - 1)
        BY <2>2
      <3>. QED
        BY <1>1, <1>6, <3>1
    <2>. HIDE DEF P
    <2>3. \A k \in 0 .. L : k \in P
      BY <1>1, <2>1, <2>2, Induction
    <2>. QED
      BY <1>1, <2>3 DEF P
  <1>8. f[L] \in Seq(Line)
    BY <1>1, <1>4
  <1>. QED
    BY <1>3, <1>4, <1>7, <1>8 DEF L

-----------------------------------------------------------------------------
(* Reading them.                                                           *)

Reader == [wants : {"name", "number"}, name : Line, list : Seq(Contact)]
Nothing == [wants |-> "name", name |-> Blank, list |-> <<>>]

(* getline() by getline().                                                 *)
LEMMA ReadSteps ==
  ASSUME NEW lines \in Seq(Line)
  PROVE  \E f \in [0 .. Len(lines) -> Reader] :
           /\ Read(lines) = f[Len(lines)] /\ f[0] = Nothing
           /\ \A i \in 1 .. Len(lines) : f[i] = ReadLine(f[i - 1], lines[i])
  <1>. DEFINE L == Len(lines)
              step == [p \in (1 .. L) \X Reader |-> ReadLine(p[2], lines[p[1]])]
              Def(f) == [i \in 0 .. L |-> IF i = 0 THEN Nothing ELSE ReadLine(f[i - 1], lines[i])]
              after == CHOOSE f : f = Def(f)
  <1>1. L \in Nat /\ Nothing \in Reader /\ \A i \in 1 .. L : lines[i] \in Line
    BY DEF Nothing, Reader
  <1>2. Read(lines) = after[L]
    BY DEF Read, Nothing
  <1>3. \A i \in 1 .. L, r \in Reader : ReadLine(r, lines[i]) \in Reader
    <2>. SUFFICES ASSUME NEW r \in Reader, NEW line \in Line PROVE ReadLine(r, line) \in Reader
      BY <1>1
    <2>1. [name |-> r.name, number |-> line] \in Contact
      BY DEF Reader, Contact
    <2>2. Append(r.list, [name |-> r.name, number |-> line]) \in Seq(Contact)
      BY <2>1 DEF Reader
    <2>. QED
      BY <2>2 DEF Reader, ReadLine, TakeLine
  <1>. HIDE DEF L
  <1>4. step \in [(1 .. L) \X Reader -> Reader]
    BY <1>3
  <1>5. \A i \in 1 .. L, r \in Reader : step[<<i, r>>] = ReadLine(r, lines[i])
    OBVIOUS
  <1>. HIDE DEF step
  <1>6. PICK f \in [0 .. L -> Reader] :
          f[0] = Nothing /\ \A i \in 1 .. L : f[i] = step[<<i, f[i - 1]>>]
    <2>1. CanRun(Reader, Nothing, L, step)
      BY <1>1, <1>4, Recursion
    <2>. QED
      BY <2>1 DEF CanRun
  <1>7. \A i \in 1 .. L : f[i] = ReadLine(f[i - 1], lines[i])
    <2>1. \A i \in 1 .. L : f[i - 1] \in Reader
      BY <1>1
    <2>. QED
      BY <1>5, <1>6, <2>1
  <1>8. f = Def(f)
    BY <1>1, <1>6, <1>7
  <1>9. after = Def(after)
    <2>. HIDE DEF Def
    <2>. QED
      BY <1>8
  <1>. HIDE DEF after
  <1>10. /\ after[0] = Nothing /\ DOMAIN after = 0 .. L /\ after = [i \in 0 .. L |-> after[i]]
         /\ \A i \in 1 .. L : after[i] = ReadLine(after[i - 1], lines[i])
    BY <1>1, <1>9
  <1>11. \A i \in 0 .. L : after[i] \in Reader
    <2>1. \A i \in 1 .. L : after[i - 1] \in Reader => after[i] \in Reader
      BY <1>3, <1>10
    <2>. QED
      BY <1>1, <1>10, <2>1, RunType
  <1>12. after \in [0 .. L -> Reader]
    BY <1>10, <1>11
  <1>. QED
    BY <1>2, <1>10, <1>12 DEF L

(* What has been read when h contacts have been, if no name is blank.      *)
At(list, h) == [wants |-> "name", name |-> Blank, list |-> SubSeq(list, 1, h)]

(* Reading the first lines of a list whose names are not blank gives its   *)
(* first contacts, and one without its number if the next line was a name. *)
ReadSoFar(lines, list) ==
  \E h \in 0 .. Len(list) :
    \/ Len(lines) = 2 * h /\ LoadContacts(lines) = SubSeq(list, 1, h)
    \/ /\ Len(lines) = 2 * h + 1 /\ h < Len(list)
       /\ LoadContacts(lines) = Append(SubSeq(list, 1, h), [list[h + 1] EXCEPT !.number = Blank])
LEMMA LoadFirst ==
  ASSUME NEW list \in Seq(Contact), Named(list),
         NEW lines \in Seq(Line), NEW all, Laid(all, list, Len(list)),
         Len(lines) <= 2 * Len(list), \A i \in 1 .. Len(lines) : lines[i] = all[i]
  PROVE  ReadSoFar(lines, list)
  <1>. DEFINE L == Len(list)
              K == Len(lines)
  <1>1. L \in Nat /\ K \in Nat /\ K <= 2 * L
    OBVIOUS
  <1>2. \A i \in 1 .. L : /\ list[i] \in Contact /\ list[i].name # Blank
                          /\ list[i] = [name |-> list[i].name, number |-> list[i].number]
                          /\ all[2 * i - 1] = list[i].name /\ all[2 * i] = list[i].number
    <2>1. \A i \in 1 .. L : list[i] \in Contact
      BY ElementOfSeq
    <2>. QED
      BY <2>1 DEF Contact, Named, Laid
  <1>3. PICK f \in [0 .. K -> Reader] :
          /\ Read(lines) = f[K] /\ f[0] = Nothing
          /\ \A i \in 1 .. K : f[i] = ReadLine(f[i - 1], all[i])
    BY ReadSteps
  <1>4. \A h \in 0 .. L : SubSeq(list, 1, h) \in Seq(Contact)
    <2>1. \A h \in 0 .. L : \A i \in 1 .. h : list[i] \in Contact
      BY <1>2
    <2>. QED
      BY <1>1, <2>1, SubSeqProperties
  <1>. HIDE DEF L, K
  <1>5. ASSUME NEW h \in 0 .. L, h < L, 2 * h + 1 <= K, f[2 * h] = At(list, h)
        PROVE  f[2 * h + 1] = [wants |-> "number", name |-> list[h + 1].name,
                               list |-> SubSeq(list, 1, h)]
    <2>1. 2 * h + 1 \in 1 .. K /\ 2 * h + 1 - 1 = 2 * h /\ h + 1 \in 1 .. L
          /\ 2 * (h + 1) - 1 = 2 * h + 1
      BY <1>1, <1>5
    <2>2. f[2 * h + 1] = ReadLine(At(list, h), list[h + 1].name)
      <3>1. all[2 * h + 1] = list[h + 1].name
        BY <1>2, <2>1
      <3>. QED
        BY <1>3, <1>5, <2>1, <3>1
    <2>3. list[h + 1].name # Blank
      BY <1>2, <2>1
    <2>. QED
      BY <2>2, <2>3 DEF ReadLine, TakeLine, At
  <1>6. ASSUME NEW h \in 0 .. L, h < L, 2 * h + 2 <= K, f[2 * h] = At(list, h)
        PROVE  f[2 * (h + 1)] = At(list, h + 1)
    <2>1. 2 * h + 2 \in 1 .. K /\ 2 * h + 2 - 1 = 2 * h + 1 /\ h + 1 \in 1 .. L
          /\ 2 * (h + 1) = 2 * h + 2 /\ h + 1 - 1 = h /\ 2 * h + 1 <= K
      BY <1>1, <1>6
    <2>2. f[2 * h + 1] = [wants |-> "number", name |-> list[h + 1].name,
                          list |-> SubSeq(list, 1, h)]
      BY <1>5, <1>6, <2>1
    <2>3. f[2 * h + 2] = ReadLine(f[2 * h + 1], list[h + 1].number)
      <3>1. all[2 * h + 2] = list[h + 1].number
        BY <1>2, <2>1
      <3>. QED
        BY <1>3, <2>1, <3>1, SMTT(30)
    <2>4. f[2 * h + 2] = [wants |-> "name", name |-> Blank,
                          list |-> Append(SubSeq(list, 1, h), list[h + 1])]
      <3>1. list[h + 1] = [name |-> list[h + 1].name, number |-> list[h + 1].number]
        BY <1>2, <2>1
      <3>2. \A n, l, x : ReadLine([wants |-> "number", name |-> n, list |-> l], x) =
                           [wants |-> "name", name |-> Blank,
                            list |-> Append(l, [name |-> n, number |-> x])]
        BY DEF ReadLine, TakeLine
      <3>3. PICK n, x : /\ n = list[h + 1].name /\ x = list[h + 1].number
                        /\ list[h + 1] = [name |-> n, number |-> x]
        BY <3>1
      <3>4. f[2 * h + 2] = ReadLine([wants |-> "number", name |-> n, list |-> SubSeq(list, 1, h)], x)
        BY <2>2, <2>3, <3>3
      <3>5. f[2 * h + 2] = [wants |-> "name", name |-> Blank,
                            list |-> Append(SubSeq(list, 1, h), [name |-> n, number |-> x])]
        BY <3>2, <3>4, Zenon
      <3>6. list[h + 1] = [name |-> n, number |-> x]
        BY <3>3
      <3>. QED
        BY <3>5, <3>6, Zenon
    <2>5. SubSeq(list, 1, h + 1) = Append(SubSeq(list, 1, h), list[h + 1])
      <3>1. h + 1 \in 1 .. Len(list) /\ list \in Seq(Contact)
        BY <2>1 DEF L
      <3>2. NextTaken(list, h + 1)
        BY <3>1, TakeOneMore
      <3>3. (h + 1) - 1 = h
        BY <2>1
      <3>4. SubSeq(list, 1, h + 1) = Append(SubSeq(list, 1, (h + 1) - 1), list[h + 1])
        BY <3>2, Zenon DEF NextTaken
      <3>. QED
        BY <3>3, <3>4, Zenon
    <2>. QED
      BY <2>1, <2>4, <2>5 DEF At
  <1>7. \A h \in 0 .. L : 2 * h <= K => f[2 * h] = At(list, h)
    <2>. DEFINE P == {h \in 0 .. L : 2 * h <= K => f[2 * h] = At(list, h)}
    <2>1. 0 \in P
      <3>1. SubSeq(list, 1, 0) = <<>>
        BY SubSeqEmpty
      <3>2. f[0] = At(list, 0)
        BY <1>3, <3>1 DEF Nothing, At
      <3>3. 0 \in 0 .. L /\ 2 * 0 = 0
        BY <1>1
      <3>. QED
        BY <3>2, <3>3
    <2>2. ASSUME NEW h \in 1 .. L, h - 1 \in P PROVE h \in P
      <3>. SUFFICES ASSUME 2 * h <= K PROVE f[2 * h] = At(list, h)
        BY <1>1
      <3>1. PICK g \in 0 .. L : g = h - 1 /\ g + 1 = h /\ g < L /\ 2 * g <= K /\ 2 * g + 2 <= K
        BY <1>1
      <3>2. f[2 * g] = At(list, g)
        BY <2>2, <3>1
      <3>3. f[2 * (g + 1)] = At(list, g + 1)
        BY <1>6, <3>1, <3>2
      <3>. QED
        BY <3>1, <3>3
    <2>. HIDE DEF P
    <2>3. \A h \in 0 .. L : h \in P
      BY <1>1, <2>1, <2>2, Induction
    <2>. QED
      BY <2>3 DEF P
  <1>8. PICK h \in 0 .. L : K = 2 * h \/ (K = 2 * h + 1 /\ h < L)
    BY <1>1
  <1>9. CASE K = 2 * h
    <2>1. f[K] = At(list, h)
      BY <1>1, <1>7, <1>9
    <2>2. LoadContacts(lines) = SubSeq(list, 1, h)
      BY <1>3, <2>1 DEF LoadContacts, At
    <2>. QED
      BY <1>9, <2>2 DEF ReadSoFar, L, K
  <1>10. CASE K = 2 * h + 1 /\ h < L
    <2>1. f[2 * h] = At(list, h)
      BY <1>1, <1>7, <1>10
    <2>2. f[K] = [wants |-> "number", name |-> list[h + 1].name, list |-> SubSeq(list, 1, h)]
      <3>1. h < L /\ 2 * h + 1 <= K
        BY <1>1, <1>10
      <3>. QED
        BY <1>5, <1>10, <2>1, <3>1, Zenon
    <2>3. LoadContacts(lines) = Append(SubSeq(list, 1, h), [name |-> list[h + 1].name, number |-> Blank])
      BY <1>3, <2>2 DEF LoadContacts
    <2>4. [list[h + 1] EXCEPT !.number = Blank] = [name |-> list[h + 1].name, number |-> Blank]
      <3>1. h + 1 \in 1 .. L
        BY <1>1, <1>10
      <3>2. PICK c \in Contact : c = list[h + 1]
        BY <1>2, <3>1
      <3>. QED
        BY <3>2 DEF Contact
    <2>. QED
      BY <1>10, <2>3, <2>4 DEF ReadSoFar, L, K
  <1>. QED
    BY <1>8, <1>9, <1>10

(* All its lines give all of it.                                           *)
LEMMA LoadAll ==
  ASSUME NEW list \in Seq(Contact), Named(list)
  PROVE  LoadContacts(LinesOf(list)) = list
  <1>1. /\ LinesOf(list) \in Seq(Line) /\ Laid(LinesOf(list), list, Len(list))
        /\ Len(LinesOf(list)) = 2 * Len(list) /\ Len(list) \in Nat
    BY LinesLaid DEF Laid
  <1>2. ReadSoFar(LinesOf(list), list)
    BY <1>1, LoadFirst
  <1>3. PICK h \in 0 .. Len(list) :
          \/ Len(LinesOf(list)) = 2 * h /\ LoadContacts(LinesOf(list)) = SubSeq(list, 1, h)
          \/ Len(LinesOf(list)) = 2 * h + 1
    BY <1>2 DEF ReadSoFar
  <1>4. h = Len(list) /\ LoadContacts(LinesOf(list)) = SubSeq(list, 1, h)
    BY <1>1, <1>3
  <1>. QED
    BY <1>4, SubSeqFull

(* Whatever the lines are, no contact that is read has a blank name.       *)
LEMMA LoadNamed ==
  ASSUME NEW lines \in Seq(Line)
  PROVE  LoadContacts(lines) \in Seq(Contact) /\ Named(LoadContacts(lines))
  <1>. DEFINE K == Len(lines)
              T == {r \in Reader : Named(r.list) /\ (r.wants = "number" => r.name # Blank)}
  <1>0. K \in Nat
    OBVIOUS
  <1>1. PICK f \in [0 .. K -> Reader] :
          /\ Read(lines) = f[K] /\ f[0] = Nothing
          /\ \A i \in 1 .. K : f[i] = ReadLine(f[i - 1], lines[i])
    BY ReadSteps
  <1>2. ASSUME NEW list \in Seq(Contact), Named(list), NEW c \in Contact, c.name # Blank
        PROVE  Append(list, c) \in Seq(Contact) /\ Named(Append(list, c))
    <2>1. /\ Append(list, c) \in Seq(Contact) /\ Len(Append(list, c)) = Len(list) + 1
          /\ Append(list, c)[Len(list) + 1] = c /\ Len(list) \in Nat
          /\ \A i \in 1 .. Len(list) : Append(list, c)[i] = list[i]
      OBVIOUS
    <2>. QED
      BY <1>2, <2>1 DEF Named
  <1>3. f[0] \in T
    BY <1>1 DEF Nothing, Reader, Named
  <1>4. ASSUME NEW i \in 1 .. K, f[i - 1] \in T PROVE f[i] \in T
    <2>. DEFINE r == f[i - 1]
    <2>1. r \in Reader /\ Named(r.list) /\ (r.wants = "number" => r.name # Blank)
          /\ lines[i] \in Line /\ f[i] = ReadLine(r, lines[i])
          /\ r.list \in Seq(Contact) /\ r.name \in Line /\ r.wants \in {"name", "number"}
      BY <1>1, <1>4 DEF Reader
    <2>. HIDE DEF r
    <2>2. CASE r.wants = "name" /\ lines[i] = Blank
      BY <2>1, <2>2 DEF ReadLine
    <2>3. CASE r.wants = "name" /\ lines[i] # Blank
      BY <2>1, <2>3 DEF ReadLine, TakeLine, Reader
    <2>4. CASE r.wants = "number"
      <3>. DEFINE c == [name |-> r.name, number |-> lines[i]]
      <3>1. c \in Contact /\ c.name # Blank
        BY <2>1, <2>4 DEF Contact
      <3>2. f[i] = [wants |-> "name", name |-> Blank, list |-> Append(r.list, c)]
        BY <2>1, <2>4 DEF ReadLine, TakeLine
      <3>. HIDE DEF c
      <3>3. Append(r.list, c) \in Seq(Contact) /\ Named(Append(r.list, c))
        BY <1>2, <2>1, <3>1
      <3>. QED
        BY <3>2, <3>3 DEF Reader
    <2>. QED
      BY <2>1, <2>2, <2>3, <2>4
  <1>. HIDE DEF T, K
  <1>5. f[K] \in T
    <2>1. \A i \in 0 .. K : f[i] \in T
      BY <1>0, <1>3, <1>4, RunType
    <2>. QED
      BY <1>0, <2>1
  <1>6. PICK r \in Reader : /\ r = Read(lines) /\ Named(r.list)
                            /\ r.wants = "number" => r.name # Blank
    BY <1>1, <1>5 DEF T
  <1>7. CASE r.wants = "name"
    BY <1>6, <1>7 DEF LoadContacts, Reader
  <1>8. CASE r.wants = "number"
    <2>. DEFINE c == [name |-> r.name, number |-> Blank]
    <2>1. c \in Contact /\ c.name # Blank /\ r.list \in Seq(Contact)
      BY <1>6, <1>8 DEF Contact, Reader
    <2>2. LoadContacts(lines) = Append(r.list, c)
      BY <1>6, <1>8 DEF LoadContacts
    <2>. HIDE DEF c
    <2>. QED
      BY <1>2, <1>6, <2>1, <2>2
  <1>. QED
    BY <1>7, <1>8 DEF Reader

-----------------------------------------------------------------------------
(* Deleting.                                                               *)

(* The contacts of another name, one by one.                               *)
OthersBy(list, name, f) ==
  /\ f[0] = <<>>
  /\ \A i \in 1 .. Len(list) :
       f[i] = IF list[i].name # name THEN Append(f[i - 1], list[i]) ELSE f[i - 1]
LEMMA OthersSteps ==
  ASSUME NEW list \in Seq(Contact), NEW name
  PROVE  \E f \in [0 .. Len(list) -> Seq(Contact)] :
           Others(list, name) = f[Len(list)] /\ OthersBy(list, name, f)
  <1>. DEFINE L == Len(list)
              Keep(i, s) == IF list[i].name # name THEN Append(s, list[i]) ELSE s
              none == <<>>
              step == [p \in (1 .. L) \X Seq(Contact) |-> Keep(p[1], p[2])]
              Def(f) == [i \in 0 .. L |-> IF i = 0 THEN none ELSE Keep(i, f[i - 1])]
              kept == CHOOSE f : f = Def(f)
  <1>1. L \in Nat /\ none \in Seq(Contact) /\ \A i \in 1 .. L : list[i] \in Contact
    BY ElementOfSeq
  <1>2. Others(list, name) = kept[L]
    <2>1. Others(list, name) =
            (CHOOSE f : f = [i \in 0 .. Len(list) |->
                               IF i = 0 THEN <<>>
                               ELSE IF list[i].name # name THEN Append(f[i - 1], list[i])
                               ELSE f[i - 1]])[Len(list)]
      BY DEF Others
    <2>. QED
      BY <2>1
  <1>. HIDE DEF L, none
  <1>3. \A i \in 1 .. L, s \in Seq(Contact) : Keep(i, s) \in Seq(Contact)
    BY <1>1
  <1>. HIDE DEF Keep
  <1>4. step \in [(1 .. L) \X Seq(Contact) -> Seq(Contact)]
    BY <1>3
  <1>5. \A i \in 1 .. L, s \in Seq(Contact) : step[<<i, s>>] = Keep(i, s)
    OBVIOUS
  <1>. HIDE DEF step
  <1>6. PICK f \in [0 .. L -> Seq(Contact)] :
          f[0] = none /\ \A i \in 1 .. L : f[i] = step[<<i, f[i - 1]>>]
    <2>2. CanRun(Seq(Contact), none, L, step)
      BY <1>1, <1>4, Recursion
    <2>. QED
      BY <2>2 DEF CanRun
  <1>7. \A i \in 1 .. L : f[i] = Keep(i, f[i - 1])
    <2>1. \A i \in 1 .. L : f[i - 1] \in Seq(Contact)
      BY <1>1
    <2>. QED
      BY <1>5, <1>6, <2>1
  <1>8. f = Def(f)
    BY <1>1, <1>6, <1>7
  <1>9. kept = Def(kept)
    <2>. HIDE DEF Def
    <2>. QED
      BY <1>8
  <1>. HIDE DEF kept
  <1>10. /\ kept[0] = none /\ kept = [i \in 0 .. L |-> kept[i]]
         /\ \A i \in 1 .. L : kept[i] = Keep(i, kept[i - 1])
    <2>1. kept = [i \in 0 .. L |-> kept[i]]
      BY <1>9
    <2>2. kept[0] = none
      BY <1>1, <1>9
    <2>3. \A i \in 1 .. L : kept[i] = Keep(i, kept[i - 1])
      BY <1>1, <1>9
    <2>. QED
      BY <2>1, <2>2, <2>3
  <1>11. \A i \in 0 .. L : kept[i] \in Seq(Contact)
    <2>1. \A i \in 1 .. L : kept[i - 1] \in Seq(Contact) => kept[i] \in Seq(Contact)
      BY <1>3, <1>10
    <2>. QED
      BY <1>1, <1>10, <2>1, RunType
  <1>12. kept \in [0 .. L -> Seq(Contact)]
    BY <1>10, <1>11
  <1>13. OthersBy(list, name, kept)
    BY <1>10 DEF OthersBy, Keep, L, none
  <1>. QED
    BY <1>2, <1>12, <1>13 DEF L

(* The loop of deleteContacts(): the contacts it has passed and kept, then *)
(* those it has not seen; v stands between them.                           *)
LEMMA PassKeepsOthers ==
  ASSUME NEW list \in Seq(Contact), NEW name
  PROVE  DeletePass(list, name) = Others(list, name)
  <1>. DEFINE L == Len(list)
              Go(p) == IF p.v > Len(p.list) THEN p
                       ELSE [v |-> NextAfter(p.list, p.v, name), list |-> Erased(p.list, p.v, name)]
              first == [v |-> 1, list |-> list]
              Def(f) == [i \in 0 .. L |-> IF i = 0 THEN first ELSE Go(f[i - 1])]
              pass == CHOOSE f : f = Def(f)
  <1>1. L \in Nat /\ \A i \in 1 .. L : list[i] \in Contact
    BY ElementOfSeq
  <1>2. DeletePass(list, name) = pass[L].list
    BY DEF DeletePass
  <1>3. PICK kept \in [0 .. L -> Seq(Contact)] :
          Others(list, name) = kept[L] /\ OthersBy(list, name, kept)
    BY OthersSteps
  <1>. DEFINE Rest(i) == SubSeq(list, i + 1, L)
              Seen(i) == [v |-> Len(kept[i]) + 1, list |-> kept[i] \o Rest(i)]
              g == [i \in 0 .. L |-> Seen(i)]
  <1>4. Seen(0) = first
    <2>1. kept[0] = <<>> /\ Len(kept[0]) + 1 = 1
      BY <1>3 DEF OthersBy
    <2>2. Rest(0) = list
      BY SubSeqFull
    <2>3. <<>> \o list = list
      BY ConcatEmptySeq
    <2>. QED
      BY <2>1, <2>2, <2>3
  <1>5. ASSUME NEW i \in 1 .. L PROVE Seen(i) = Go(Seen(i - 1))
    <2>. DEFINE k == kept[i - 1]
                x == list[i]
                t == Rest(i)
                q == k \o (<<x>> \o t)
                m == Len(k) + 1
    <2>1. k \in Seq(Contact) /\ x \in Contact /\ t \in Seq(Contact)
      <3>1. i - 1 \in 0 .. L
        BY <1>1
      <3>2. i \in 0 .. Len(list) /\ Len(list) \in i .. Len(list)
        BY <1>1
      <3>3. t \in Seq(Contact)
        BY <3>2, Slice
      <3>. QED
        BY <1>1, <1>3, <3>1, <3>3
    <2>2. Seen(i - 1) = [v |-> m, list |-> q]
      <3>1. SubSeq(list, i, Len(list)) = <<list[i]>> \o SubSeq(list, i + 1, Len(list))
        BY <1>1, SubSeqRecursiveFirst
      <3>2. i - 1 + 1 = i
        BY <1>1
      <3>3. Rest(i - 1) = <<x>> \o t
        BY <3>1, <3>2
      <3>. QED
        BY <3>3
    <2>3. kept[i] = IF x.name # name THEN Append(k, x) ELSE k
      BY <1>3 DEF OthersBy
    <2>. HIDE DEF k, x, t, q, m
    <2>4. /\ q \in Seq(Contact) /\ Len(q) = Len(k) + 1 + Len(t) /\ q[m] = x
          /\ Append(k, x) \o t = q /\ RemoveAt(q, m) = k \o t
      <3>1. InBetween(Contact, k, x, t, k \o (<<x>> \o t))
        BY <2>1, Between
      <3>2. q = k \o (<<x>> \o t) /\ m = Len(k) + 1
        BY DEF q, m
      <3>. QED
        BY <3>1, <3>2 DEF InBetween
    <2>5. /\ ~ (m > Len(q)) /\ m = Len(k) + 1 /\ m + 1 = Len(Append(k, x)) + 1
      <3>1. Len(k) \in Nat /\ Len(t) \in Nat /\ Len(Append(k, x)) = Len(k) + 1
        BY <2>1
      <3>. QED
        BY <2>4, <3>1 DEF m
    <2>6. Go(Seen(i - 1)) = [v |-> NextAfter(q, m, name), list |-> Erased(q, m, name)]
      BY <2>2, <2>5
    <2>7. Seen(i) = [v |-> Len(kept[i]) + 1, list |-> kept[i] \o t]
      BY DEF t
    <2>. HIDE DEF Seen, Go
    <2>8. CASE x.name # name
      BY <2>3, <2>4, <2>5, <2>6, <2>7, <2>8 DEF NextAfter, Erased
    <2>9. CASE x.name = name
      BY <2>3, <2>4, <2>5, <2>6, <2>7, <2>9 DEF NextAfter, Erased
    <2>. QED
      BY <2>8, <2>9
  <1>6. Seen(L).list = kept[L]
    <2>1. Rest(L) = <<>>
      BY <1>1, SubSeqEmpty
    <2>2. kept[L] \in Seq(Contact)
      BY <1>1
    <2>. QED
      BY <2>1, <2>2, ConcatEmptySeq
  <1>. HIDE DEF L, first, Go, Seen
  <1>7. g = Def(g)
    BY <1>1, <1>4, <1>5
  <1>8. pass = Def(pass)
    <2>. HIDE DEF Def, g
    <2>. QED
      BY <1>7
  <1>9. Alike(L, pass, g)
    <2>. HIDE DEF pass
    <2>1. pass[0] = first /\ \A i \in 1 .. L : pass[i] = Go(pass[i - 1])
      BY <1>1, <1>8
    <2>2. g[0] = first /\ \A i \in 1 .. L : g[i] = Go(g[i - 1])
      BY <1>1, <1>4, <1>5
    <2>3. \A i \in 1 .. L : pass[i - 1] = g[i - 1] => pass[i] = g[i]
      BY <2>1, <2>2
    <2>. HIDE DEF g
    <2>. QED
      BY <1>1, <2>1, <2>2, <2>3, SameRun
  <1>10. pass[L] = Seen(L)
    <2>. HIDE DEF pass
    <2>1. L \in 0 .. L
      BY <1>1
    <2>. QED
      BY <1>9, <2>1 DEF Alike
  <1>. HIDE DEF pass
  <1>. QED
    BY <1>2, <1>3, <1>6, <1>10

-----------------------------------------------------------------------------
(* The file and the menu loop.                                             *)

Types ==
  /\ at \in Places /\ draft \in Line
  /\ contacts \in Seq(Contact) /\ last \in Seq(Contact)
  /\ disk \in Seq(Line) /\ writing \in Seq(Line)
  /\ writing # <<>> <=> at = "save"

\* s is how t begins.
Begins(s, t) == Len(s) <= Len(t) /\ \A i \in 1 .. Len(s) : s[i] = t[i]

\* The same, but for the last line of s, of which a write has failed.
BreaksOff(s, t) ==
  /\ Len(s) \in 1 .. Len(t)
  /\ \A i \in 1 .. Len(s) - 1 : s[i] = t[i]
  /\ s[Len(s)] \in Cut[t[Len(s)]]

\* What is in the file is how the lines of the last save begin; with those that
\* are still to be written it is all of them; and when that save is complete,
\* it is too.
Written ==
  /\ Begins(disk, LinesOf(last)) \/ BreaksOff(disk, LinesOf(last))
  /\ at = "save" => disk \o writing = LinesOf(last) /\ ~ complete
  /\ complete => disk = LinesOf(last)

IInv == Types /\ Written

LEMMA Beginning ==
  ASSUME NEW s \in Seq(Line), NEW t \in Seq(Line)
  PROVE  Begins(s, s \o t)
  <1>1. Len(s) \in Nat /\ Len(t) \in Nat
    OBVIOUS
  <1>2. Len(s \o t) = Len(s) + Len(t)
    OBVIOUS
  <1>3. \A i \in 1 .. Len(s) : (s \o t)[i] = s[i]
    OBVIOUS
  <1>. QED
    BY <1>1, <1>2, <1>3 DEF Begins

LEMMA BrokenOff ==
  ASSUME NEW s \in Seq(Line), NEW t \in Seq(Line), t # <<>>, NEW part \in Cut[Head(t)]
  PROVE  Append(s, part) \in Seq(Line) /\ BreaksOff(Append(s, part), s \o t)
  <1>. DEFINE k == Len(s)  m == Len(t)  r == Append(s, part)  all == s \o t
  <1>1. /\ k \in Nat /\ m \in Nat /\ m # 0 /\ Head(t) = t[1] /\ Head(t) \in Line
    OBVIOUS
  <1>2. part \in Line
    BY <1>1, CutAssumption
  <1>3. /\ r \in Seq(Line) /\ Len(r) = k + 1 /\ r[k + 1] = part
        /\ \A i \in 1 .. k : r[i] = s[i]
    BY <1>2
  <1>4. Len(all) = k + m /\ \A i \in 1 .. k : all[i] = s[i]
    OBVIOUS
  <1>5. all[k + 1] = t[1]
    BY <1>1
  <1>. HIDE DEF k, m, r, all
  <1>6. /\ Len(r) \in 1 .. Len(all) /\ Len(r) - 1 = k
        /\ r[Len(r)] = part /\ all[Len(r)] = Head(t)
    BY <1>1, <1>3, <1>4, <1>5
  <1>7. BreaksOff(r, all)
    BY <1>3, <1>4, <1>6 DEF BreaksOff
  <1>. QED
    BY <1>3, <1>7 DEF r, all

LEMMA NoLines == LinesOf(<<>>) = <<>>
  <1>. DEFINE none == <<>>
  <1>1. none \in Seq(Contact) /\ Len(none) = 0
    OBVIOUS
  <1>. HIDE DEF none
  <1>2. LinesOf(none) \in Seq(Line) /\ Len(LinesOf(none)) = 0
    <2>1. LinesOf(none) \in Seq(Line) /\ Laid(LinesOf(none), none, Len(none))
      BY <1>1, LinesLaid
    <2>. QED
      BY <1>1, <2>1 DEF Laid
  <1>. QED
    BY <1>2 DEF none

(* IInv holds from the start on, whatever is typed and wherever a save or  *)
(* the process is cut short.                                               *)
LEMMA Invariance == Spec => []IInv
  <1>1. Init => IInv
    <2>. SUFFICES ASSUME Init PROVE IInv
      OBVIOUS
    <2>1. Types
      BY DEF Init, Types, Places
    <2>2. LinesOf(last) = <<>> /\ disk = <<>> /\ at # "save"
      BY NoLines DEF Init
    <2>3. Begins(disk, LinesOf(last))
      BY <2>2 DEF Begins
    <2>. QED
      BY <2>1, <2>2, <2>3 DEF IInv, Written
  <1>2. IInv /\ [Next]_vars => IInv'
    <2>. SUFFICES ASSUME IInv, [Next]_vars PROVE IInv'
      OBVIOUS
    <2>. USE DEF IInv
    <2>0. /\ LinesOf(last) \in Seq(Line) /\ LinesOf(contacts) \in Seq(Line)
          /\ Types /\ Written
      BY LinesLaid DEF Types
    \* The steps that leave the file alone and save nothing.
    <2>1. ASSUME UNCHANGED file, at # "save", at' # "save", at' \in Places, draft' \in Line,
                 contacts' \in Seq(Contact)
          PROVE  IInv'
      BY <2>0, <2>1 DEF Types, Written, file
    <2>2. CASE Start
      <3>1. contacts' \in Seq(Contact)
        <4>1. LoadContacts(disk) \in Seq(Contact)
          BY <2>0, LoadNamed DEF Types
        <4>. QED
          BY <2>2, <4>1 DEF Start
      <3>. QED
        BY <2>0, <2>1, <2>2, <3>1 DEF Start, Types, Places
    <2>3. ASSUME NEW next \in Options, ChooseOption(next) PROVE IInv'
      <3>1. next \in {"menu", "discard", "delete", "ask", "name"}
        BY DEF Options
      <3>. QED
        BY <2>0, <2>1, <2>3, <3>1 DEF ChooseOption, memory, Types, Places
    <2>4. CASE ClearInput
      BY <2>0, <2>1, <2>4 DEF ClearInput, memory, Types, Places
    <2>5. ASSUME NEW line \in Line, AddName(line) PROVE IInv'
      BY <2>0, <2>1, <2>5 DEF AddName, Getline, Types, Places
    <2>6. ASSUME NEW line \in Line, AddContacts(line) PROVE IInv'
      <3>1. [name |-> draft, number |-> line] \in Contact
        BY <2>0 DEF Types, Contact
      <3>2. contacts' \in Seq(Contact)
        BY <2>0, <2>6, <3>1 DEF AddContacts, Types
      <3>. QED
        BY <2>0, <2>1, <2>6, <3>2 DEF AddContacts, Getline, Types, Places
    <2>7. ASSUME NEW line \in Line, Ask(line) PROVE IInv'
      BY <2>0, <2>1, <2>7 DEF Ask, Getline, memory, Types, Places
    <2>8. ASSUME NEW line \in Line, DeleteContacts(line) PROVE IInv'
      <3>1. contacts' \in Seq(Contact)
        <4>1. PICK f \in [0 .. Len(contacts) -> Seq(Contact)] :
                Others(contacts, line) = f[Len(contacts)]
          BY <2>0, OthersSteps DEF Types
        <4>2. Len(contacts) \in 0 .. Len(contacts)
          BY <2>0 DEF Types
        <4>3. DeletePass(contacts, line) = Others(contacts, line)
          BY <2>0, PassKeepsOthers DEF Types
        <4>. QED
          BY <2>8, <4>1, <4>2, <4>3 DEF DeleteContacts
      <3>. QED
        BY <2>0, <2>1, <2>8, <3>1 DEF DeleteContacts, Getline, Types, Places
    <2>9. CASE SaveOpen
      <3>. DEFINE all == LinesOf(contacts)
      <3>1. last' = contacts /\ contacts' = contacts /\ draft' = draft
            /\ disk' = <<>> /\ writing' = all
        BY <2>9 DEF SaveOpen, Opened, memory
      <3>2. contacts = <<>> <=> all = <<>>
        <4>1. Len(all) = 2 * Len(contacts) /\ Len(contacts) \in Nat
          BY <2>0, LinesLaid DEF Types, Laid
        <4>2. contacts = <<>> <=> Len(contacts) = 0
          BY <2>0 DEF Types
        <4>3. all = <<>> <=> Len(all) = 0
          BY <2>0
        <4>. QED
          BY <4>1, <4>2, <4>3
      <3>3. /\ LinesOf(last)' = all
            /\ at' = IF all = <<>> THEN "menu" ELSE "save"
            /\ complete' <=> all = <<>>
        BY <2>9, <3>1, <3>2 DEF SaveOpen
      <3>4. Types'
        BY <2>0, <3>1, <3>3 DEF Types, Places
      <3>5. <<>> \o all = all /\ Begins(<<>>, all)
        <4>1. <<>> \o all = all
          BY <2>0, ConcatEmptySeq
        <4>2. <<>> \in Seq(Line)
          OBVIOUS
        <4>3. Begins(<<>>, <<>> \o all)
          BY <2>0, <4>2, Beginning
        <4>. QED
          BY <4>1, <4>3
      <3>6. Written'
        <4>. HIDE DEF all
        <4>. QED
          BY <3>1, <3>3, <3>5 DEF Written
      <3>. QED
        BY <3>4, <3>6
    <2>10. CASE SaveLine
      <3>1. /\ writing \in Seq(Line) /\ writing # <<>> /\ disk \in Seq(Line)
            /\ disk \o writing = LinesOf(last)
        BY <2>0, <2>10 DEF SaveLine, Types, Written
      <3>2. /\ disk' = Append(disk, Head(writing)) /\ writing' = Tail(writing)
            /\ LinesOf(last)' = LinesOf(last)
            /\ complete' = (writing' = <<>>) /\ at' = IF complete' THEN "menu" ELSE "save"
            /\ UNCHANGED memory
        BY <2>10 DEF SaveLine
      <3>3. Head(writing) \in Line /\ Tail(writing) \in Seq(Line)
        BY <3>1
      <3>4. disk' \in Seq(Line) /\ writing' \in Seq(Line)
        BY <3>1, <3>2, <3>3
      <3>5. disk' \o writing' = LinesOf(last)
        <4>1. Append(disk, Head(writing)) \o Tail(writing) = disk \o writing
          BY <3>1, MoveOver
        <4>. QED
          BY <3>1, <3>2, <4>1
      <3>6. Begins(disk', LinesOf(last))
        <4>1. PICK s \in Seq(Line), t \in Seq(Line) : s = disk' /\ t = writing'
          BY <3>4
        <4>2. Begins(s, s \o t)
          BY Beginning
        <4>. QED
          BY <3>5, <4>1, <4>2
      <3>7. complete' => disk' = LinesOf(last)
        <4>1. PICK s \in Seq(Line) : s = disk'
          BY <3>4
        <4>2. s \o <<>> = s
          BY ConcatEmptySeq
        <4>. QED
          BY <3>2, <3>5, <4>1, <4>2
      <3>8. Types'
        <4>1. last' = last
          BY <2>10 DEF SaveLine
        <4>. QED
          BY <2>0, <3>2, <3>4, <4>1 DEF Types, memory, Places
      <3>. QED
        BY <3>2, <3>5, <3>6, <3>7, <3>8 DEF Written
    <2>11. CASE SaveFails
      <3>1. /\ at = "save" /\ at' = "menu" /\ writing' = <<>>
            /\ UNCHANGED <<draft, contacts, last, complete>>
            /\ LinesOf(last)' = LinesOf(last)
        BY <2>11 DEF SaveFails, memory
      <3>2. /\ writing \in Seq(Line) /\ writing # <<>> /\ disk \in Seq(Line)
            /\ disk \o writing = LinesOf(last) /\ ~ complete
        BY <2>0, <3>1 DEF Types, Written
      <3>3. /\ disk' \in Seq(Line)
            /\ Begins(disk', LinesOf(last)) \/ BreaksOff(disk', LinesOf(last))
        <4>1. CASE disk' = disk
          BY <2>0, <3>2, <4>1 DEF Written
        <4>2. CASE \E part \in Cut[Head(writing)] : disk' = Append(disk, part)
          <5>1. PICK part \in Cut[Head(writing)] : disk' = Append(disk, part)
            BY <4>2
          <5>. QED
            BY <3>2, <5>1, BrokenOff
        <4>. QED
          BY <2>11, <4>1, <4>2 DEF SaveFails
      <3>4. Types'
        BY <2>0, <3>1, <3>3 DEF Types, Places
      <3>. QED
        BY <3>1, <3>2, <3>3, <3>4 DEF Written
    <2>12. CASE InputEnds
      <3>1. UNCHANGED <<at, draft, contacts, disk, writing, last, complete>>
        BY <2>12 DEF InputEnds, memory, file
      <3>2. LinesOf(last)' = LinesOf(last)
        BY <3>1
      <3>. QED
        BY <2>0, <3>1, <3>2 DEF Types, Written
    <2>13. ASSUME Ends PROVE IInv'
      <3>1. LinesOf(last)' = LinesOf(last)
        BY <2>13 DEF Ends
      <3>2. Types'
        BY <2>0, <2>13 DEF Ends, Types, Places
      <3>3. Written'
        BY <2>0, <2>13, <3>1 DEF Ends, Written
      <3>. QED
        BY <3>2, <3>3
    <2>14. CASE UNCHANGED vars
      <3>1. UNCHANGED <<at, draft, contacts, disk, writing, last, complete>>
        BY <2>14 DEF vars, memory, file
      <3>2. LinesOf(last)' = LinesOf(last)
        BY <3>1
      <3>. QED
        BY <2>0, <3>1, <3>2 DEF Types, Written
    <2>. QED
      BY <2>2, <2>3, <2>4, <2>5, <2>6, <2>7, <2>8, <2>9, <2>10, <2>11, <2>12, <2>13, <2>14
      DEF Next, ExitSystem, Killed
  <1>. QED
    BY <1>1, <1>2, PTL DEF Spec

(* saveContacts() and loadContacts(): a save that wrote all its lines is   *)
(* read back contact for contact, numbers left empty included.             *)
THEOREM SaveIsReadBack == Spec => []ReadsBack
  <1>1. IInv => ReadsBack
    BY LoadAll DEF IInv, Types, Written, ReadsBack
  <1>. QED
    BY <1>1, Invariance, PTL

(* What the first lines of a list are read as, line by line.               *)
ReadTo(read, list, k) ==
  /\ Len(read) <= Len(list) /\ (k = 2 * Len(read) \/ k = 2 * Len(read) - 1)
  /\ \A i \in 1 .. Len(read) :
       read[i] = IF k = 2 * i - 1 THEN [list[i] EXCEPT !.number = Blank] ELSE list[i]
LEMMA ReadIsTo ==
  ASSUME NEW list \in Seq(Contact), NEW lines \in Seq(Line), ReadSoFar(lines, list)
  PROVE  ReadTo(LoadContacts(lines), list, Len(lines))
  <1>. DEFINE read == LoadContacts(lines)
              L == Len(list)
              K == Len(lines)
  <1>1. PICK h \in 0 .. L :
          \/ K = 2 * h /\ read = SubSeq(list, 1, h)
          \/ /\ K = 2 * h + 1 /\ h < L
             /\ read = Append(SubSeq(list, 1, h), [list[h + 1] EXCEPT !.number = Blank])
    BY DEF ReadSoFar
  <1>. DEFINE first == SubSeq(list, 1, h)
  <1>2. /\ first \in Seq(Contact) /\ Len(first) = h /\ L \in Nat /\ K \in Nat
        /\ \A i \in 1 .. h : first[i] = list[i]
    <2>1. \A i \in 1 .. h : list[i] \in Contact
      BY ElementOfSeq
    <2>. QED
      BY <2>1, SubSeqProperties
  <1>. HIDE DEF read, first, L, K
  <1>3. CASE K = 2 * h /\ read = first
    <2>1. /\ Len(read) = h /\ h <= L
          /\ \A i \in 1 .. h : K # 2 * i - 1 /\ read[i] = list[i]
      BY <1>2, <1>3
    <2>. QED
      BY <1>3, <2>1 DEF ReadTo, read, L, K
  <1>4. CASE K = 2 * h + 1 /\ h < L /\ read = Append(first, [list[h + 1] EXCEPT !.number = Blank])
    <2>. DEFINE c == [list[h + 1] EXCEPT !.number = Blank]
    <2>1. c \in Contact
      <3>1. h + 1 \in 1 .. L
        BY <1>2, <1>4
      <3>2. PICK d \in Contact : d = list[h + 1]
        BY <3>1, ElementOfSeq DEF L
      <3>. QED
        BY <3>2 DEF Contact
    <2>. HIDE DEF c
    <2>2. read = Append(first, c)
      BY <1>4 DEF c
    <2>3. /\ Len(read) = h + 1 /\ read[h + 1] = c
          /\ \A i \in 1 .. h : read[i] = list[i]
      BY <1>2, <2>1, <2>2
    <2>4. /\ h + 1 <= L /\ K = 2 * (h + 1) - 1
          /\ \A i \in 1 .. h + 1 : IF i = h + 1 THEN K = 2 * i - 1 ELSE i \in 1 .. h /\ K # 2 * i - 1
      BY <1>2, <1>4
    <2>5. \A i \in 1 .. h + 1 :
            read[i] = IF K = 2 * i - 1 THEN [list[i] EXCEPT !.number = Blank] ELSE list[i]
      BY <2>3, <2>4 DEF c
    <2>. QED
      BY <2>3, <2>4, <2>5 DEF ReadTo, read, L, K
  <1>. QED
    BY <1>1, <1>3, <1>4 DEF first

(* A file that breaks off is how the lines of another list begin, which    *)
(* has the piece for the name or the number that is cut.                   *)
Altered(list, j, k, part) ==
  [list EXCEPT ![j] = IF k = 2 * j - 1 THEN [@ EXCEPT !.name = part]
                      ELSE [@ EXCEPT !.number = part]]
LEMMA ReadBroken ==
  ASSUME NEW list \in Seq(Contact), Named(list), NEW lines \in Seq(Line),
         BreaksOff(lines, LinesOf(list))
  PROVE  \E j \in 1 .. Len(list) : \E part \in Line \ {Blank} :
           /\ \/ Len(lines) = 2 * j - 1 /\ part \in Cut[list[j].name]
              \/ Len(lines) = 2 * j /\ part \in Cut[list[j].number]
           /\ ReadTo(LoadContacts(lines), Altered(list, j, Len(lines), part), Len(lines))
  <1>. DEFINE L == Len(list)
              K == Len(lines)
              all == LinesOf(list)
              part == lines[K]
  <1>1. /\ L \in Nat /\ K \in Nat /\ all \in Seq(Line)
        /\ Laid(all, list, L) /\ Len(all) = 2 * L
    BY LinesLaid DEF Laid
  <1>2. /\ K \in 1 .. Len(all) /\ part \in Cut[all[K]]
        /\ \A i \in 1 .. K - 1 : lines[i] = all[i]
    BY DEF BreaksOff
  <1>3. \A i \in 1 .. L :
          /\ list[i] \in Contact /\ list[i].name # Blank
          /\ all[2 * i - 1] = list[i].name /\ all[2 * i] = list[i].number
    <2>1. \A i \in 1 .. L : list[i] \in Contact
      BY ElementOfSeq
    <2>. QED
      BY <1>1, <2>1 DEF Named, Laid
  <1>4. all[K] \in Line
    BY <1>1, <1>2, ElementOfSeq
  <1>5. part \in Line \ {Blank}
    BY <1>2, <1>4, CutAssumption
  <1>. HIDE DEF L, K, all, part
  <1>6. PICK j \in 1 .. L : K = 2 * j - 1 \/ K = 2 * j
    <2>. DEFINE h == (K + 1) \div 2
    <2>1. K \in 1 .. 2 * L
      BY <1>1, <1>2
    <2>2. h \in 1 .. L /\ (K = 2 * h - 1 \/ K = 2 * h)
      BY <1>1, <2>1
    <2>. HIDE DEF h
    <2>. QED
      BY <2>2
  <1>7. \/ K = 2 * j - 1 /\ part \in Cut[list[j].name]
        \/ K = 2 * j /\ part \in Cut[list[j].number]
    BY <1>2, <1>3, <1>6
  <1>. DEFINE other == Altered(list, j, K, part)
              lot == [all EXCEPT ![K] = part]
              d == IF K = 2 * j - 1 THEN [list[j] EXCEPT !.name = part]
                   ELSE [list[j] EXCEPT !.number = part]
  <1>8. /\ d \in Contact /\ d.name # Blank
        /\ d.name = IF K = 2 * j - 1 THEN part ELSE list[j].name
        /\ d.number = IF K = 2 * j - 1 THEN list[j].number ELSE part
    <2>1. PICK c \in Contact : c = list[j] /\ c.name # Blank
      BY <1>3
    <2>. QED
      BY <1>5, <2>1 DEF Contact
  <1>9. other = [list EXCEPT ![j] = d]
    BY DEF Altered
  <1>. HIDE DEF other, d
  <1>10. /\ other \in Seq(Contact) /\ Len(other) = L
         /\ other[j] = d /\ \A i \in 1 .. L : i # j => other[i] = list[i]
    BY <1>8, <1>9 DEF L
  <1>11. Named(other)
    BY <1>3, <1>8, <1>10 DEF Named
  <1>12. /\ Len(lot) = 2 * L /\ lot[K] = part
         /\ \A i \in 1 .. 2 * L : i # K => lot[i] = all[i]
    BY <1>1, <1>2
  <1>. HIDE DEF lot
  <1>13. Laid(lot, other, L)
    <2>1. ASSUME NEW i \in 1 .. L
          PROVE  lot[2 * i - 1] = other[i].name /\ lot[2 * i] = other[i].number
      <3>1. 2 * i - 1 \in 1 .. 2 * L /\ 2 * i \in 1 .. 2 * L /\ 2 * i - 1 # 2 * i
        BY <1>1
      <3>2. CASE i = j
        BY <1>3, <1>6, <1>8, <1>10, <1>12, <3>1, <3>2
      <3>3. CASE i # j
        <4>1. 2 * i - 1 # K /\ 2 * i # K
          BY <1>6, <3>3
        <4>. QED
          BY <1>3, <1>10, <1>12, <3>1, <3>3, <4>1
      <3>. QED
        BY <3>2, <3>3
    <2>. QED
      BY <1>12, <2>1 DEF Laid
  <1>14. \A i \in 1 .. K : lines[i] = lot[i]
    <2>1. \A i \in 1 .. K : (i = K \/ i \in 1 .. K - 1) /\ i \in 1 .. 2 * L
      BY <1>1, <1>2
    <2>. QED
      BY <1>2, <1>12, <2>1 DEF part
  <1>15. ReadSoFar(lines, other)
    <2>1. K <= 2 * L
      BY <1>1, <1>2
    <2>. QED
      BY <1>10, <1>11, <1>13, <1>14, <2>1, LoadFirst DEF K
  <1>16. ReadTo(LoadContacts(lines), other, K)
    BY <1>10, <1>15, ReadIsTo DEF K
  <1>. QED
    BY <1>5, <1>7, <1>16 DEF other, L, K

(* saveContacts() stopped anywhere, by a signal or a write that fails: the *)
(* file holds the first contacts of that save, the last of them perhaps    *)
(* without its number, or with a piece of it or of its name, and nothing   *)
(* else.                                                                   *)
THEOREM CutShortIsABeginning == Spec => []CutShort
  <1>1. IInv => CutShort
    <2>. SUFFICES ASSUME IInv, Named(last) PROVE CutShort
      BY DEF CutShort
    <2>. DEFINE read == LoadContacts(disk)
                L == Len(last)
                K == Len(disk)
    <2>1. /\ last \in Seq(Contact) /\ disk \in Seq(Line) /\ L \in Nat /\ K \in Nat
          /\ Begins(disk, LinesOf(last)) \/ BreaksOff(disk, LinesOf(last))
      BY DEF IInv, Types, Written
    <2>2. \A i \in 1 .. L : /\ last[i] \in Contact
                            /\ last[i] = [name |-> last[i].name, number |-> last[i].number]
      <3>1. \A i \in 1 .. L : last[i] \in Contact
        BY <2>1, ElementOfSeq
      <3>. QED
        BY <3>1 DEF Contact
    <2>3. read \in Seq(Contact) /\ Len(read) \in Nat
      BY <2>1, LoadNamed
    <2>4. CASE Begins(disk, LinesOf(last))
      <3>1. Laid(LinesOf(last), last, L)
        BY <2>1, LinesLaid
      <3>2. /\ K <= 2 * L
            /\ \A i \in 1 .. K : disk[i] = LinesOf(last)[i]
        BY <2>4, <3>1 DEF Laid, Begins
      <3>3. ReadSoFar(disk, last)
        BY <2>1, <3>1, <3>2, LoadFirst
      <3>4. ReadTo(read, last, K)
        BY <2>1, <3>3, ReadIsTo
      <3>. HIDE DEF read, L, K
      <3>5. ASSUME NEW i \in 1 .. Len(read)
            PROVE  read[i] = last[i] \/ (i = Len(read) /\ read[i] \in Remains(last[i]))
        <4>1. i \in 1 .. L
          BY <2>1, <2>3, <3>4 DEF ReadTo, L
        <4>2. CASE K = 2 * i - 1
          <5>1. i = Len(read)
            BY <2>3, <3>4, <4>2 DEF ReadTo
          <5>2. read[i] = [last[i] EXCEPT !.number = Blank]
            BY <3>4, <4>2 DEF ReadTo
          <5>3. read[i] = [name |-> last[i].name, number |-> Blank]
            BY <2>2, <4>1, <5>2 DEF Contact
          <5>. QED
            BY <5>1, <5>3 DEF Remains
        <4>3. CASE K # 2 * i - 1
          BY <3>4, <4>3 DEF ReadTo
        <4>. QED
          BY <4>2, <4>3
      <3>. QED
        BY <3>4, <3>5 DEF CutShort, ReadTo, read
    <2>5. CASE BreaksOff(disk, LinesOf(last))
      <3>1. PICK j \in 1 .. L, part \in Line \ {Blank} :
              /\ \/ K = 2 * j - 1 /\ part \in Cut[last[j].name]
                 \/ K = 2 * j /\ part \in Cut[last[j].number]
              /\ ReadTo(read, Altered(last, j, K, part), K)
        BY <2>1, <2>5, ReadBroken
      <3>. DEFINE other == Altered(last, j, K, part)
      <3>. HIDE DEF read, K
      <3>2. /\ Len(other) = L /\ \A i \in 1 .. L : i # j => other[i] = last[i]
        BY <2>1 DEF Altered
      <3>3. /\ K = 2 * j - 1 => other[j] = [last[j] EXCEPT !.name = part]
            /\ K # 2 * j - 1 => other[j] = [last[j] EXCEPT !.number = part]
        <4>1. \A e : [last EXCEPT ![j] = e][j] = e
          BY <2>1
        <4>2. other[j] = IF K = 2 * j - 1 THEN [last[j] EXCEPT !.name = part]
                         ELSE [last[j] EXCEPT !.number = part]
          BY <4>1, Zenon DEF Altered
        <4>. HIDE DEF other
        <4>. QED
          BY <4>2
      <3>4. ReadTo(read, other, K)
        BY <3>1
      <3>. HIDE DEF other, L
      <3>5. Len(read) = j /\ j <= L
        <4>1. K = 2 * Len(read) \/ K = 2 * Len(read) - 1
          BY <3>4 DEF ReadTo
        <4>. QED
          BY <2>1, <2>3, <3>1, <4>1
      <3>6. ASSUME NEW i \in 1 .. Len(read)
            PROVE  read[i] = last[i] \/ (i = Len(read) /\ read[i] \in Remains(last[i]))
        <4>1. i \in 1 .. L /\ read[i] = IF K = 2 * i - 1 THEN [other[i] EXCEPT !.number = Blank]
                                        ELSE other[i]
          BY <2>1, <3>4, <3>5 DEF ReadTo
        <4>2. CASE i # j
          <5>1. K # 2 * i - 1
            BY <2>1, <3>1, <3>5, <4>2
          <5>. QED
            BY <3>2, <4>1, <4>2, <5>1
        <4>3. CASE i = j /\ K = 2 * j - 1
          <5>1. read[i] = [name |-> part, number |-> Blank]
            BY <2>2, <3>3, <4>1, <4>3
          <5>2. part \in Cut[last[i].name]
            BY <3>1, <4>3
          <5>. QED
            BY <3>5, <4>3, <5>1, <5>2 DEF Remains
        <4>4. CASE i = j /\ K # 2 * j - 1
          <5>1. read[i] = [name |-> last[i].name, number |-> part]
            BY <2>2, <3>3, <4>1, <4>4
          <5>2. part \in Cut[last[i].number]
            BY <3>1, <4>4
          <5>. QED
            BY <3>5, <4>4, <5>1, <5>2 DEF Remains
        <4>. QED
          BY <4>2, <4>3, <4>4
      <3>7. Len(read) <= L
        BY <3>5
      <3>. QED
        BY <3>6, <3>7 DEF CutShort, read, L
    <2>. QED
      BY <2>1, <2>4, <2>5
  <1>. QED
    BY <1>1, Invariance, PTL

(* loadContacts(), whatever the file holds: what it reads has no blank     *)
(* name, so that saving it and loading it again changes nothing.           *)
THEOREM LoadedIsSettled == Spec => []Settled
  <1>1. IInv => Settled
    <2>. SUFFICES ASSUME IInv PROVE Settled
      OBVIOUS
    <2>1. LoadContacts(disk) \in Seq(Contact) /\ Named(LoadContacts(disk))
      BY LoadNamed DEF IInv, Types
    <2>. QED
      BY <2>1, LoadAll DEF Settled
  <1>. QED
    BY <1>1, Invariance, PTL

(* deleteContacts(): the loop that erases while it iterates takes every    *)
(* contact of the name and no other, and keeps the order.                  *)
THEOREM DeletionExact == Spec => DeletesAll
  <1>1. IInv => \A name \in Line : DeleteContacts(name) => contacts' = Others(contacts, name)
    BY PassKeepsOthers DEF IInv, Types, DeleteContacts
  <1>. QED
    BY <1>1, Invariance, PTL DEF DeletesAll
=============================================================================
