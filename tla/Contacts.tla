------------------------------ MODULE Contacts ------------------------------
(***************************************************************************)
(* The address book of contacts.cpp: the vector in memory, the file        *)
(* contacts.dat, and the menu loop over standard input.  The user types    *)
(* line by line; a save is a step per line (every << endl flushes), so     *)
(* that it can be cut short.  Names and numbers are lines, as they are in  *)
(* the file.  Searches and the list change nothing: see "ask".             *)
(***************************************************************************)
EXTENDS Integers, SequencesExt

CONSTANTS
  Line,        \* the lines a user types at a prompt, Blank among them
  Blank,       \* the empty line
  Cut,         \* Cut[line]: the texts that may be left of it by a write that fails
  MaxContacts  \* BOUND: contacts in the vector when another one is added

ASSUME BlankAssumption == Blank \in Line
ASSUME CutAssumption == Cut \in [Line -> SUBSET (Line \ {Blank})]
ASSUME MaxContactsAssumption == MaxContacts \in Nat

VARIABLES
  at,        \* where the process waits or works, "off" when there is none
  eof,       \* its standard input has ended
  draft,     \* addContacts(): c.name
  contacts,  \* the vector
  disk,      \* the lines in contacts.dat
  writing,   \* saveContacts(): the lines still to be written
  last,      \* history: what the last save that opened the file was to write
  complete   \* history: that save wrote it all

memory == <<draft, contacts>>
file == <<disk, writing, last, complete>>
vars == <<at, eof, memory, file>>

Contact == [name : Line, number : Line]
Places == {"off", "menu", "discard", "name", "number", "delete", "ask", "save"}

TypeOK ==
  /\ at \in Places /\ eof \in BOOLEAN /\ complete \in BOOLEAN
  /\ draft \in Line
  /\ contacts \in Seq(Contact) /\ last \in Seq(Contact)
  /\ disk \in Seq(Line) /\ writing \in Seq(Line)
  /\ Len(contacts) <= MaxContacts
  /\ writing # <<>> => at = "save"

-----------------------------------------------------------------------------
(* The file.                                                               *)

\* saveContacts() writes two lines for each contact.  NumberFirst: the other
\* way round.
NumberFirst(list) == FlattenSeq([i \in 1 .. Len(list) |-> <<list[i].number, list[i].name>>])
LinesOf(list) == FlattenSeq([i \in 1 .. Len(list) |-> <<list[i].name, list[i].number>>])

\* loadContacts(), line by line: `wants` is what getline() is called for next.
\* SkipBlank: a blank line is skipped where a number is wanted, too.
TakeLine(r, line) ==
  IF r.wants = "name" THEN [r EXCEPT !.name = line, !.wants = "number"]
  ELSE [wants |-> "name", name |-> Blank,
        list |-> Append(r.list, [name |-> r.name, number |-> line])]
SkipBlank(r, line) == IF line = Blank THEN r ELSE TakeLine(r, line)
ReadLine(r, line) ==
  IF r.wants = "name" /\ line = Blank THEN r
  ELSE TakeLine(r, line)

Read(lines) ==
  LET after[i \in 0 .. Len(lines)] ==
        IF i = 0 THEN [wants |-> "name", name |-> Blank, list |-> <<>>]
        ELSE ReadLine(after[i - 1], lines[i])
  IN after[Len(lines)]

\* At the end of the file the number of a name without one stays empty.
LoadContacts(lines) ==
  LET r == Read(lines) IN
  IF r.wants = "name" THEN r.list
  ELSE Append(r.list, [name |-> r.name, number |-> Blank])

-----------------------------------------------------------------------------
Init ==
  /\ at = "off" /\ eof = FALSE
  /\ draft = Blank /\ contacts = <<>>
  /\ disk = <<>> /\ writing = <<>>
  /\ last = <<>> /\ complete = TRUE

(* A process starts.                                                       *)
Start ==
  /\ at = "off" /\ at' = "menu" /\ eof' = FALSE
  /\ contacts' = LoadContacts(disk)
  /\ UNCHANGED <<draft, file>>

(* main(): one character and the rest of its line.  If the line is empty   *)
(* the character is its '\n', and clearInput() discards the next line.  At *)
(* the end of the input clearInput() never returns.                        *)
ChooseOption(next) ==
  /\ at = "menu" /\ ~ eof
  /\ at' = next
  /\ UNCHANGED <<eof, memory, file>>

ClearInput ==
  /\ at = "discard" /\ ~ eof
  /\ at' = "menu"
  /\ UNCHANGED <<eof, memory, file>>

\* getline(): the line typed, or nothing.
Getline(prompt, line) == at = prompt /\ line \in (IF eof THEN {Blank} ELSE Line)

AddName(line) ==
  /\ Getline("name", line)
  /\ draft' = line /\ at' = "number"
  /\ UNCHANGED <<eof, contacts, file>>

AddContacts(line) ==
  /\ Getline("number", line)
  /\ contacts' = Append(contacts, [name |-> draft, number |-> line])
  /\ draft' = Blank /\ at' = "menu"
  /\ UNCHANGED <<eof, file>>

\* searchNumber(), contactsData(); contactsList() asks for nothing.
Ask(line) ==
  /\ Getline("ask", line)
  /\ at' = "menu"
  /\ UNCHANGED <<eof, memory, file>>

\* deleteContacts(): the iterator v is a position here; what erase() returns
\* is the next element, which has moved up to v.  SkipAfter: v is advanced all
\* the same.
SkipAfter(list, v, name) == v + 1
NextAfter(list, v, name) == IF list[v].name = name THEN v ELSE v + 1
Erased(list, v, name) ==
  IF list[v].name = name THEN RemoveAt(list, v) ELSE list

DeletePass(list, name) ==
  LET pass[i \in 0 .. Len(list)] ==
        IF i = 0 THEN [v |-> 1, list |-> list]
        ELSE LET p == pass[i - 1] IN
             IF p.v > Len(p.list) THEN p
             ELSE [v |-> NextAfter(p.list, p.v, name), list |-> Erased(p.list, p.v, name)]
  IN pass[Len(list)].list

DeleteContacts(line) ==
  /\ Getline("delete", line)
  /\ contacts' = DeletePass(contacts, line)
  /\ at' = "menu"
  /\ UNCHANGED <<eof, draft, file>>

-----------------------------------------------------------------------------
(* saveContacts().                                                         *)

\* Opening the file empties it.  Appending: it would not.
Appending(lines) == lines
Opened(lines) == <<>>

SaveOpen ==
  /\ at = "menu" /\ ~ eof
  /\ disk' = Opened(disk) /\ writing' = LinesOf(contacts)
  /\ last' = contacts /\ complete' = (contacts = <<>>)
  /\ at' = IF contacts = <<>> THEN "menu" ELSE "save"
  /\ UNCHANGED <<eof, memory>>

\* The last line closes the file.
SaveLine ==
  /\ at = "save"
  /\ disk' = Append(disk, Head(writing)) /\ writing' = Tail(writing)
  /\ complete' = (writing' = <<>>)
  /\ at' = IF complete' THEN "menu" ELSE "save"
  /\ UNCHANGED <<eof, memory, last>>

\* A write that fails, having written nothing or some of its line, makes all
\* the later ones fail; nobody looks.
SaveFails ==
  /\ at = "save"
  /\ \/ disk' = disk
     \/ \E part \in Cut[Head(writing)] : disk' = Append(disk, part)
  /\ writing' = <<>> /\ at' = "menu"
  /\ UNCHANGED <<eof, memory, last, complete>>

-----------------------------------------------------------------------------
\* The user closes the input.
InputEnds ==
  /\ at # "off" /\ ~ eof /\ eof' = TRUE
  /\ UNCHANGED <<at, memory, file>>

\* exitSystem(), or a signal at any moment: what is in memory is lost.
Ends ==
  /\ at' = "off" /\ eof' = FALSE
  /\ contacts' = <<>> /\ draft' = Blank /\ writing' = <<>>
  /\ UNCHANGED <<disk, last, complete>>
ExitSystem == at = "menu" /\ ~ eof /\ Ends
Killed == at # "off" /\ Ends

\* What the menu leads to; an option that does not exist, the list, and a file
\* that cannot be opened lead back to it.
Options ==
  {"menu", "discard", "delete", "ask"}
    \cup (IF Len(contacts) < MaxContacts THEN {"name"} ELSE {})

Next ==
  \/ Start \/ \E next \in Options : ChooseOption(next)
  \/ ClearInput
  \/ \E line \in Line : \/ AddName(line) \/ AddContacts(line)
                        \/ Ask(line) \/ DeleteContacts(line)
  \/ SaveOpen \/ SaveLine \/ SaveFails
  \/ InputEnds \/ ExitSystem \/ Killed

Spec == Init /\ [][Next]_vars

-----------------------------------------------------------------------------
(* Properties.                                                             *)

Named(list) == \A i \in 1 .. Len(list) : list[i].name # Blank

(* A save that was not cut short is read back as it was, contact for       *)
(* contact, in order, blank numbers included; provided that no name in it  *)
(* is blank (loadContacts() skips it, and takes the number for a name).    *)
ReadsBack == complete /\ Named(last) => LoadContacts(disk) = last

\* What of contact c may be read when its last line is missing, or cut.
Remains(c) ==
  {[name |-> c.name, number |-> part] : part \in Cut[c.number] \cup {Blank}}
    \cup {[name |-> part, number |-> Blank] : part \in Cut[c.name]}

(* A save cut short anywhere, by a signal or a failing write, leaves the   *)
(* first few of its contacts, and of the last of them perhaps no number,   *)
(* or a piece of its number or of its name: never an older contact, nor    *)
(* the number of another.                                                  *)
CutShort ==
  Named(last) =>
    LET read == LoadContacts(disk) IN
    /\ Len(read) <= Len(last)
    /\ \A i \in 1 .. Len(read) :
         read[i] = last[i] \/ (i = Len(read) /\ read[i] \in Remains(last[i]))

(* Whatever is in the file, blank names included: what is loaded from it   *)
(* can be saved and loaded again without a change.                         *)
Settled == LoadContacts(LinesOf(LoadContacts(disk))) = LoadContacts(disk)

\* The contacts that have another name.
Others(list, name) ==
  LET kept[i \in 0 .. Len(list)] ==
        IF i = 0 THEN <<>>
        ELSE IF list[i].name # name THEN Append(kept[i - 1], list[i])
        ELSE kept[i - 1]
  IN kept[Len(list)]

(* A deletion takes every contact of that name and no other, and keeps the *)
(* order, though the loop erases while it iterates (contacts.cpp:119-125). *)
DeletesAll ==
  [][\A name \in Line : DeleteContacts(name) =>
       contacts' = Others(contacts, name)]_vars
=============================================================================
