------------------------------- MODULE Config -------------------------------
(***************************************************************************)
(* Reading the configuration: parse_node of deskbar/xml.c with the hash    *)
(* table of attributes (libdeskbar/htable.c) and the hash and conversion   *)
(* of names (libdeskbar/strings.c), what db_plug_load and                  *)
(* db_display_obj_new make of the attributes, what becomes of a file that  *)
(* cannot be opened or has an error (its report is in module Excerpt), and *)
(* the first draw, which reads what the objects have been given.           *)
(*                                                                         *)
(* A document is the sequence of nodes the reader reports, whether valid   *)
(* by xml/config.dtd or not: nothing validates it.  A name is a sequence   *)
(* of C chars, since its case and its hash matter; every other value is    *)
(* << >>.  Attributes of a node are told apart by their names: the hashes  *)
(* of all names in the DTD differ.  What the intervals do is in PlugHost,  *)
(* and what makes other callbacks of plugins fault in PlugHost and Plugins.*)
(***************************************************************************)
EXTENDS Excerpt, SequencesExt

CONSTANTS
  Documents,  \* sequences of nodes [kind, atts], atts a sequence of
              \* << attribute, value >>
  Installed,  \* names of the libraries in PLUGIN_DIR
  HasData,    \* those whose DbPlug has a data buffer
  Broken,     \* those whose db_plug_init returns NULL (plugins/bmp.c)
  NeedsOptions, \* those whose update faults without options (plugins/time.c)
  HashSize,   \* how many hashes there are; 2^32 in the code
  Beginnings, \* documents behind which the parser finds an error
  Memories,   \* what may be in memory then, up to the end of the buffer
  NULL

(* A node as the reader reports it: no attribute is given twice.           *)
Char  == -128 .. 127
Kinds == {"display", "plugin", "text", "meter", "other"}
Nodes ==
  {node \in [kind : Kinds, atts : Seq(STRING \X Seq(Char))] :
     \A a, b \in DOMAIN node.atts : node.atts[a][1] = node.atts[b][1] => a = b}

(* Memory is taken from a character in front that is no newline; what is   *)
(* further in front does not end a line or an excerpt.                     *)
ASSUME ConfigAssumption ==
  /\ HasData \cup Broken \cup NeedsOptions \subseteq Installed
  /\ HashSize \in Nat \ {0}
  /\ NULL \notin HasData \cup Seq(Char)
  /\ Documents \cup Beginnings \subseteq Seq(Nodes)
  /\ \A m \in Memories : m \in Seq({"x", "nl", "nul"}) /\ Len(m) > 0 /\ m[1] # "nl"

VARIABLES
  pc,        \* "read", "fault" or "drawn"
  file,      \* "good", "broken" by an error behind doc, or "missing"
  fixed,     \* has the X server the font to fall back on?
  doc,       \* the document
  k,         \* the node the reader is at
  pluglist,  \* elements: the node, the library and id, a hash
  objlist,   \* objects: the node, has it text of its own, and the library
             \* whose data it points at
  lost,      \* nodes whose element or object is in no list and not freed
  report     \* what error_handler has printed, NULL before

lists  == << pluglist, objlist, lost >>
source == << doc, file, fixed >>
vars   == << pc, source, k, lists, report >>

-----------------------------------------------------------------------------
(* db_htable_push of every attribute, and db_htable_pop, which leaves what *)
(* it finds in the table.                                                  *)
MutTable(atts) == IF atts = << >> THEN atts ELSE << Last(atts) >>
Table(atts) == atts

Pop(node, key) ==
  LET table == Table(node.atts)
      place == SelectInSeq(table, LAMBDA att : att[1] = key)
  IN  IF place = 0 THEN NULL ELSE table[place][2]

Has(node, key) == Pop(node, key) # NULL

(* db_strings_tolower: is_lower tests bit 9 of a char made an int, which   *)
(* is a copy of its sign.  So ASCII stays as it is.                        *)
Wrapped(c) == ((c + 128) % 256) - 128
MutIsLower(c) == IF c \in 65 .. 90 THEN c + 32 ELSE c
IsLower(c) == IF c < 0 THEN Wrapped(c - 65 + 97) ELSE c
ToLower(s) == [j \in DOMAIN s |-> IsLower(s[j])]

(* db_strings_hash; what follows its loop only stirs the bits.             *)
Hash(s) ==
  LET h[j \in 0 .. Len(s)] ==
        IF j = 0 THEN 5381 % HashSize ELSE (33 * h[j - 1] + s[j]) % HashSize
  IN  h[Len(s)]

(* The attributes that strcmp and atoi are called with, found or not.      *)
Needed(node) ==
  CASE node.kind = "display" -> {"version"}
    [] node.kind = "text"    -> {"x", "y", "size"}
    [] node.kind = "meter"   -> {"x", "y", "width", "height"}
    [] OTHER                 -> {}

Lacks(node) == \E key \in Needed(node) : ~Has(node, key)

-----------------------------------------------------------------------------
Init ==
  /\ pc = "read" /\ k = 1
  /\ \/ file = "good"    /\ doc \in Documents
     \/ file = "broken"  /\ doc \in Beginnings
     \/ file = "missing" /\ doc = << >>
  /\ fixed \in BOOLEAN
  /\ pluglist = << >> /\ objlist = << >> /\ lost = {}
  /\ report = NULL

(* xmlReaderForFile returns NULL, which is handed to libxml2 before it is  *)
(* tested.  A version that takes it goes on to Draw, without any node.     *)
CannotOpen ==
  /\ pc = "read" /\ file = "missing"
  /\ pc' = "fault"
  /\ UNCHANGED << source, k, lists, report >>

(* parse_node gets to the end of a node of this kind with attributes.      *)
ParseNode(kind) ==
  /\ pc = "read" /\ k <= Len(doc)
  /\ doc[k].kind = kind /\ doc[k].atts # << >> /\ ~Lacks(doc[k])
  /\ k' = k + 1
  /\ UNCHANGED << pc, source, report >>

(* parse_node does nothing without attributes, or on an unknown element.   *)
Ignore ==
  /\ pc = "read" /\ k <= Len(doc)
  /\ doc[k].atts = << >> \/ doc[k].kind = "other"
  /\ k' = k + 1
  /\ UNCHANGED << pc, source, lists, report >>

(* NULL is compared or converted.                                          *)
MissingAttribute ==
  /\ pc = "read" /\ k <= Len(doc)
  /\ doc[k].atts # << >> /\ Lacks(doc[k])
  /\ pc' = "fault"
  /\ UNCHANGED << source, k, lists, report >>

(* parse_font: neither the font of the node nor the fixed one is there.    *)
NoFont ==
  /\ pc = "read" /\ k <= Len(doc)
  /\ doc[k].kind = "text" /\ doc[k].atts # << >> /\ ~Lacks(doc[k])
  /\ ~fixed
  /\ pc' = "fault"
  /\ UNCHANGED << source, k, lists, report >>

(* Where the parser may be: a NUL ends its buffer.  In front of the buffer *)
(* is whatever the heap holds.                                             *)
Cursors(m, start) ==
  {at \in start .. Len(m) + 1 : \A i \in Nuls(m) : i < start \/ i >= at}

(* xmlTextReaderRead returns -1: reading ends, and start-up goes on.       *)
ParseError ==
  /\ pc = "read" /\ file = "broken" /\ k > Len(doc) /\ report = NULL
  /\ \E m \in Memories : \E start \in DOMAIN m : \E at \in Cursors(m, start) :
       report' = Report(m, start, at)
  /\ UNCHANGED << pc, source, k, lists >>

CheckVersion ==
  /\ ParseNode("display")
  /\ UNCHANGED << pluglist, objlist, lost >>

(* db_plug_load without a name leaves its element behind.                  *)
LoadNameless ==
  /\ ParseNode("plugin") /\ ~Has(doc[k], "name")
  /\ lost' = lost \cup {k}
  /\ UNCHANGED << pluglist, objlist >>

(* The name is lowered in the table, so it is the id as well.              *)
Library(node) == ToLower(Pop(node, "name"))

(* dlopen finds no library of that name.                                   *)
LoadFails ==
  /\ ParseNode("plugin") /\ Has(doc[k], "name")
  /\ Library(doc[k]) \notin Installed
  /\ UNCHANGED << pluglist, objlist, lost >>

(* The update of some plugins faults when it is given NULL for options.    *)
Stumbles(node) == Library(node) \in NeedsOptions /\ ~Has(node, "options")

(* Is the library mapped for the sake of another element?                  *)
Mapped(lib) == \E j \in DOMAIN pluglist : pluglist[j].lib = lib

(* The interval is written through what db_plug_init has returned; or      *)
(* safe_call ejects the element, and the last line of db_plug_load reads   *)
(* the DbPlug of a library that has been closed.                           *)
Dies(node) ==
  \/ Library(node) \in Broken
  \/ Stumbles(node) /\ ~Mapped(Library(node))

LoadDies ==
  /\ pc = "read" /\ k <= Len(doc)
  /\ doc[k].kind = "plugin" /\ Has(doc[k], "name")
  /\ Library(doc[k]) \in Installed /\ Dies(doc[k])
  /\ pc' = "fault"
  /\ UNCHANGED << source, k, lists, report >>

(* It is still mapped: the element is gone, and reading goes on.           *)
LoadEjects ==
  /\ ParseNode("plugin") /\ Has(doc[k], "name")
  /\ Library(doc[k]) \in Installed
  /\ Stumbles(doc[k]) /\ ~Dies(doc[k])
  /\ UNCHANGED << pluglist, objlist, lost >>

Id(node) == Hash(IF Has(node, "id") THEN Pop(node, "id") ELSE Library(node))

(* db_list_insert                                                          *)
MutInserted(s, x) == << x >> \o s
Inserted(s, x) == Append(s, x)

Load ==
  /\ ParseNode("plugin") /\ Has(doc[k], "name")
  /\ Library(doc[k]) \in Installed \ Broken
  /\ ~Stumbles(doc[k])
  /\ pluglist' = Inserted(pluglist,
                   [node |-> k, lib |-> Library(doc[k]), id |-> Id(doc[k])])
  /\ UNCHANGED << objlist, lost >>

(* db_plug_get_by_name: the data of the first element that has the hash.   *)
GetByName(name) ==
  LET place == SelectInSeq(pluglist, LAMBDA e : e.id = Hash(name))
  IN  IF place = 0 \/ pluglist[place].lib \notin HasData THEN NULL
      ELSE pluglist[place].lib

(* db_display_obj_new: text prefers its value, a meter only looks for data.*)
HasOwn(node) == node.kind = "text" /\ Has(node, "value")

Show(kind) ==
  /\ ParseNode(kind)
  /\ HasOwn(doc[k]) \/ Has(doc[k], "data")
  /\ objlist' = Inserted(objlist,
       [ node |-> k, own |-> HasOwn(doc[k]),
         data |-> IF HasOwn(doc[k]) THEN NULL ELSE GetByName(Pop(doc[k], "data")) ])
  /\ UNCHANGED << pluglist, lost >>

(* "Malformed configuration data!": the object is left behind.             *)
Malformed(kind) ==
  /\ ParseNode(kind)
  /\ ~HasOwn(doc[k]) /\ ~Has(doc[k], "data")
  /\ lost' = lost \cup {k}
  /\ UNCHANGED << pluglist, objlist >>

(* The first draw: strlen or atoi of what an object points at.             *)
Draw ==
  /\ pc = "read" /\ k > Len(doc) /\ (file = "broken" => report # NULL)
  /\ pc' = IF \A j \in DOMAIN objlist : objlist[j].own \/ objlist[j].data # NULL
           THEN "drawn" ELSE "fault"
  /\ UNCHANGED << source, k, lists, report >>

Done == pc \in {"fault", "drawn"} /\ UNCHANGED vars

Next ==
  \/ CannotOpen \/ ParseError
  \/ Ignore \/ MissingAttribute \/ NoFont \/ CheckVersion
  \/ LoadNameless \/ LoadFails \/ LoadDies \/ LoadEjects \/ Load
  \/ \E kind \in {"text", "meter"} : Show(kind) \/ Malformed(kind)
  \/ Draw \/ Done

Spec == Init /\ [][Next]_vars

-----------------------------------------------------------------------------
(* Every variable holds a value of its type.                               *)
TypeOK ==
  /\ pc \in {"read", "fault", "drawn"}
  /\ file \in {"good", "broken", "missing"} /\ fixed \in BOOLEAN
  /\ doc \in Documents \cup Beginnings \cup {<< >>} /\ k \in 1 .. Len(doc) + 1
  /\ pluglist \in Seq([node : 1 .. Len(doc), lib : Installed,
                       id : 0 .. HashSize - 1])
  /\ objlist \in Seq([node : 1 .. Len(doc), own : BOOLEAN,
                      data : HasData \cup {NULL}])
  /\ lost \subseteq 1 .. Len(doc)

-----------------------------------------------------------------------------
(* The document as it is written, without table, conversion and hash.      *)
Keys(j) == {doc[j].atts[a][1] : a \in DOMAIN doc[j].atts}
Written(j, key) ==
  doc[j].atts[CHOOSE a \in DOMAIN doc[j].atts : doc[j].atts[a][1] = key][2]

(* What a plugin node is to be called by, and what an object asks for.     *)
Called(j) == Written(j, IF "id" \in Keys(j) THEN "id" ELSE "name")
Asks(j) ==
  /\ doc[j].kind \in {"text", "meter"} /\ "data" \in Keys(j)
  /\ doc[j].kind = "text" => "value" \notin Keys(j)

Words ==
  {Written(j, "name") : j \in {i \in DOMAIN doc : "name" \in Keys(i)}} \cup
  {Written(j, "id")   : j \in {i \in DOMAIN doc : "id" \in Keys(i)}} \cup
  {Written(j, "data") : j \in {i \in DOMAIN doc : "data" \in Keys(i)}}

(* Names are ASCII, and no two of them have the same hash.                 *)
Plain ==
  /\ \A w \in Words : \A c \in DOMAIN w : w[c] >= 0
  /\ \A v, w \in Words : Hash(v) = Hash(w) => v = w

(* Loaded by node j, library lib faults.                                   *)
Unfit(lib, j) ==
  lib \in Broken \/ (lib \in NeedsOptions /\ "options" \notin Keys(j))

(* The plugins in front of node j that are fit and go by what it asks for, *)
(* and the data of the first of them.                                      *)
Candidates(j) ==
  {i \in 1 .. j - 1 :
     /\ doc[i].kind = "plugin" /\ "name" \in Keys(i)
     /\ Written(i, "name") \in Installed /\ ~Unfit(Written(i, "name"), i)
     /\ Called(i) = Written(j, "data")}

DataFor(j) ==
  LET found == Candidates(j)
      lib   == Written(CHOOSE i \in found : \A h \in found : i <= h, "name")
  IN  IF found = {} \/ lib \notin HasData THEN NULL ELSE lib

(***************************************************************************)
(* Through table, conversion and hash an object gets the data of the first *)
(* plugin in front of it that goes by the name it asks for, in exactly     *)
(* that spelling, and has not been ejected by its own load, as long as     *)
(* names are ASCII and their hashes differ.                                *)
(***************************************************************************)
RightData ==
  Plain => \A j \in DOMAIN objlist :
    ~objlist[j].own => objlist[j].data = DataFor(objlist[j].node)

(***************************************************************************)
(* When start-up dies, the file or the fixed font is missing, or an        *)
(* attribute that the code converts without a test, or a plugin is broken  *)
(* or lacks the options it needs, or an object asks for what no plugin in  *)
(* front of it has, or names are not plain.  An error in the file does no  *)
(* harm of its own.                                                        *)
(***************************************************************************)
FaultExplained ==
  pc = "fault" =>
    \/ file = "missing"
    \/ ~fixed /\ \E j \in DOMAIN doc : doc[j].kind = "text"
    \/ \E j \in DOMAIN doc : Keys(j) # {} /\ ~(Needed(doc[j]) \subseteq Keys(j))
    \/ \E j \in DOMAIN doc : doc[j].kind = "plugin" /\ "name" \in Keys(j)
                             /\ Unfit(Written(j, "name"), j)
    \/ \E j \in DOMAIN doc : Asks(j) /\ DataFor(j) = NULL
    \/ ~Plain

(***************************************************************************)
(* Both lists are in the order of the document, and every plugin or object *)
(* read so far is in its list, unless its library is not installed or has  *)
(* faulted, or it names nothing to show or load: then alone is it left     *)
(* behind.                                                                 *)
(***************************************************************************)
Ordered(s) == \A i, j \in DOMAIN s : i < j => s[i].node < s[j].node

Incomplete(j) ==
  CASE doc[j].kind = "plugin" -> "name" \notin Keys(j)
    [] doc[j].kind = "text"   -> Keys(j) \cap {"value", "data"} = {}
    [] doc[j].kind = "meter"  -> "data" \notin Keys(j)
    [] OTHER                  -> FALSE

(* The library a node names is not there, or has been closed again.        *)
NotLoaded(j) ==
  LET lib == ToLower(Written(j, "name"))
  IN  doc[j].kind = "plugin" /\ (lib \notin Installed \/ Unfit(lib, j))

Listed == {pluglist[j].node : j \in DOMAIN pluglist} \cup
          {objlist[j].node : j \in DOMAIN objlist}

NodesSettled ==
  /\ TypeOK
  /\ Ordered(pluglist) /\ Ordered(objlist)
  /\ \A j \in 1 .. k - 1 :
       doc[j].kind \in {"plugin", "text", "meter"} /\ Keys(j) # {} =>
         IF Incomplete(j) THEN j \in lost \ Listed
         ELSE /\ j \notin lost
              /\ j \in Listed \/ NotLoaded(j)

(***************************************************************************)
(* error_handler writes its excerpt and its caret within the array, and    *)
(* reads in front of the parser's buffer only from the buffer's first line.*)
(***************************************************************************)
ExcerptFits ==
  report # NULL =>
    /\ report.length < Size /\ report.caret + 1 < Size
    /\ report.low < report.start =>
         \A i \in Newlines(report.memory) \cap (report.start .. report.at) :
           \A j \in i .. report.at : j \in Newlines(report.memory)

(***************************************************************************)
(* The caret is below the character the parser is at, or, once the line    *)
(* has been cut, one to the left of it.  Only if the excerpt begins in     *)
(* front of the buffer and meets a NUL there, it ends at that NUL, and     *)
(* the caret stands at its end instead of below the parser.                *)
(***************************************************************************)
LineStart(m, at) == Max({i + 1 : i \in {j \in Newlines(m) : j < at}} \cup {-Size})

Met(r) == {i \in Nuls(r.memory) : r.begin <= i /\ i < r.at}

CaretUnderCursor ==
  report # NULL /\ report.at \notin Newlines(report.memory) =>
    report.begin + report.caret =
      IF Met(report) # {} THEN Min({i \in Met(report) : i < report.start})
      ELSE IF report.at - LineStart(report.memory, report.at) < Size - 1
      THEN report.at ELSE report.at - 1

-----------------------------------------------------------------------------
(* What the documentation promises and the code does not keep.             *)

(* The deskbarrc that comes with the program can be used.                  *)
StartsUp == file = "good" /\ fixed => pc # "fault"
=============================================================================
