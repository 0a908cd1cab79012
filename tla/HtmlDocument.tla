---------------------------- MODULE HtmlDocument ----------------------------
(***************************************************************************)
(* The class HTMLDocument (html_parse.hpp) under any sequence of the       *)
(* operations that the vectors of LoadDocs and RecognizeLanguage, and the  *)
(* statements of the tasks, apply to its objects: default construction,    *)
(* construction from a file, move construction, copy-and-swap assignment,  *)
(* SetMeta and destruction.                                                *)
(*                                                                         *)
(* An object owns two native resources: the lexbor document (document_)    *)
(* and the buffer the file was read into (html_).  A construction from a   *)
(* file allocates one of each, which get the same number here; 0 is        *)
(* nullptr.                                                                *)
(*                                                                         *)
(* The specification is called HDSpec, so that one module can extend this  *)
(* one and HtmlParse.                                                      *)
(***************************************************************************)
EXTENDS Integers

CONSTANTS
  Objects,        \* the places an object can live in: slots, temporaries, parameters
  Files,          \* paths
  FileMeta,       \* path -> the meta properties its HTML sets
  Unreadable,     \* the paths that cannot be opened
  MaxDocs         \* bound on the constructions from a file

ASSUME MaxDocsAssumption == MaxDocs \in Nat

VARIABLES
  live,           \* the objects that are constructed and not destroyed
  obj,            \* object -> its fields
  documents,      \* the lexbor documents that are allocated
  buffers,        \* the html_ arrays that are allocated
  parsed,         \* how many documents have been constructed from files
  source,         \* document -> the path it was parsed from
  status          \* "running", or "terminated" by an exception that nothing catches

HDvars == <<live, obj, documents, buffers, parsed, source, status>>

-----------------------------------------------------------------------------
NoMeta == << >>
NoText == ""

\* meta[key] = value, of an unordered_map.
With(meta, key, value) ==
  [k \in DOMAIN meta \cup {key} |-> IF k = key THEN value ELSE meta[k]]

\* Mutant: the pointers are not initialised.
EmptyGarbage == [document |-> -1, html |-> -1, text |-> NoText, meta |-> NoMeta]

\* HTMLDocument().
Empty == [document |-> 0, html |-> 0, text |-> NoText, meta |-> NoMeta]

\* Mutant: the path is set before the HTML is parsed.
FromFilePathFirst(f) ==
  [document |-> parsed + 1, html |-> parsed + 1, text |-> f,
   meta |-> IF "path" \in DOMAIN FileMeta[f] THEN FileMeta[f] ELSE With(FileMeta[f], "path", f)]

\* HTMLDocument(file_path): the path is set last and so replaces a property of
\* that name.  text stands for what ParseText and ParseLinks collect.
FromFile(f) ==
  [document |-> parsed + 1, html |-> parsed + 1, text |-> f,
   meta |-> With(FileMeta[f], "path", f)]

Running == status = "running"

HDInit ==
  /\ live = {}
  /\ obj = [o \in Objects |-> Empty]
  /\ documents = {} /\ buffers = {}
  /\ parsed = 0 /\ source = << >>
  /\ status = "running"

\* What the destructor of an object with these fields gives back.
Frees(fields, h) == fields.document # 0 /\ h = fields.document
FreesBuffer(fields, h) == fields.document # 0 /\ h = fields.html

ConstructDefault(o) ==
  /\ Running /\ o \notin live
  /\ live' = live \cup {o}
  /\ obj' = [obj EXCEPT ![o] = Empty]
  /\ UNCHANGED <<documents, buffers, parsed, source, status>>

\* documents->at(start) = HTMLDocument(files.at(start)): the assignment's
\* parameter is constructed from the file and swapped with the slot, and takes
\* the slot's old contents with it.
AssignFile(d, f) ==
  /\ Running /\ d \in live
  /\ f \notin Unreadable /\ parsed < MaxDocs
  /\ obj' = [obj EXCEPT ![d] = FromFile(f)]
  /\ documents' = {h \in documents : ~ Frees(obj[d], h)} \cup {parsed + 1}
  /\ buffers' = {h \in buffers : ~ FreesBuffer(obj[d], h)} \cup {parsed + 1}
  /\ source' = With(source, parsed + 1, f)
  /\ parsed' = parsed + 1
  /\ UNCHANGED <<live, status>>

\* ReadDocument throws after the lexbor document was created, which nothing
\* owns then; nothing catches the exception either.
ReadThrows(f) ==
  /\ Running /\ f \in Unreadable
  /\ documents' = documents \cup {parsed + 1}
  /\ parsed' = parsed + 1
  /\ status' = "terminated"
  /\ UNCHANGED <<live, obj, buffers, source>>

\* Mutant: the fields are copied.
MoveConstructCopies(o, s) ==
  /\ Running /\ o \notin live /\ s \in live
  /\ live' = live \cup {o}
  /\ obj' = [obj EXCEPT ![o] = obj[s]]
  /\ UNCHANGED <<documents, buffers, parsed, source, status>>

\* HTMLDocument(HTMLDocument&&): default construction and Swap.
MoveConstruct(o, s) ==
  /\ Running /\ o \notin live /\ s \in live
  /\ live' = live \cup {o}
  /\ obj' = [obj EXCEPT ![o] = obj[s], ![s] = Empty]
  /\ UNCHANGED <<documents, buffers, parsed, source, status>>

\* d = std::move(s): the parameter is move-constructed from s, swapped with d
\* and destroyed with what d had.  d may be s, which then keeps its contents.
Assign(d, s) ==
  /\ Running /\ d \in live /\ s \in live
  /\ obj' = [o \in Objects |-> IF o = d THEN obj[s] ELSE IF o = s THEN Empty ELSE obj[o]]
  /\ documents' = {h \in documents : d = s \/ ~ Frees(obj[d], h)}
  /\ buffers' = {h \in buffers : d = s \/ ~ FreesBuffer(obj[d], h)}
  /\ UNCHANGED <<live, parsed, source, status>>

\* The tasks write these keys; also into moved-from documents (debug.hpp:30).
SetMeta(o, key) ==
  /\ Running /\ o \in live
  /\ obj' = [obj EXCEPT ![o] = [obj[o] EXCEPT !.meta = With(obj[o].meta, key, "set")]]
  /\ UNCHANGED <<live, documents, buffers, parsed, source, status>>

\* ~HTMLDocument().
Destroy(o) ==
  /\ Running /\ o \in live
  /\ live' = live \ {o}
  /\ obj' = [obj EXCEPT ![o] = Empty]
  /\ documents' = {h \in documents : ~ Frees(obj[o], h)}
  /\ buffers' = {h \in buffers : ~ FreesBuffer(obj[o], h)}
  /\ UNCHANGED <<parsed, source, status>>

Stopped == ~ Running /\ UNCHANGED HDvars

HDNext ==
  \/ \E o \in Objects : ConstructDefault(o) \/ Destroy(o)
  \/ \E o \in Objects, f \in Files : AssignFile(o, f)
  \/ \E f \in Files : ReadThrows(f)
  \/ \E o, s \in Objects : MoveConstruct(o, s) \/ Assign(o, s)
  \/ \E o \in Objects, key \in {"lang", "is_news"} : SetMeta(o, key)
  \/ Stopped

HDSpec == HDInit /\ [][HDNext]_HDvars

-----------------------------------------------------------------------------
\* Type invariant.
TypeOK ==
  /\ live \subseteq Objects
  /\ DOMAIN obj = Objects
  /\ \A o \in Objects : obj[o].document \in 0 .. parsed /\ obj[o].html \in 0 .. parsed
  /\ parsed \in Nat
  /\ documents \subseteq 1 .. parsed /\ buffers \subseteq 1 .. parsed
  /\ status \in {"running", "terminated"}

\* Every lexbor document and every buffer that is allocated belongs to exactly
\* one object, and an object has both or neither: however objects are moved,
\* assigned, self-assigned and destroyed, nothing is freed twice, used after it
\* was freed, or leaked while the process runs (html_parse.hpp:59-83).
OwnedOnce ==
  /\ \A o \in Objects : obj[o].html = obj[o].document
  /\ \A o \in Objects \ live : obj[o].document = 0
  /\ \A o \in live : obj[o].document # 0 =>
       obj[o].document \in documents /\ obj[o].document \in buffers
  /\ \A o, p \in live : o # p /\ obj[o].document # 0 => obj[o].document # obj[p].document
  /\ Running => \A h \in documents \cup buffers : \E o \in live : obj[o].document = h

\* The fields of an object stay together: the path that every stage identifies
\* a document by is the file its text and native document came from, even if
\* the HTML has a property called "path"; a moved-from object has no path.
PathIdentifiesFile ==
  \A o \in live :
    IF obj[o].document = 0
    THEN "path" \notin DOMAIN obj[o].meta /\ obj[o].text = NoText
    ELSE /\ obj[o].meta["path"] = source[obj[o].document]
         /\ obj[o].text = source[obj[o].document]
=============================================================================
