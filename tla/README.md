# tgnews: models, checks and proofs

`tgnews` is a command-line program. `tgnews <task> <folder>` reads the HTML
articles of a folder, recognises their language, computes text features for the
Russian and English ones, decides which are news, groups the news, and prints
JSON (or, for `dump`, a TSV table). This directory models the program's own code,
about 1,150 lines of C++17 in `src/src/*.hpp`, `common.h` and `tgnews.cpp`, and those
parts of the vendored libraries whose control flow the program's correctness rests on:
lexbor's tree walk, its collections and its text content; UDPipe's table that all
threads share, and its reader; BigARTM's `Transform` with its queue and processor
threads. Of cld3, nlohmann json and the rest of the libraries only what they return to the
program appears.

Line numbers below refer to `src/src/`.

## 1. Inventory

| Component | State it keeps | Operations | Model |
|---|---|---|---|
| `main` (`tgnews.cpp`) | `docs`, `langs_ruen`, `features`, `news`, groups | nine tasks, each a fixed list of calls | `Pipeline` |
| File discovery (`utils.hpp`) | list of paths | `GlobHTML`, `IsHTML` | `Pipeline` |
| Parallel stages (`io.hpp`, `langrec.hpp`, `features.hpp`, `news_det.hpp`) | chunk bounds, `workers`, one shared vector | start a thread per chunk, run the task body per slot, join | `ForkJoin`, `ParallelMap` |
| `HTMLDocument` (`html_parse.hpp`) | lexbor document, buffer, text, links, meta map | construct, read and parse, move, copy-and-swap, `SetMeta`, destroy | `HtmlDocument`; as values in `Pipeline` |
| HTML parsing (`html_parse.hpp:145-193`, lexbor `node.c`, `element.c`, `array.c`) | position of a walk, a growing array, a text buffer, the fields | `ParseMeta`, `ParseText`, `ParseLinks` | `HtmlParse` |
| Language recognition (`langrec.hpp`) | site lists, `lang` of each document | `GetUrl2Lang`, `RecogTask`, move of ru/en documents | `Pipeline` |
| Feature generation (`features.hpp`, `common.h`) | models, readers, dictionaries, bags of words | `GenerateFeatures`, `UpdateUDPipe`, `UpdateLemma`, `UpdateFeats` | `Features`; presence of the bags in `Pipeline` |
| UDPipe's tokenizer table (`ragel_tokenizer.cpp`) | `ragel_map`, `ragel_map_flag`, both static | `initialize_ragel_map`, `ragel_map_add`, `ragel_char` | `RagelMap` |
| Dictionaries (`io.hpp`) | name to position | `ReadFeaturesNames`, `ReadLemmas` | `Features` |
| News detection (`news_det.hpp`) | `is_news_`, `is_news_score` | url rule, model, move of the news | `Pipeline` |
| Logistic regression (`logreg.hpp`) | count, bias, three vectors | constructor, `Infer` | `LogReg` |
| Categories (`news_categories.hpp`, BigARTM `core/`) | two master models with queue, processors and score; category to documents | `GetCategories`, `AddCategories`, `~ARTM` | `Artm`; its result in `Pipeline` |
| Threads of articles (`news_threads.hpp`) | title to documents | `GetThreads` | `Pipeline` |
| Output (`io.hpp`, `debug.hpp`) | columns of the table | five JSON dumps and `MakeTsv` | `Pipeline` (which entries), `Tsv` (columns and rows) |
| Top (`news_top.hpp`) | none | stub that nothing calls | not modelled |
| Python scripts (`utils/`) | none | training, evaluation | not modelled; what they expect is stated as properties |

**Interaction.** Main is the only coordinator. It passes vectors to the stages by
pointer or reference. A stage's threads share the vector and write only the
elements of their own chunk; there is no lock and no message. Two libraries share
state between threads all the same: the generators that the threads of
`GenerateFeatures` construct fill and read one static table of UDPipe, and main talks to
the processor threads of each BigARTM model through a queue and through objects on its
own stack. Between stages main
*moves* elements from one vector to another: documents in
`RecognizeLanguage` (`langrec.hpp:70-76`), features in `DetectNews`
(`news_det.hpp:74-79`). The moved-from elements stay in the old vector, which some
tasks go on to use.

**What is hard.**

* Threads without locks: correctness rests on the arithmetic of the chunks and on
  the joins (`io.hpp:32-41` and three copies).
* No exception is caught. One that leaves a thread, or main, ends the process;
  `at()` throws when a language, a bag or a slot is missing, so every stage relies on
  what an earlier one did for the same element.
* Use after move: what remains in a moved-from object, and who reads it.
* A reader object reused across documents, which holds a pointer into a string that
  is gone (`features.hpp:118-126`).
* Ownership of two native resources through move construction and copy-and-swap.
* Objects of a stack frame that another thread holds pointers to
  (`bigartm/src/artm/core/master_component.cc:800-850`), and threads that are stopped by a
  flag and joined by a destructor.
* A static table that is written under a hand-written spin lock and read without one.
* Loops whose end is decided by a file and not by the size of the vector they write
  (`logreg.hpp:19`), and walks over a tree by parent pointers.
* Unsigned arithmetic: `size() - 5`, `-1` passed as `size_t` and read as `int`,
  `size / 8` rounded down.

Nothing is persisted and there is no network, timeout or retry; the model has none
either. `PROJECT.json` lists the hazards at their lines.

## 2. Modules

### ParallelMap (abstract)

What a parallel stage promises to main: the task body is applied exactly once to
every slot, in any order, and then the call returns, or the process is terminated.

### ForkJoin

The loop shared by the four stages. `pc` is main's position, `start` its loop
variable, `workers` the `std::vector<std::thread>` with each thread's chunk `[begin,
end)`, its index `i` and whether it is inside the body, `joined` the progress of the
join loop, `visits` a history of completed bodies per slot. `Spawn`, `SpawnDone`,
`Join`, `Return` are main's steps; `Enter` and `Leave` a thread's, split so that two
threads can be *inside* a body at once. `SpawnFails` is `std::thread`'s exception and
`Throw` one in a task; both end the process. A finished stage can be called again
with another size, as main does.

### Pipeline

A whole run. `Program` gives main's calls for each task, `at` the position in it. The
stages are calls of `ParallelMap` (`P!Call`, `P!Apply`, `P!Return`), conjoined with what
the task body does to the slot; main's sequential work before the threads start or
after they are joined is part of the call or the return. A document is the directory
entry it came from plus the language written into it; entry 0 is a default-constructed
or moved-from object. Attributes of an entry are what the libraries would find: the
language of the text (cld3), whether the score passes 0.3, the topics above 0.3
(BigARTM). An entry also says whether the directory iterator reaches it and its status
can be read, whether it is a regular file, the length of its path and whether that is
valid UTF-8, whether the name ends in `.html`, whether it can be opened, its site, which
parts of its url say "news", and its title; `GarbledTitles` are the titles that are not
valid UTF-8. A missing folder is one entry that is not reached.

`MainThrows`, `TaskThrows` and `SpawnFails` end the process, and `reason` says why: an
error of the directory iterator or of `is_regular_file` (`EntryError`; the first one
counts), `compare` on a path shorter than `.html`, a file that cannot be opened, a
language that `GetCategories` cannot do, a `substr` beyond a name, a string that the JSON
serializer refuses (`PrintThrows`), the last row of an empty table, a bag of words that
is missing, a thread that cannot be created, here or in a processor of `GetCategories`.
Which of them can happen, and that they do when the folder gives cause, is
`StopsAsExplained`: for the serializer it says of which articles a task prints the path
or the title (`Printed`).

`UsesReturned` is where the tasks differ: `languages`, `news`, `categories`, `threads`
and `top` go on with the vector that `RecognizeLanguage` returns; `news_test`, `dump`
and `features` drop it and go on with what is left in `docs`.

### Features

The `FeaturesGenerator` of one thread over its chunk. One reader per language is reused
for the text and the title of each document. `SetText` makes the local string of
`UpdateUDPipe` and points the reader at it (UDPipe's `set_text` does not copy unless
asked to), `NextSentence` is one iteration of the loop, `EndOfPart` leaves it, at the
sentence limit or at the end of the text, and destroys the string. Words are records of
tag, lemma and features; regular expressions, tokenising and tagging are data. The
dictionaries are built as `ReadFeaturesNames` and `ReadLemmas` build them: positions in
`Lemmas.txt` count the lines of both classes.

### HtmlDocument

Objects and the native resources they own, under any sequence of the class's
operations. `AssignFile` is `documents->at(i) = HTMLDocument(path)`; `Assign` is
copy-and-swap from an rvalue, where source and target may be the same object.
`ReadThrows` is the failing read, after the lexbor document was created.

### HtmlParse

`ParseDocument` on the tree that lexbor's parser has left. For each tag `StartCollect`
makes a collection; `Visit` is one node of `lxb_dom_node_simple_walk`, with the callback that
pushes matching elements into an array that grows (`Full`), and the step to the next node
by `first_child`, `next` and `parent` (`NextNode`). `ParseMeta` and `ParseLinks` are one
iteration of their loops; `ParseText` starts the text content of a paragraph,
`TextContentSize` and `TextContentConcatenate` are the two walks over it. The pointers are
those of a tree whose nodes are numbered in tree order (a node that does not fit into a
table is inserted before it, so this need not be the order of the source); building the
tree from the bytes is lexbor's parser and not modelled.

### RagelMap

The threads that construct a `FeaturesGenerator`. Each calls `initialize_ragel_map` several
times: `Acquire` is the `test_and_set` that finds the flag clear, `Check` the test for an
empty table, `Fill` one `push_back` or one `ragel_map_add`, `Clear` the release. After its last
call a thread looks characters up (`Read`), without the lock, while others may still be
constructing.

### Artm

`GetCategories` from the construction of the two `ARTM` objects to their destruction.
`pc` and `lang` are main's position; the steps of `Transform` are `AddCategories` (its frame
exists from here), `Register`, `Push`, the poll of the batch manager, and reading the result.
Each processor is a loop of its own: test of the flag, pop, inference, cache, score,
callback. `alive` says which objects of the frame exist, `model` which models; `Stop` and
`Join` are the two loops of the destructor. An exception at any of the calls ends
the process, also that of a processor whose thread cannot be created (`ConstructFails`).

### LogReg

The constructor, one `operator>>` per step, on a file of tokens that are numbers or not:
a failed extraction, a stream at its end, a count that is wrong or missing. Members that were
never assigned hold an arbitrary value of `Indeterminate`. A store outside a vector
(`StoreOutside`) is undefined behaviour, which may overwrite anything: the model stops in
the state `undefined`, of which nothing is claimed but which files lead there
(`StrayExactly`); the other properties are about files that are loaded without it.
`Infer` is one term per step.

### Tsv

`MakeTsv`: `CollectKeys` gathers the names of the columns from all documents, `AddDocument`
appends a document's cells to all columns, `WriteHeader`, `WriteRow` and `WriteLastRow` write the
file from the columns. A string is an identity and the separators in it.

### Selection

The loops that go over a vector and append some of its elements to another one, shared by
`Pipeline`, `Artm`, `HtmlParse` and the proofs: `Picked(s, I)` is the vector of the elements of `s` at the
positions `I`, in order. `GlobHTML`, `AddCategories`, and the loops of `RecognizeLanguage` and `DetectNews` that
move elements out are such loops.

### Proofs

`MC*.tla` only give the constants values. `ForkJoin_proofs`, `Pipeline_proofs`,
`Artm_proofs`, `LogReg_proofs`, `Tsv_proofs` and `Selection_proofs` hold the theorems of the module they
are named after. `Html_proofs` holds those of both models of the class `HTMLDocument`: it
extends `HtmlParse` and `HtmlDocument`, whose specification is therefore called `HDSpec`.
`Udpipe_proofs` holds those of both models of the generator and its readers: it extends
`Features` and `RagelMap`, whose specification is therefore called `RMSpec`.

## 3. Runs

| Run | Bounds | What it shows |
|---|---|---|
| `forkjoin` | 3 threads, vectors of 0 to 8 slots, calls repeated without end | `NoSlotRace`, `CompleteOnReturn`, `ThreadBound`, the inductive invariant `IInv`, `CallEnds`, and that `ForkJoin` implements `ParallelMap` with its liveness |
| `pipeline` | every folder of up to 3 entries of 14 kinds, production tasks (328,663 states) | `OutputCorrect`, `StopsAsExplained`, `OneOwner`, `Ends` |
| `tools` | the same folders, tasks `news_test`, `dump`, `features`, and an unknown one (244,308 states) | `StopsAsExplained`, `TsvRowsAligned` |
| `features` | every chunk of up to 3 of 4 documents, limit 2 or "all" | `ReaderInOwnString`, `FeaturesExact`, `ChunkDone` |
| `htmldocument` | 3 objects, 3 files read up to 3 times | `OwnedOnce`, `PathIdentifiesFile` |
| `htmlparse` | every tree of up to 3 nodes of 10 kinds and of up to 4 nodes of 4 kinds; arrays start at 1 and grow by 2 | `CollectionExact`, `MeasuredTwice`, `FieldsExact`, `Parsed` |
| `ragelmap` | 3 threads, 3 calls each, a table of 2 ASCII entries and 4 additions | `NoTableRace`, `ReadsExact`, `AllConstructed` |
| `artm` | 2 processors per model, up to 3 news of 4 kinds, 4 variants of the model files (81,640 states) | `FrameAlive`, `NoThreadOutlivesModel`, `CategoriesExact`, `ThrowsAsExplained`, `Ends` |
| `logreg` | every file of up to 8 tokens, dictionaries of 1 or 2 features, indeterminate values 1 or 9, allocations up to 4 (337,872 states) | `StrayExactly`, `LoadExact`, `InferExact` |
| `tsv` | every table of up to 3 documents of 5 kinds, 2 values of the flags | `ColumnsInStep`, `RowsAreDocuments`, `Rectangular` |
| `news_test` | one entry | violated, see section 5 |
| `dump_ruen` | one entry | violated, see section 5 |

**Why the bounds are enough.** With 3 threads, sizes 0 to 8 contain each case of the
division: fewer slots than threads, exact multiples, remainders, and 5 slots, where
`2 * kNumThreads - 1` threads are started. Three entries let a folder hold a document of
each language with news of both, two articles of one title around another one, and a
failing entry beside good ones: also two failing ones of which the first decides, and a
title or path that is not UTF-8 in an article that a task prints or leaves out. `SizeT` is 2^16 instead of 2^64: the models only use it
for the wrap-around of `size() - 5` and of `-1`. Three documents per chunk let a reader be left at the limit, used for an
empty text, and used again; one is in a language that is skipped. Three objects are a
source, a target and a bystander. `MaxDocs` bounds constructions from a file,
`AllSentences` is the code's 1,000,000, larger than any document by assumption.
Four nodes contain a text two levels below its paragraph, after which the walk climbs
past several ends of sibling lists, nested paragraphs, and an array that is expanded.
Three threads in RagelMap are one that fills the table, one that finds it filled, and
one that already reads; three calls let a thread come back to the lock. Two processors
compete for one task. Eight tokens are two triples after the count and the bias, so a
file can be short, exact, or too long by one for a count of 1, and can break off
anywhere; 9 is a count that cannot be allocated. Three documents are a first row, one in
the middle and a last one, which the code writes by different statements.

**Fairness.** `ForkJoin`: weak fairness of main and of each thread, i.e. the kernel
schedules runnable threads; no body blocks on another thread, so nothing stronger is
needed. `Call` is not fair: a caller need not call. `Throw` and `SpawnFails` are never forced.
`RagelMap`: weak fairness of each thread's steps. Nothing makes the spin lock fair, and none
is assumed to be: a thread can lose it only as often as the others call. `Artm`: weak fairness
of main and of each processor, as above. `HtmlParse`: the thread is scheduled.
`Pipeline`: weak fairness of the process's steps, which `ForkJoin`'s liveness
(`ImplementsMap`) justifies for the stages. `Features`: the thread is scheduled. The
task bodies are taken to terminate, as they are bounded loops over finite inputs.

Deadlock is checked everywhere; the end of the process is an explicit stuttering step
(`Stopped`, `Finished`).

## 4. What is proved

Every theorem is about every value of the constants: any number of threads, processors,
objects, documents, files, nodes or tokens. Each inductive invariant was checked
with TLC on the module's run before it was proved, with smaller bounds where that is said below.

| Module | Theorem | States |
|---|---|---|
| `ForkJoin_proofs` | `TypeCorrect`, `Invariance`, `NoRace`, `Completeness`, `ThreadsBounded`, `Refinement` | `IInv`, `NoSlotRace`, `CompleteOnReturn`, `ThreadBound`; `Spec => Map!SafeSpec` |
| `Selection_proofs` | `PickedIsInOrder`, `PickedTwice` | what the filtering loops build |
| `Pipeline_proofs` | `TypeCorrect`, `OwnedOnce`, `OnlyExplainedStops`, `TsvAligned`, `OutputIsCorrect` | `TypeOK`, `OneOwner`, `StopsAsExplained`, `TsvRowsAligned`, `OutputCorrect` |
| `Html_proofs` | `CollectsEveryElement`, `CopiesWhatItMeasured`, `MembersSayDocument` | `CollectionExact`, `MeasuredTwice`, `FieldsExact` of `HtmlParse` |
| `Html_proofs` | `DocumentTypes`, `Ownership`, `PathsIdentify` | `TypeOK`, `OwnedOnce`, `PathIdentifiesFile` of `HtmlDocument` |
| `Udpipe_proofs` | `GeneratorTypes`, `NoDanglingRead`, `FeaturesAreExact` | `TypeOK`, `ReaderInOwnString`, `FeaturesExact` of `Features` |
| `Udpipe_proofs` | `TableTypes`, `NoRace`, `EveryReadExact` | `RMTypeOK`, `NoTableRace`, `ReadsExact` of `RagelMap` |
| `Artm_proofs` | `TypeCorrect`, `FrameOutlivesTasks`, `ThreadsJoined`, `CategoriesAreExact`, `ThrowsExplained` | `TypeOK`, `FrameAlive`, `NoThreadOutlivesModel`, `CategoriesExact`, `ThrowsAsExplained` |
| `LogReg_proofs` | `StoresOutside`, `LoadsFile`, `InfersOverWeights` | `StrayExactly`, `LoadExact`, `InferExact` |
| `Tsv_proofs` | `ColumnsGrowTogether`, `RowsHoldDocuments`, `TableIsRectangular` | `ColumnsInStep`, `RowsAreDocuments`, `Rectangular` |

### The arguments

**ForkJoin.** `NoSlotRace` is not inductive: it says nothing of threads that are not busy. `IInv` adds
that a thread is inside its chunk (`ChunksInv`), that chunks are ordered by thread number
(`OrderInv`), which with the former gives the absence of races, that they cover all slots
below `start` (`CoverInv`), that a slot's count is 1 exactly when its thread has passed
it (`VisitInv`), that joined threads are finished and that main joins only when the
loop is over (`JoinInv`), and that `start` is `Len(workers) * Step` with the last chunk
not empty (`CountInv`), from which the bound on threads follows by arithmetic on
`n \div kNumThreads`. `Completeness` combines `CoverInv`, `VisitInv` and `JoinInv`. In
`Refinement`, `Leave` maps to `Apply` because `VisitInv` says the slot's count is still 0;
`Return` maps to `Return` by `Completeness`; all other steps stutter, or are `Call` or
`Terminate`.

**Selection.** `InOrder` and `LastOf` are defined by `CHOOSE`. `PickedIsInOrder` shows that the
enumeration of a finite set of positions exists, is unique, and is what appending one
element at a time builds; `PickedTwice` that filtering a filtered vector is filtering once. The
inductions are by least elements: the set of numbers at which the claim fails is shown to be
empty, because its least element cannot be 0 and cannot be a successor. This needs no theorem with an operator as a
parameter; the other modules use the same lemmas (`Least`).

**Pipeline.** Its `IInv` (30,298 states, folders of up to 2 entries, all tasks) gives each vector of main one value that the folder alone determines
(`Found`, `Recognized`, `Left`, `Kept`, `Generated`, `Flagged`, `LeftFeats`, `News`), by the position `at`. While a stage
runs, a slot has the value of before or after it, as `applied` says; so the order in
which the threads work drops out when the stage returns. `ReasonInv` keeps, for a process
that was terminated, the condition in the code that did it. `GlobErrors`, `CategoriesThrowExactly`,
`PrintThrowsExactly` and `EmptyTable` translate these conditions, which are about vectors, into what
`StopsAsExplained` says about the folder. `OwnedOnce` then counts the occurrences of a file in `Left`
and `Kept`; `OnlyExplainedStops` uses that the language tests of `GenerateFeaturesTask` and `DetectNewsTask` agree, so
`bows_.at` never throws; `OutputIsCorrect` compares the values with the property's own definition by
`PickedTwice`.

**HtmlParse.** `IInv` (85,817 states) says that the node a walk is at is the next number after those
it has visited, that the array holds the elements of the tag among these
(`CollectInv`), and that the characters counted or copied are a difference of prefix sums of the
lengths (`TextInv`). The heart is `NextNodeIs`: climbing by `parent` until a `next` exists, and stopping at the root, reaches the
successor in tree order if that is below the root and the end otherwise. It is
proved from the assumption on the numbering: the nodes above `k` are those from which no edge leads out on the way to
`k` (`Span`), and they form the one chain of parents (`ChainUnique`). `MembersInv` (same run) adds what the loops over the
collections have put into the members; the texts and links are `FlattenSeq`, reasoned about
through the recursive function inside it (`FlattenAppend`).

**HtmlDocument.** The inductive invariant of `Ownership` is `TypeOK /\ OwnedOnce`: the
bound of the numbers by `parsed` makes a newly created document different from all
others, and the "no leak" part needs the uniqueness of owners to know that the
destructor takes only its own. `PathsIdentify` adds `FieldsInv` (57,174 states): a live object that
has a document has its path, its properties and its text from the same file, and one that has
none has no path.

**Features.** `IInv` (2,790 states) has four parts. `ControlInv` says where the thread is. `ReaderInv` says that the
only local string is the one of the running `UpdateUDPipe` and that the reader of the document's
language points into it; outside the loop nothing is said of where the readers point, since `SetText`
comes before the next question, and this is all that `NoDanglingRead` needs. It also says that the
sentences counted are those with forms up to the reader's position. `BagsInv` says which words the bags stand for
(`Reached`): none before a part's loop, those behind the reader in it, and after the text's loop exactly `Counted`,
the words the property asks for. `ResultsInv` says the same of each finished document.
One iteration adds a sentence's words. The loops over words and over a word's features are recursive
functions of the number of steps (`WordsLoop`, `FeatsLoop`), shown to exist and followed step by step by
least elements; each step adds one element to a finite set and 1 to its count
(`UposStep`, `FeatsStep`, `LemmasStep`). That each name has one entry of its own is `NamesDict`; that
two lemmas of a class never share a number, although both classes are numbered together and a lemma
may be listed twice, is `LemmaPositions`. When the loop ends, at the limit or because only sentences without forms
are left, `CountedIs` shows that the words behind the reader are those of the first `SentencesCount` sentences with forms.

**RagelMap.** `RMInv` says that at most one thread is
between `test_and_set` and `clear` and that the flag is set then (`LockInv`); that a completed
call leaves a table that is not empty, that a thread reads only after one, and that while a
thread fills the table no call has been completed (`TableInv`): this is why the unlocked
look-ups never meet a write. `CallInv` bounds the calls. `EveryReadExact` adds `ContentInv` (19,274 states): the
table is what the writes so far have made it, and is empty or complete while nobody fills it.

**Artm.** The heart of `IInv` is `WorkIsAwaited`: while a task is queued or held by a
processor, main is in the poll of that call and the batch manager still counts the task, so
the poll cannot end. It is inductive only with `OneHolder` (a task is in the queue or with one
processor, so that one callback ends all work), `Frame` (what each step of `Transform`
finds in its frame) and `Lives` (a model is constructed once and its processors before
`joining` have exited). `CategoriesAreExact` and `ThrowsExplained` rest on `DataInv` (81,640 states): by
how far the task is, what is in the cache and in the score, and which languages are done. The
poll that ends finds `in_progress` empty, and so both complete.

**LogReg.** The stream and the loop stay in step (`PlaceInv`, in 112,408 states, files of up to 7 tokens): as long as the stream is good,
the tokens consumed are `2 + 3 * pos` and the offset in the triple, and a stream that has
failed has consumed all that is stored. Hence a store is outside exactly when a token behind the announced
triples is read; there the behaviour ends, and what is proved of the members and of `Infer` is about all other files.

**Tsv.** A column holds the cells of the documents added so far, in order, twice if a property is
called like a fixed column (`ResultInv`, in 315,805 states); a line holds the cells of the columns at its number, the
last one those at their ends (`LinesInv`).

### Assumptions

All are on constants, named, and evaluated by TLC in the runs.

* `kNumThreads \in Nat \ {0}`, `Sizes \subseteq Nat`; `NumProcs \in Nat \ {0}`; `MaxDocs \in Nat`;
  `Calls`, `Ascii \in Nat \ {0}`, `Other \in Nat`; `Growth \in Nat \ {0}`, `StartSize` natural: compile-time
  numbers of the code, and the sizes of vectors.
* `CorporaAssumption` (an entry's attributes are Booleans, its length a natural number, its url a set of two
  parts), `InputsAssumption`, `FilesAssumption`, `AddsAssumption`, `SizesAssumption`: the inputs
  are sequences of the records that the modules describe.
* `SizeTAssumption`: `path.size() + 5` is less than 2^64, which holds for any string that fits into memory.
* `DictsAssumption`: the names of `Upostags.txt` and of `Feats.txt` are different and the classes in
  `Lemmas.txt` are `text` and `title`, as in the files under `src/meta/`. (With a name listed twice the vector of a bag
  would be too short for the positions of the names, and for a third class `ReadLemmas` would use a null pointer.)
* `DocsAssumption`: no document has 1,000,000 sentences, the number that stands for all;
  `BoundsAssumption`: the limits are values of `size_t`.
* `DistinctAssumption`: the characters of the additions are different and not ASCII, as in the
  literal list of `ragel_tokenizer.cpp:384-387`.
* `FixedAssumption`: `"text"` and `"related_links"` contain no separator. `DocumentsAssumption`: a
  document has finitely many properties.
* `TreesAssumption`: nodes are numbered in tree order, so a parent comes before its
  children and what lies between them is below the parent. Every finite ordered tree has such a
  numbering; it names the nodes and says nothing about their pointers, which are defined from
  the parents.

### Only model-checked

Liveness, which needs fairness and `ENABLED` and is out of the prover's reach: `CallEnds`, `Ends`, `ChunkDone`,
`AllConstructed`, `Parsed`, and the liveness part of `ImplementsMap` (its safety part is `Refinement`). Every
invariant of every passing run is the subject of a theorem.

## 5. Disagreements between the code and the scripts

* **`news_test` prints no scores.** `tgnews.cpp:52-53` passes `docs` to `GenerateFeatures`
  after `RecognizeLanguage(&docs)` moved every Russian and English document into a vector
  that is dropped. `DumpNewsDetTest` prints only Russian ones, so it prints `null`;
  `utils/test.py:11-14` iterates over the printed dictionary. Run `news_test`.
* **`dump` writes empty rows for Russian and English documents**, for the same reason
  (`tgnews.cpp:57-60`), while `utils/split_langs.py:28-33` selects exactly those rows.
  Run `dump_ruen`. `TsvRowsAligned` shows that the rows that do have a document are right.

Other behaviour worth knowing, stated in properties that hold: up to 15 threads are
started where `kNumThreads` is 8 (`ThreadBound`); `categories` and `top` terminate when one
of the two languages has no news, one file that cannot be opened or one directory that
cannot be iterated over terminates any run, and so does, at the very end, one printed path
or title that is not valid UTF-8 (`StopsAsExplained`); of several articles with one title, `threads` prints the last
(`OutputCorrect`). News of a language none of whose lemmas the topic model knows terminate
`categories` as well (`ThrowsAsExplained`, `StopsAsExplained`). A weights file with more triples than it
announces makes the constructor write behind its vectors, with undefined behaviour (`StrayExactly`), one that is missing
leaves `features_count_` and `bias_` uninitialized (`LoadExact`), and one that announces more features
than the dictionary has makes `Infer` read behind the bag of words (`InferExact`). An HTML
property called `text` or `related_links` shifts that column of the table by one cell per
document (`RowsAreDocuments`). The text of a paragraph inside another one is there twice
(`FieldsExact`).

## 6. Not modelled

* Most of the vendored libraries, which are almost all of the repository's 650,000 lines
  of C and C++: generated tables (encodings, entities, the weights of cld3, twice),
  generated protobuf classes, parsers and tokenizers driven by tables, numeric
  kernels, command-line tools and tests of their own, and code the program never
  calls. They are pure functions of their input whose results are data here; a model
  of them would say nothing about this program. Hence the models cover nearly all of
  the program's own lines and a small share of the repository's.
* Regular expressions, tokenising, tagging, floating point and the numbers of the topic model.
* JSON layout, what of it has been written when the serializer throws, and the timing output of `features`.
* `news_top.hpp` (unused stub), `GetRuEnDocs` (unused), the Python scripts.
* Missing command-line arguments. Missing or damaged data files: UDPipe's models, the site lists
  and the dictionaries are taken as installed, and `Pipeline` takes all of them so (the weights and BigARTM's
  files may be missing or wrong in `LogReg` and `Artm`). `StopsAsExplained` is about a process
  with its data files in place.
* Exhaustion of memory or of the stack other than the failing read, the failing thread creation and the failing
  `resize` of the weights. This includes the recursion of `std::regex` on a very long url
  (`news_det.hpp:37-38`) and the limits that `boost::regex` puts on a match (`features.hpp:73-76`).
* Changes to the folder while a run reads it.
* That `Lemmas.txt` and the dictionary of the topic model number the lemmas alike
  (`news_categories.hpp:62`): the dictionary and the topic model are not in the repository.

## 7. State of the project

The plan was to model the program's own code first (`ParallelMap`, `ForkJoin`, `Pipeline`, `Features`,
`HtmlDocument`), then the loaders, the table and the parts of the libraries it depends on (`LogReg`, `Tsv`,
`HtmlParse`, `RagelMap`, `Artm`), and to prove each safety property that the runs check. All of this is done.
What would come next depends on the code: a body for `news_top.hpp`, and the topic model's
dictionary, with which the numbering of the lemmas could be stated across `Features` and `Artm`.
