-------------------------------- MODULE Artm --------------------------------
(***************************************************************************)
(* GetCategories (news_categories.hpp) and the part of BigARTM it runs on: *)
(* one master model per language, each with its own queue and its own      *)
(* processor threads, which poll the queue from the construction of the    *)
(* model to its destruction.                                               *)
(*                                                                         *)
(* ARTM::AddCategories hands one batch, the news of a language, to         *)
(* Transform.  Transform keeps the BatchManager and the CacheManager that  *)
(* the processor works on in its own stack frame, enqueues a pointer to    *)
(* them, polls the BatchManager, and reads the result from the CacheManager*)
(* before both are destroyed.                                              *)
(*                                                                         *)
(* A document is its language, whether some lemma of it is in the model,   *)
(* and the topics whose inferred weight is above 0.3.  The single task of  *)
(* a call is named by its language.                                        *)
(***************************************************************************)
EXTENDS Integers, Sequences, FiniteSets, SequencesExt, Selection

CONSTANTS
  NumProcs,     \* std::thread::hardware_concurrency
  Categories,   \* the category names of GetCategories
  Inputs,       \* the vectors of news that GetCategories may be given
  ModelFiles    \* the contents of models/<lang>, for each language

ASSUME NumProcsAssumption == NumProcs \in Nat \ {0}
ASSUME InputsAssumption == \A s \in Inputs : Len(s) \in Nat /\ DOMAIN s = 1 .. Len(s)

VARIABLES
  documents, modelFiles,      \* the input
  pc, lang,                   \* main: its next step, the language it is at
  model,                      \* language -> none, live, stopping or destroyed
  proc, is_stopping,          \* thread -> its next step; its flag
  joining,                    \* the processor the destructor is at
  queue,                      \* language -> the queued tasks
  alive,                      \* which objects of Transform's frame exist
  in_progress,                \* BatchManager
  cache,                      \* CacheManager: the entry of the batch, or empty
  score,                      \* language -> the ItemsProcessed score
  theta,                      \* the result of Transform
  cat2doc

inputVars == <<documents, modelFiles>>
threadVars == <<proc, is_stopping>>
frameVars == <<alive, in_progress, cache>>
mainVars == <<pc, lang, model, joining, theta, cat2doc>>
vars == <<inputVars, mainVars, threadVars, frameVars, queue, score>>

-----------------------------------------------------------------------------
Langs == <<"ru", "en">>
Lang == {"ru", "en"}
Procs == 1 .. NumProcs
Threads == Lang \X Procs

\* The steps at which a processor holds a task, and with it pointers into
\* Transform's frame.
Working == {"infer", "cache", "score", "callback"}
Steps == Working \cup {"none", "check", "pop", "exited"}

ZeroScore == [batches |-> 0, items |-> 0, inEffect |-> 0]

Lang2Docs(l) == Picked(documents, {i \in DOMAIN documents : documents[i].lang = l})

\* Every topic but the last one stands for a category.
IsCategory(l, t) == t < Len(modelFiles[l].topics)

\* Mutant: only the first item is looked at.
InEffectFirst(l) == IF Lang2Docs(l)[1].known THEN 1 ELSE 0

\* The weight of the tokens that the model knows, by the items that have one.
InEffect(l) == Cardinality({i \in DOMAIN Lang2Docs(l) : Lang2Docs(l)[i].known})

-----------------------------------------------------------------------------
\* Mutant: the task is queued before the BatchManager knows it.
AfterPushFirst == [add |-> "push", push |-> "register", register |-> "wait", wait |-> "theta"]

\* The order of the steps of a call of Transform.
After == [add |-> "register", register |-> "push", push |-> "wait", wait |-> "theta"]

\* artm::MasterModel: Reconfigure starts the processors.
Construct ==
  /\ pc = "construct"
  /\ model' = [model EXCEPT ![lang] = "live"]
  /\ proc' = [t \in Threads |-> IF t[1] = lang THEN "check" ELSE proc[t]]
  /\ pc' = "import"
  /\ UNCHANGED <<inputVars, lang, joining, theta, cat2doc, is_stopping, frameVars, queue, score>>

\* A thread of a processor cannot be created: the processors started before it
\* are joined, and the error comes back as an exception of MasterModel.
ConstructFails ==
  /\ pc = "construct"
  /\ pc' = "no_thread"
  /\ UNCHANGED <<inputVars, lang, model, joining, theta, cat2doc, threadVars, frameVars, queue, score>>

ImportThrows == ~ modelFiles[lang].present

\* ImportModel, ImportDictionary and GetDictionary; with both models in
\* place, the maps of GetCategories.
Import ==
  /\ pc = "import"
  /\ ~ ImportThrows
  /\ \/ lang = "ru" /\ lang' = "en" /\ pc' = "construct"
     \/ lang = "en" /\ lang' = "ru" /\ pc' = "add"
  /\ UNCHANGED <<inputVars, model, joining, theta, cat2doc, threadVars, frameVars, queue, score>>

\* lang2docs.at(lang)
AddThrows == Lang2Docs(lang) = << >>

\* AddCategories up to the objects of the frame: the score of an earlier call
\* is cleared.
AddCategories ==
  /\ pc = "add"
  /\ ~ AddThrows
  /\ score' = [score EXCEPT ![lang] = ZeroScore]
  /\ alive' = {"batch_manager", "cache_manager"}
  /\ in_progress' = {} /\ cache' = << >>
  /\ pc' = After.add
  /\ UNCHANGED <<inputVars, lang, model, joining, theta, cat2doc, threadVars, queue>>

\* createProcessorInput: BatchManager::Add.
Register ==
  /\ pc = "register"
  /\ in_progress' = in_progress \cup {lang}
  /\ pc' = After.register
  /\ UNCHANGED <<inputVars, lang, model, joining, theta, cat2doc, threadVars, alive, cache, queue, score>>

Push ==
  /\ pc = "push"
  /\ queue' = [queue EXCEPT ![lang] = Append(@, lang)]
  /\ pc' = After.push
  /\ UNCHANGED <<inputVars, lang, model, joining, theta, cat2doc, threadVars, frameVars, score>>

\* Mutant: main does not wait.
IsEverythingProcessedAlways == TRUE

IsEverythingProcessed == in_progress = {}

\* The poll that ends the wait; the other ones leave everything as it is.
Wait ==
  /\ pc = "wait"
  /\ IsEverythingProcessed
  /\ pc' = After.wait
  /\ UNCHANGED <<inputVars, lang, model, joining, theta, cat2doc, threadVars, frameVars, queue, score>>

\* RequestThetaMatrix, and RequestProcessBatchesImpl returns.
GetTheta ==
  /\ pc = "theta"
  /\ theta' = cache
  /\ alive' = alive \ {"cache_manager"}
  /\ cache' = << >>
  /\ pc' = "validate"
  /\ UNCHANGED <<inputVars, lang, model, joining, cat2doc, threadVars, in_progress, queue, score>>

\* ValidateProcessedItems.  Its test of the weight of all tokens adds nothing:
\* items_processed.cc:41-42 adds the weight of a known token to both sums.
ValidateThrows ==
  score[lang].batches = 0 \/ score[lang].items = 0 \/ score[lang].inEffect = 0

\* Transform returns.
Validate ==
  /\ pc = "validate"
  /\ ~ ValidateThrows
  /\ alive' = {}
  /\ pc' = "collect"
  /\ UNCHANGED <<inputVars, lang, model, joining, theta, cat2doc, threadVars, in_progress, cache, queue, score>>

\* cat2doc->at(topic name)
CollectThrows ==
  \E i \in DOMAIN theta : \E t \in theta[i] :
    IsCategory(lang, t) /\ modelFiles[lang].topics[t] \notin Categories

\* The documents, by position in the batch, that the weights put in category c.
Selected(c) ==
  Picked(Lang2Docs(lang), {i \in DOMAIN theta : \E t \in theta[i] :
                             IsCategory(lang, t) /\ modelFiles[lang].topics[t] = c})

\* The loops after Transform; the models are destroyed with lang2model when
\* GetCategories returns.
Collect ==
  /\ pc = "collect"
  /\ ~ CollectThrows
  /\ cat2doc' = [c \in Categories |-> cat2doc[c] \o Selected(c)]
  /\ \/ lang = "ru" /\ lang' = "en" /\ pc' = "add"
     \/ lang = "en" /\ lang' = lang /\ pc' = "destroy"
  /\ UNCHANGED <<inputVars, model, joining, theta, threadVars, frameVars, queue, score>>

-----------------------------------------------------------------------------
\* ~MasterModel, in the order of an unordered_map: the vector of processors
\* is the first member of the instance to be destroyed.
Dispose(l) ==
  /\ pc = "destroy"
  /\ model[l] = "live"
  /\ model' = [model EXCEPT ![l] = "stopping"]
  /\ lang' = l /\ joining' = 1
  /\ pc' = "stop"
  /\ UNCHANGED <<inputVars, theta, cat2doc, threadVars, frameVars, queue, score>>

\* ~Processor
Stop ==
  /\ pc = "stop"
  /\ is_stopping' = [is_stopping EXCEPT ![<<lang, joining>>] = TRUE]
  /\ pc' = "join"
  /\ UNCHANGED <<inputVars, lang, model, joining, theta, cat2doc, proc, frameVars, queue, score>>

\* Mutant: a thread that was told to stop is not joined.
JoinedDetached == is_stopping[<<lang, joining>>]

Joined == proc[<<lang, joining>>] = "exited"

\* Mutant: one processor too many.
MoreProcessorsInclusive == joining <= NumProcs

MoreProcessors == joining < NumProcs

Join ==
  /\ pc = "join"
  /\ Joined
  /\ \/ MoreProcessors /\ joining' = joining + 1 /\ pc' = "stop" /\ UNCHANGED model
     \/ /\ ~ MoreProcessors /\ UNCHANGED joining
        /\ model' = [model EXCEPT ![lang] = "destroyed"]
        /\ pc' = IF \E l \in Lang : model'[l] = "live" THEN "destroy" ELSE "returned"
  /\ UNCHANGED <<inputVars, lang, theta, cat2doc, threadVars, frameVars, queue, score>>

\* An error code of the C interface is thrown as an exception, which nobody
\* catches: the process is terminated.
Throws ==
  /\ \/ pc = "import" /\ ImportThrows
     \/ pc = "add" /\ AddThrows
     \/ pc = "validate" /\ ValidateThrows
     \/ pc = "collect" /\ CollectThrows
  /\ pc' = "thrown"
  /\ UNCHANGED <<inputVars, lang, model, joining, theta, cat2doc, threadVars, frameVars, queue, score>>

-----------------------------------------------------------------------------
\* Processor::ThreadFunction: processor t[2] of the model of t[1].

Running == pc \notin {"thrown", "no_thread"}

CheckStopping(t) ==
  /\ proc[t] = "check"
  /\ proc' = [proc EXCEPT ![t] = IF is_stopping[t] THEN "exited" ELSE "pop"]
  /\ UNCHANGED <<inputVars, mainVars, is_stopping, frameVars, queue, score>>

\* An empty queue: the processor sleeps and starts over.
TryPop(t) ==
  /\ proc[t] = "pop"
  /\ IF queue[t[1]] = << >>
     THEN /\ proc' = [proc EXCEPT ![t] = "check"]
          /\ UNCHANGED queue
     ELSE /\ proc' = [proc EXCEPT ![t] = "infer"]
          /\ queue' = [queue EXCEPT ![t[1]] = Tail(@)]
  /\ UNCHANGED <<inputVars, mainVars, is_stopping, frameVars, score>>

\* A batch or a matrix without tokens is skipped: the destructor of the
\* callback object still runs.
Infer(t) ==
  /\ proc[t] = "infer"
  /\ proc' = [proc EXCEPT ![t] = IF modelFiles[t[1]].tokens THEN "cache" ELSE "callback"]
  /\ UNCHANGED <<inputVars, mainVars, is_stopping, frameVars, queue, score>>

\* Mutant: the weights are stored from the last document to the first.
ThetaEntryReversed(l) == Reverse([i \in DOMAIN Lang2Docs(l) |-> Lang2Docs(l)[i].above])

\* CreateThetaCacheEntry: the weights by item of the batch.
ThetaEntry(l) == [i \in DOMAIN Lang2Docs(l) |-> Lang2Docs(l)[i].above]

UpdateCacheEntry(t) ==
  /\ proc[t] = "cache"
  /\ cache' = ThetaEntry(t[1])
  /\ proc' = [proc EXCEPT ![t] = "score"]
  /\ UNCHANGED <<inputVars, mainVars, is_stopping, alive, in_progress, queue, score>>

\* ScoreManager::Append of the instance.
AppendScore(t) ==
  /\ proc[t] = "score"
  /\ score' = [score EXCEPT ![t[1]] =
                 [batches |-> @.batches + 1, items |-> @.items + Len(Lang2Docs(t[1])),
                  inEffect |-> @.inEffect + InEffect(t[1])]]
  /\ proc' = [proc EXCEPT ![t] = "callback"]
  /\ UNCHANGED <<inputVars, mainVars, is_stopping, frameVars, queue>>

\* ~call_on_destruction: BatchManager::Callback.
Callback(t) ==
  /\ proc[t] = "callback"
  /\ in_progress' = in_progress \ {t[1]}
  /\ proc' = [proc EXCEPT ![t] = "check"]
  /\ UNCHANGED <<inputVars, mainVars, is_stopping, alive, cache, queue, score>>

-----------------------------------------------------------------------------
Init ==
  /\ documents \in Inputs /\ modelFiles \in ModelFiles
  /\ pc = "construct" /\ lang = "ru" /\ joining = 1
  /\ model = [l \in Lang |-> "none"]
  /\ proc = [t \in Threads |-> "none"]
  /\ is_stopping = [t \in Threads |-> FALSE]
  /\ queue = [l \in Lang |-> << >>]
  /\ alive = {} /\ in_progress = {} /\ cache = << >>
  /\ score = [l \in Lang |-> ZeroScore]
  /\ theta = << >>
  /\ cat2doc = [c \in Categories |-> << >>]

Main ==
  \/ Construct \/ ConstructFails \/ Import \/ AddCategories \/ Register \/ Push \/ Wait
  \/ GetTheta \/ Validate \/ Collect \/ Stop \/ Join \/ Throws
  \/ \E l \in Lang : Dispose(l)

Processor(t) ==
  /\ Running
  /\ \/ CheckStopping(t) \/ TryPop(t) \/ Infer(t)
     \/ UpdateCacheEntry(t) \/ AppendScore(t) \/ Callback(t)

Finished == pc \in {"returned", "thrown", "no_thread"} /\ UNCHANGED vars

Next == Main \/ (\E t \in Threads : Processor(t)) \/ Finished

Spec == Init /\ [][Next]_vars

\* The scheduler runs every thread.
FairSpec == Spec /\ WF_vars(Main) /\ \A t \in Threads : WF_vars(Processor(t))

-----------------------------------------------------------------------------
\* Type invariant.
TypeOK ==
  /\ documents \in Inputs /\ modelFiles \in ModelFiles
  /\ pc \in {"construct", "import", "add", "register", "push", "wait", "theta", "validate",
             "collect", "destroy", "stop", "join", "returned", "thrown", "no_thread"}
  /\ lang \in Lang /\ joining \in Procs
  /\ model \in [Lang -> {"none", "live", "stopping", "destroyed"}]
  /\ proc \in [Threads -> Steps]
  /\ is_stopping \in [Threads -> BOOLEAN]
  /\ queue \in [Lang -> {<< >>} \cup {<<l>> : l \in Lang}]
  /\ alive \in SUBSET {"batch_manager", "cache_manager"}
  /\ in_progress \in SUBSET Lang

\* "Since cache_manager lives on stack it will be destroyed once we return
\* from this function.  Therefore, no pointers to cache_manager should exist
\* upon return from RequestProcessBatchesImpl" (master_component.cc:797-799):
\* a task that is queued or that a processor holds belongs to the call of
\* Transform under way, and both objects of its frame exist.
FrameAlive ==
  \A l \in Lang :
    (queue[l] # << >> \/ \E p \in Procs : proc[<<l, p>>] \in Working) =>
      /\ lang = l /\ pc \in {"register", "push", "wait"}
      /\ alive = {"batch_manager", "cache_manager"}

\* No processor reaches for the queue, the scores or the models of an
\* instance that has been destroyed: processors_ is declared last
\* (instance.h:83-99), and its destructor joins every thread.
NoThreadOutlivesModel ==
  \A l \in Lang : model[l] = "destroyed" => \A p \in Procs : proc[<<l, p>>] = "exited"

\* The articles the weights of the model put in category c.
RefCategory(l, c) ==
  Picked(documents, {i \in DOMAIN documents :
                       /\ documents[i].lang = l
                       /\ \E t \in documents[i].above :
                            t < Len(modelFiles[l].topics) /\ modelFiles[l].topics[t] = c})

\* When GetCategories returns, each category lists its articles by language
\* and, within a language, in the order of the input: the weights that a
\* processor stored in the frame's cache have all arrived, and stand at the
\* positions of their documents.
CategoriesExact ==
  pc = "returned" =>
    \A c \in Categories : cat2doc[c] = RefCategory("ru", c) \o RefCategory("en", c)

Categorised(l) ==
  /\ modelFiles[l].present
  /\ modelFiles[l].tokens
  /\ \E i \in DOMAIN documents : documents[i].lang = l /\ documents[i].known
  /\ \A i \in DOMAIN documents : \A t \in documents[i].above :
       documents[i].lang = l /\ t < Len(modelFiles[l].topics)
         => modelFiles[l].topics[t] \in Categories

\* Unless a thread cannot be created, GetCategories throws exactly when the
\* files or the news of a language are not what Transform needs, whatever the
\* threads do: in particular the score that ValidateProcessedItems reads
\* (master_component.cc:1051-1073) has been appended before the BatchManager
\* lets main proceed.
ThrowsAsExplained ==
  /\ pc = "thrown" => \E l \in Lang : ~ Categorised(l)
  /\ pc = "returned" => \A l \in Lang : Categorised(l)

\* GetCategories comes to an end: no callback is lost, and every processor
\* sees its flag.
Ends == <>(pc \in {"returned", "thrown", "no_thread"})
=============================================================================
