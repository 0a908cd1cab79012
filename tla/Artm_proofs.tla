----------------------------- MODULE Artm_proofs -----------------------------
(***************************************************************************)
(* For every number of processors and every input: a processor never works *)
(* on the frame of a call of Transform that has returned, and never        *)
(* outlives the model it belongs to (IInv, about the threads); and what    *)
(* GetCategories returns or throws depends on the input alone (DataInv,    *)
(* about what the frame holds by how far the task is, inductive only       *)
(* relative to IInv).                                                      *)
(***************************************************************************)
EXTENDS Artm, Selection_proofs, TLAPS

-----------------------------------------------------------------------------
\* The task of l is queued or held by a processor.
Work(l) == queue[l] # << >> \/ \E p \in Procs : proc[<<l, p>>] \in Working

\* There is work only while main waits for it, and the BatchManager knows.
WorkIsAwaited ==
  \A l \in Lang : Work(l) => lang = l /\ pc = "wait" /\ l \in in_progress

\* The task of l is in one place.
OneHolder ==
  \A l \in Lang : \A p \in Procs :
    proc[<<l, p>>] \in Working =>
      /\ queue[l] = << >>
      /\ \A q \in Procs : proc[<<l, q>>] \in Working => q = p

\* What the steps of Transform find in its frame.
Frame ==
  /\ pc \in {"register", "push", "wait"} => alive = {"batch_manager", "cache_manager"}
  /\ pc = "register" => in_progress = {}
  /\ pc = "push" => in_progress = {lang}

\* A model is constructed once, and destroyed with its processors.
Lives ==
  /\ pc = "construct" => model[lang] = "none"
  /\ pc \in {"construct", "import"} /\ lang = "ru" => model["en"] = "none"
  /\ pc \in {"stop", "join"} =>
       model[lang] = "stopping" /\ \A p \in Procs : p < joining => proc[<<lang, p>>] = "exited"

\* The inductive invariant.
IInv ==
  /\ TypeOK /\ WorkIsAwaited /\ OneHolder /\ Frame /\ Lives /\ NoThreadOutlivesModel

-----------------------------------------------------------------------------
\* The invariant holds before the first model is constructed.
LEMMA InitIInv == Init => IInv
<1> SUFFICES ASSUME Init PROVE IInv
  OBVIOUS
<1> USE DEF Init
<1>1. TypeOK
  BY NumProcsAssumption DEF TypeOK, Lang, Procs, Steps, Threads
<1>2. WorkIsAwaited /\ OneHolder
  BY DEF WorkIsAwaited, OneHolder, Work, Working, Lang, Threads
<1>3. Frame /\ Lives /\ NoThreadOutlivesModel
  BY DEF Frame, Lives, NoThreadOutlivesModel, Lang, Procs
<1> QED
  BY <1>1, <1>2, <1>3 DEF IInv

-----------------------------------------------------------------------------
\* Every step of main preserves the invariant.
LEMMA ConstructStep == IInv /\ Construct => IInv'
<1> SUFFICES ASSUME IInv, Construct PROVE IInv'
  OBVIOUS
<1>0. TypeOK /\ WorkIsAwaited /\ OneHolder /\ Lives /\ NoThreadOutlivesModel
  BY DEF IInv
<1>1. /\ pc = "construct" /\ pc' = "import" /\ lang' = lang
      /\ model' = [model EXCEPT ![lang] = "live"]
      /\ proc' = [t \in Threads |-> IF t[1] = lang THEN "check" ELSE proc[t]]
      /\ queue' = queue /\ in_progress' = in_progress
      /\ model[lang] = "none"
  BY <1>0 DEF Construct, frameVars, Lives
<1>2. \A l \in Lang, p \in Procs :
        proc'[<<l, p>>] = IF l = lang THEN "check" ELSE proc[<<l, p>>]
  BY <1>1 DEF Threads
<1>3. TypeOK'
  BY <1>0, <1>1 DEF Construct, TypeOK, inputVars, frameVars, Steps, Threads
<1>4. ASSUME NEW l \in Lang PROVE ~ Work(l)'
  <2>1. queue[l] = << >> /\ \A p \in Procs : proc[<<l, p>>] \notin Working
    BY <1>0, <1>1 DEF WorkIsAwaited, Work
  <2>2. "check" \notin Working
    BY DEF Working
  <2>3. \A p \in Procs : proc'[<<l, p>>] \notin Working
    BY <1>2, <2>1, <2>2
  <2> QED
    BY <1>1, <2>1, <2>3 DEF Work
<1>5. WorkIsAwaited' /\ OneHolder'
  BY <1>4 DEF WorkIsAwaited, OneHolder, Work
<1>6. Lives' /\ NoThreadOutlivesModel'
  BY <1>0, <1>1, <1>2 DEF TypeOK, Lives, NoThreadOutlivesModel, Lang
<1> QED
  BY <1>1, <1>3, <1>5, <1>6 DEF IInv, Frame

\* No thread can be created: nothing changes but that main stops.
LEMMA ConstructFailsStep == IInv /\ ConstructFails => IInv'
<1> SUFFICES ASSUME IInv, ConstructFails PROVE IInv'
  OBVIOUS
<1>0. TypeOK /\ WorkIsAwaited /\ OneHolder /\ Lives /\ NoThreadOutlivesModel
  BY DEF IInv
<1>1. /\ pc = "construct" /\ pc' = "no_thread" /\ queue' = queue /\ proc' = proc /\ model' = model
      /\ lang' = lang /\ in_progress' = in_progress /\ joining' = joining
  BY DEF ConstructFails, threadVars, frameVars
<1>2. TypeOK'
  BY <1>0, <1>1 DEF ConstructFails, TypeOK, inputVars, threadVars, frameVars
<1>3. \A l \in Lang : ~ Work(l)'
  BY <1>0, <1>1 DEF WorkIsAwaited, Work
<1>4. WorkIsAwaited' /\ OneHolder'
  BY <1>3 DEF WorkIsAwaited, OneHolder, Work
<1>5. Lives' /\ NoThreadOutlivesModel'
  BY <1>0, <1>1 DEF TypeOK, Lives, NoThreadOutlivesModel
<1> QED
  BY <1>1, <1>2, <1>4, <1>5 DEF IInv, Frame

\* The files of a model are read while no task exists.
LEMMA ImportStep == IInv /\ Import => IInv'
<1> SUFFICES ASSUME IInv, Import PROVE IInv'
  OBVIOUS
<1>0. TypeOK /\ WorkIsAwaited /\ OneHolder /\ Lives /\ NoThreadOutlivesModel
  BY DEF IInv
<1>1. /\ pc = "import" /\ queue' = queue /\ proc' = proc /\ model' = model
      /\ in_progress' = in_progress /\ joining' = joining
      /\ \/ lang = "ru" /\ lang' = "en" /\ pc' = "construct"
         \/ lang = "en" /\ lang' = "ru" /\ pc' = "add"
  BY DEF Import, threadVars, frameVars
<1>2. TypeOK'
  BY <1>0, <1>1 DEF Import, TypeOK, inputVars, threadVars, frameVars, Lang
<1>3. \A l \in Lang : ~ Work(l)'
  BY <1>0, <1>1 DEF WorkIsAwaited, Work
<1>4. WorkIsAwaited' /\ OneHolder'
  BY <1>3 DEF WorkIsAwaited, OneHolder, Work
<1>5. Lives' /\ NoThreadOutlivesModel'
  BY <1>0, <1>1 DEF Lives, NoThreadOutlivesModel
<1> QED
  BY <1>1, <1>2, <1>4, <1>5 DEF IInv, Frame

\* Transform up to the end of its wait: the task is known before it is queued
\* (master_component.cc:831-832, 865-868).
LEMMA TransformSteps == IInv /\ (AddCategories \/ Register \/ Push \/ Wait) => IInv'
<1> SUFFICES ASSUME IInv, AddCategories \/ Register \/ Push \/ Wait PROVE IInv'
  OBVIOUS
<1>0. TypeOK /\ WorkIsAwaited /\ OneHolder /\ Frame /\ NoThreadOutlivesModel
  BY DEF IInv
<1>a. CASE AddCategories
  <2>1. /\ pc = "add" /\ pc' = "register" /\ queue' = queue /\ proc' = proc /\ model' = model
        /\ lang' = lang /\ in_progress' = {} /\ alive' = {"batch_manager", "cache_manager"}
    BY <1>a DEF AddCategories, After, threadVars
  <2>2. TypeOK'
    BY <1>0, <1>a, <2>1 DEF AddCategories, TypeOK, inputVars, threadVars
  <2>3. \A l \in Lang : ~ Work(l)'
    BY <1>0, <2>1 DEF WorkIsAwaited, Work
  <2>4. WorkIsAwaited' /\ OneHolder'
    BY <2>3 DEF WorkIsAwaited, OneHolder, Work
  <2> QED
    BY <1>0, <2>1, <2>2, <2>4 DEF IInv, Frame, Lives, NoThreadOutlivesModel
<1>b. CASE Register
  <2>1. /\ pc = "register" /\ pc' = "push" /\ queue' = queue /\ proc' = proc /\ model' = model
        /\ lang' = lang /\ in_progress' = in_progress \cup {lang} /\ alive' = alive
    BY <1>b DEF Register, After, threadVars
  <2>2. TypeOK'
    BY <1>0, <1>b, <2>1 DEF Register, TypeOK, inputVars, threadVars
  <2>3. \A l \in Lang : ~ Work(l)'
    BY <1>0, <2>1 DEF WorkIsAwaited, Work
  <2>4. WorkIsAwaited' /\ OneHolder'
    BY <2>3 DEF WorkIsAwaited, OneHolder, Work
  <2> QED
    BY <1>0, <2>1, <2>2, <2>4 DEF IInv, Frame, Lives, NoThreadOutlivesModel
<1>c. CASE Push
  <2>1. /\ pc = "push" /\ pc' = "wait" /\ proc' = proc /\ model' = model /\ lang' = lang
        /\ queue' = [queue EXCEPT ![lang] = Append(@, lang)]
        /\ in_progress' = in_progress /\ alive' = alive
    BY <1>c DEF Push, After, threadVars, frameVars
  <2>2. \A l \in Lang : queue[l] = << >> /\ \A p \in Procs : proc[<<l, p>>] \notin Working
    BY <1>0, <2>1 DEF WorkIsAwaited, Work
  <2>3. queue' = [queue EXCEPT ![lang] = <<lang>>]
    <3>1. lang \in Lang /\ queue[lang] = << >>
      BY <1>0, <2>2 DEF TypeOK
    <3>2. Append(<< >>, lang) = <<lang>>
      OBVIOUS
    <3> QED
      BY <2>1, <3>1, <3>2
  <2>4. TypeOK'
    <3>1. queue' \in [Lang -> {<< >>} \cup {<<l>> : l \in Lang}]
      BY <1>0, <2>3 DEF TypeOK
    <3> QED
      BY <1>0, <1>c, <2>1, <3>1 DEF Push, TypeOK, inputVars, threadVars, frameVars
  <2>5. WorkIsAwaited'
    BY <1>0, <2>1, <2>2, <2>3 DEF TypeOK, WorkIsAwaited, Work, Frame
  <2>6. OneHolder'
    BY <2>1, <2>2 DEF OneHolder
  <2> QED
    BY <1>0, <2>1, <2>4, <2>5, <2>6 DEF IInv, Frame, Lives, NoThreadOutlivesModel
<1>d. CASE Wait
  <2>1. /\ pc = "wait" /\ pc' = "theta" /\ in_progress = {} /\ queue' = queue /\ proc' = proc
        /\ model' = model /\ lang' = lang /\ in_progress' = in_progress
    BY <1>d DEF Wait, After, IsEverythingProcessed, threadVars, frameVars
  <2>2. TypeOK'
    BY <1>0, <1>d, <2>1 DEF Wait, TypeOK, inputVars, threadVars, frameVars
  <2>3. \A l \in Lang : ~ Work(l)'
    BY <1>0, <2>1 DEF WorkIsAwaited, Work
  <2>4. WorkIsAwaited' /\ OneHolder'
    BY <2>3 DEF WorkIsAwaited, OneHolder, Work
  <2> QED
    BY <1>0, <2>1, <2>2, <2>4 DEF IInv, Frame, Lives, NoThreadOutlivesModel
<1> QED
  BY <1>a, <1>b, <1>c, <1>d

\* Transform and AddCategories after the wait; no task is left.
LEMMA ResultSteps ==
  IInv /\ (GetTheta \/ Validate \/ Collect \/ Throws) => IInv'
<1> SUFFICES ASSUME IInv, GetTheta \/ Validate \/ Collect \/ Throws PROVE IInv'
  OBVIOUS
<1>0. TypeOK /\ WorkIsAwaited /\ OneHolder /\ NoThreadOutlivesModel
  BY DEF IInv
<1>1. /\ proc' = proc /\ queue' = queue /\ model' = model /\ in_progress' = in_progress
      /\ is_stopping' = is_stopping /\ joining' = joining
      /\ documents' = documents /\ modelFiles' = modelFiles
      /\ lang' \in Lang /\ alive' \subseteq alive
      /\ pc # "wait" /\ pc' \in {"validate", "collect", "add", "destroy", "thrown"}
  BY <1>0 DEF GetTheta, Validate, Collect, Throws, inputVars, threadVars, frameVars, TypeOK, Lang
<1>2. TypeOK'
  BY <1>0, <1>1 DEF TypeOK
<1>3. \A l \in Lang : ~ Work(l)'
  BY <1>0, <1>1 DEF WorkIsAwaited, Work
<1>4. WorkIsAwaited' /\ OneHolder'
  BY <1>3 DEF WorkIsAwaited, OneHolder, Work
<1> QED
  BY <1>0, <1>1, <1>2, <1>4 DEF IInv, Frame, Lives, NoThreadOutlivesModel

\* The destructor of a model begins.
LEMMA DisposeStep == ASSUME NEW l \in Lang PROVE IInv /\ Dispose(l) => IInv'
<1> SUFFICES ASSUME IInv, Dispose(l) PROVE IInv'
  OBVIOUS
<1>0. TypeOK /\ WorkIsAwaited /\ OneHolder /\ NoThreadOutlivesModel
  BY DEF IInv
<1>1. /\ pc = "destroy" /\ pc' = "stop" /\ model' = [model EXCEPT ![l] = "stopping"]
      /\ lang' = l /\ joining' = 1
      /\ proc' = proc /\ queue' = queue /\ in_progress' = in_progress
  BY DEF Dispose, threadVars, frameVars
<1>2. TypeOK'
  BY <1>0, <1>1, NumProcsAssumption DEF Dispose, TypeOK, inputVars, threadVars, frameVars, Procs
<1>3. \A k \in Lang : ~ Work(k)'
  BY <1>0, <1>1 DEF WorkIsAwaited, Work
<1>4. WorkIsAwaited' /\ OneHolder'
  BY <1>3 DEF WorkIsAwaited, OneHolder, Work
<1>5. Lives' /\ NoThreadOutlivesModel'
  BY <1>0, <1>1 DEF TypeOK, Lives, NoThreadOutlivesModel, Procs
<1> QED
  BY <1>1, <1>2, <1>4, <1>5 DEF IInv, Frame

\* A processor is told to stop.
LEMMA StopStep == IInv /\ Stop => IInv'
<1> SUFFICES ASSUME IInv, Stop PROVE IInv'
  OBVIOUS
<1>0. TypeOK /\ WorkIsAwaited /\ OneHolder /\ Lives /\ NoThreadOutlivesModel
  BY DEF IInv
<1>1. /\ pc = "stop" /\ pc' = "join" /\ model' = model /\ lang' = lang /\ joining' = joining
      /\ is_stopping' = [is_stopping EXCEPT ![<<lang, joining>>] = TRUE]
      /\ proc' = proc /\ queue' = queue /\ in_progress' = in_progress
  BY DEF Stop, frameVars
<1>2. TypeOK'
  BY <1>0, <1>1 DEF Stop, TypeOK, inputVars, frameVars
<1>3. \A k \in Lang : ~ Work(k)'
  BY <1>0, <1>1 DEF WorkIsAwaited, Work
<1>4. WorkIsAwaited' /\ OneHolder'
  BY <1>3 DEF WorkIsAwaited, OneHolder, Work
<1> QED
  BY <1>0, <1>1, <1>2, <1>4 DEF IInv, Frame, Lives, NoThreadOutlivesModel

\* A processor is joined; the last one ends the life of its model.
LEMMA JoinStep == IInv /\ Join => IInv'
<1> SUFFICES ASSUME IInv, Join PROVE IInv'
  OBVIOUS
<1>0. TypeOK /\ WorkIsAwaited /\ OneHolder /\ Lives /\ NoThreadOutlivesModel
  BY DEF IInv
<1>1. /\ pc = "join" /\ lang' = lang /\ proc[<<lang, joining>>] = "exited"
      /\ proc' = proc /\ queue' = queue /\ in_progress' = in_progress
      /\ joining \in 1 .. NumProcs /\ NumProcs \in Nat
  BY <1>0, NumProcsAssumption DEF Join, Joined, threadVars, frameVars, TypeOK, Procs
<1>2. \/ joining < NumProcs /\ joining' = joining + 1 /\ pc' = "stop" /\ model' = model
      \/ /\ joining = NumProcs /\ joining' = joining /\ pc' \in {"destroy", "returned"}
         /\ model' = [model EXCEPT ![lang] = "destroyed"]
  BY <1>1 DEF Join, MoreProcessors
<1>3. TypeOK'
  BY <1>0, <1>1, <1>2 DEF Join, TypeOK, inputVars, threadVars, frameVars, Procs
<1>4. \A k \in Lang : ~ Work(k)'
  BY <1>0, <1>1 DEF WorkIsAwaited, Work
<1>5. WorkIsAwaited' /\ OneHolder'
  BY <1>4 DEF WorkIsAwaited, OneHolder, Work
<1>6. \A p \in Procs : p <= joining => proc[<<lang, p>>] = "exited"
  BY <1>0, <1>1 DEF Lives, Procs
<1>7. Lives' /\ NoThreadOutlivesModel'
  BY <1>0, <1>1, <1>2, <1>6 DEF TypeOK, Lives, NoThreadOutlivesModel, Procs
<1> QED
  BY <1>2, <1>3, <1>5, <1>7 DEF IInv, Frame

-----------------------------------------------------------------------------
\* A processor that neither takes nor finishes a task: it keeps its pointers
\* or has none.
LEMMA LocalStep ==
  ASSUME IInv, NEW t \in Threads, NEW s \in Steps,
         proc' = [proc EXCEPT ![t] = s], proc[t] # "exited",
         s \in Working => proc[t] \in Working,
         UNCHANGED <<documents, modelFiles, mainVars, is_stopping, alive, in_progress, queue>>
  PROVE  IInv'
<1>0. TypeOK /\ WorkIsAwaited /\ OneHolder /\ Frame /\ Lives /\ NoThreadOutlivesModel
  BY DEF IInv
<1>1. /\ pc' = pc /\ lang' = lang /\ model' = model /\ joining' = joining /\ queue' = queue
      /\ in_progress' = in_progress /\ alive' = alive
  BY DEF mainVars
<1>2. \A l \in Lang, p \in Procs :
        /\ proc[<<l, p>>] = "exited" => proc'[<<l, p>>] = "exited"
        /\ proc'[<<l, p>>] \in Working => proc[<<l, p>>] \in Working
  BY <1>0 DEF TypeOK, Threads
<1>3. TypeOK'
  BY <1>0, <1>1 DEF TypeOK, mainVars
<1>4. WorkIsAwaited'
  BY <1>0, <1>1, <1>2 DEF WorkIsAwaited, Work
<1>5. OneHolder'
  BY <1>0, <1>1, <1>2 DEF OneHolder
<1>6. Lives' /\ NoThreadOutlivesModel'
  BY <1>0, <1>1, <1>2 DEF TypeOK, Lives, NoThreadOutlivesModel
<1> QED
  BY <1>0, <1>1, <1>3, <1>4, <1>5, <1>6 DEF IInv, Frame

\* A processor polls the queue, and takes the task out of it.
LEMMA TryPopStep == ASSUME NEW t \in Threads PROVE IInv /\ TryPop(t) => IInv'
<1> SUFFICES ASSUME IInv, TryPop(t) PROVE IInv'
  OBVIOUS
<1>0. TypeOK /\ WorkIsAwaited /\ OneHolder /\ Frame /\ Lives /\ NoThreadOutlivesModel
  BY DEF IInv
<1>a. CASE queue[t[1]] = << >>
  <2>1. proc' = [proc EXCEPT ![t] = "check"] /\ proc[t] = "pop" /\ queue' = queue
    BY <1>a DEF TryPop
  <2>2. UNCHANGED <<documents, modelFiles, mainVars, is_stopping, alive, in_progress, queue>>
    BY <2>1 DEF TryPop, inputVars, frameVars
  <2>3. "check" \in Steps /\ "check" \notin Working
    BY DEF Steps, Working
  <2> QED
    BY <2>1, <2>2, <2>3, LocalStep
<1>b. CASE queue[t[1]] # << >>
  <2> DEFINE k == t[1]
  <2>0. PICK r \in Procs : t = <<k, r>> /\ k \in Lang
    BY DEF Threads
  <2>1. /\ pc' = pc /\ lang' = lang /\ model' = model /\ joining' = joining
        /\ in_progress' = in_progress /\ alive' = alive
        /\ proc[t] = "pop" /\ proc' = [proc EXCEPT ![t] = "infer"]
        /\ queue' = [queue EXCEPT ![k] = Tail(@)]
    BY <1>b DEF TryPop, mainVars, frameVars
  <2>2. lang = k /\ pc = "wait" /\ k \in in_progress
    BY <1>0, <1>b, <2>0 DEF WorkIsAwaited, Work
  <2>3. \A p \in Procs : proc[<<k, p>>] \notin Working
    BY <1>0, <1>b, <2>0 DEF OneHolder
  <2>4. queue' = [queue EXCEPT ![k] = << >>]
    <3>1. PICK l \in Lang : queue[k] = <<l>>
      BY <1>0, <1>b, <2>0 DEF TypeOK
    <3>2. Tail(queue[k]) = << >>
      BY <3>1
    <3> QED
      BY <2>1, <3>2
  <2>5. \A l \in Lang, p \in Procs :
          proc'[<<l, p>>] = IF l = k /\ p = r THEN "infer" ELSE proc[<<l, p>>]
    BY <1>0, <2>0, <2>1 DEF TypeOK, Threads
  <2>6. \A l \in Lang : queue'[l] = IF l = k THEN << >> ELSE queue[l]
    BY <1>0, <2>4 DEF TypeOK
  <2>7. TypeOK'
    <3>1. proc' \in [Threads -> Steps]
      BY <1>0, <2>1 DEF TypeOK, Steps, Working
    <3>2. queue' \in [Lang -> {<< >>} \cup {<<l>> : l \in Lang}]
      BY <1>0, <2>4 DEF TypeOK
    <3> QED
      BY <1>0, <2>1, <3>1, <3>2 DEF TypeOK, TryPop, inputVars
  <2>8. \A l \in Lang : l # k => ~ Work(l)'
    BY <1>0, <2>2, <2>5, <2>6 DEF WorkIsAwaited, Work
  <2>9. WorkIsAwaited'
    BY <2>1, <2>2, <2>8 DEF WorkIsAwaited
  <2>10. OneHolder'
    <3>1. ASSUME NEW l \in Lang, NEW p \in Procs, proc'[<<l, p>>] \in Working
          PROVE  l = k /\ p = r
      BY <2>3, <2>5, <2>8, <3>1 DEF Work
    <3> QED
      BY <2>6, <3>1 DEF OneHolder
  <2>11. Lives' /\ NoThreadOutlivesModel'
    BY <1>0, <2>0, <2>1, <2>2, <2>5 DEF TypeOK, Lives, NoThreadOutlivesModel
  <2> QED
    BY <1>0, <2>1, <2>7, <2>9, <2>10, <2>11 DEF IInv, Frame
<1> QED
  BY <1>a, <1>b

\* A processor gives its task back to the BatchManager.
LEMMA CallbackStep == ASSUME NEW t \in Threads PROVE IInv /\ Callback(t) => IInv'
<1> SUFFICES ASSUME IInv, Callback(t) PROVE IInv'
  OBVIOUS
<1>0. TypeOK /\ WorkIsAwaited /\ OneHolder /\ Frame /\ Lives /\ NoThreadOutlivesModel
  BY DEF IInv
<1> DEFINE k == t[1]
<1>1. PICK r \in Procs : t = <<k, r>> /\ k \in Lang
  BY DEF Threads
<1>2. /\ pc' = pc /\ lang' = lang /\ model' = model /\ joining' = joining /\ queue' = queue
      /\ in_progress' = in_progress \ {k} /\ alive' = alive
      /\ proc[t] = "callback" /\ proc' = [proc EXCEPT ![t] = "check"]
  BY DEF Callback, mainVars
<1>3. "callback" \in Working /\ "check" \in Steps \ Working
  BY DEF Working, Steps
<1>4. lang = k /\ pc = "wait"
  BY <1>0, <1>1, <1>2, <1>3 DEF WorkIsAwaited, Work
<1>5. queue[k] = << >> /\ \A q \in Procs : proc[<<k, q>>] \in Working => q = r
  BY <1>0, <1>1, <1>2, <1>3 DEF OneHolder
<1>6. \A l \in Lang, p \in Procs :
        proc'[<<l, p>>] = IF l = k /\ p = r THEN "check" ELSE proc[<<l, p>>]
  BY <1>0, <1>1, <1>2 DEF TypeOK, Threads
<1>7. \A l \in Lang : ~ Work(l)'
  <2>1. ~ Work(k)'
    BY <1>1, <1>2, <1>3, <1>5, <1>6 DEF Work
  <2>2. \A l \in Lang : l # k => ~ Work(l)'
    BY <1>0, <1>2, <1>4, <1>6 DEF WorkIsAwaited, Work
  <2> QED
    BY <2>1, <2>2
<1>8. WorkIsAwaited' /\ OneHolder'
  BY <1>7 DEF WorkIsAwaited, OneHolder, Work
<1>9. TypeOK'
  BY <1>0, <1>2, <1>3 DEF TypeOK, Callback, inputVars
<1>10. Lives' /\ NoThreadOutlivesModel'
  BY <1>0, <1>1, <1>2, <1>4, <1>6 DEF TypeOK, Lives, NoThreadOutlivesModel
<1> QED
  BY <1>0, <1>2, <1>4, <1>8, <1>9, <1>10 DEF IInv, Frame

\* Every step of a processor preserves the invariant.
LEMMA ProcessorStep == ASSUME NEW t \in Threads PROVE IInv /\ Processor(t) => IInv'
<1> SUFFICES ASSUME IInv, Processor(t) PROVE IInv'
  OBVIOUS
<1>1. CASE CheckStopping(t) \/ Infer(t) \/ UpdateCacheEntry(t) \/ AppendScore(t)
  <2>1. PICK s \in Steps :
          /\ proc' = [proc EXCEPT ![t] = s] /\ proc[t] # "exited"
          /\ s \in Working => proc[t] \in Working
    BY <1>1 DEF CheckStopping, Infer, UpdateCacheEntry, AppendScore, Steps, Working
  <2>2. UNCHANGED <<documents, modelFiles, mainVars, is_stopping, alive, in_progress, queue>>
    BY <1>1 DEF CheckStopping, Infer, UpdateCacheEntry, AppendScore, inputVars, frameVars
  <2> QED
    BY <2>1, <2>2, LocalStep
<1> QED
  BY <1>1, TryPopStep, CallbackStep DEF Processor

\* The invariant is inductive.
LEMMA NextIInv == IInv /\ [Next]_vars => IInv'
<1> SUFFICES ASSUME IInv, [Next]_vars PROVE IInv'
  OBVIOUS
<1>1. CASE Main
  BY <1>1, ConstructStep, ConstructFailsStep, ImportStep, TransformSteps, ResultSteps, DisposeStep, StopStep, JoinStep
     DEF Main
<1>2. CASE \E t \in Threads : Processor(t)
  BY <1>2, ProcessorStep
<1>3. CASE UNCHANGED vars
  BY <1>3 DEF vars, inputVars, mainVars, threadVars, frameVars, IInv, TypeOK, WorkIsAwaited, Work,
              OneHolder, Frame, Lives, NoThreadOutlivesModel
<1> QED
  BY <1>1, <1>2, <1>3 DEF Next, Finished

\* The inductive invariant holds in every reachable state of GetCategories.
THEOREM Invariance == Spec => []IInv
BY InitIInv, NextIInv, PTL DEF Spec

\* The variables keep their types for every number of processors.
THEOREM TypeCorrect == Spec => []TypeOK
<1>1. IInv => TypeOK
  BY DEF IInv
<1> QED
  BY <1>1, Invariance, PTL

\* Transform's stack frame outlives every task that points into it
\* (master_component.cc:799-801).
THEOREM FrameOutlivesTasks == Spec => []FrameAlive
<1>1. IInv => FrameAlive
  BY DEF IInv, FrameAlive, WorkIsAwaited, Work, Frame
<1> QED
  BY <1>1, Invariance, PTL

\* The destructor of a model joins all of its processors
\* (processor.cc:43-48, instance.h:99).
THEOREM ThreadsJoined == Spec => []NoThreadOutlivesModel
<1>1. IInv => NoThreadOutlivesModel
  BY DEF IInv
<1> QED
  BY <1>1, Invariance, PTL

-----------------------------------------------------------------------------
\* The score of the batch of l, and what its processing leaves in the frame.
FullScore(l) == [batches |-> 1, items |-> Len(Lang2Docs(l)), inEffect |-> InEffect(l)]
Weights(l) == IF modelFiles[l].tokens THEN ThetaEntry(l) ELSE << >>
ScoreOf(l) == IF modelFiles[l].tokens THEN FullScore(l) ELSE ZeroScore

Fresh(l) == cache = << >> /\ score[l] = ZeroScore
Processed(l) == cache = Weights(l) /\ score[l] = ScoreOf(l)

HeldAt(l, step) == \E p \in Procs : proc[<<l, p>>] = step

\* What the frame and the score hold, by how far the task is.
Stages ==
  /\ DOMAIN score = Lang
  /\ pc \in {"register", "push"} => Fresh(lang)
  /\ pc = "wait" =>
       /\ queue[lang] # << >> \/ HeldAt(lang, "infer") \/ HeldAt(lang, "cache") => Fresh(lang)
       /\ HeldAt(lang, "cache") \/ HeldAt(lang, "score") => modelFiles[lang].tokens
       /\ HeldAt(lang, "score") => cache = ThetaEntry(lang) /\ score[lang] = ZeroScore
       /\ HeldAt(lang, "callback") \/ in_progress = {} => Processed(lang)
  /\ pc = "theta" => Processed(lang)
  /\ pc \in {"validate", "collect"} => theta = Weights(lang) /\ score[lang] = ScoreOf(lang)
  /\ pc = "collect" => ~ ValidateThrows

\* The steps at which main goes over the languages.
Adding == {"add", "register", "push", "wait", "theta", "validate", "collect"}
Leaving == {"destroy", "stop", "join", "returned"}

\* Which models have been read, and which languages are done.
Results ==
  /\ pc \in {"construct", "import"} /\ lang = "en" => modelFiles["ru"].present
  /\ pc \in Adding => modelFiles["ru"].present /\ modelFiles["en"].present
  /\ pc \in {"construct", "import"} \/ (pc \in Adding /\ lang = "ru") =>
       cat2doc = [c \in Categories |-> << >>]
  /\ pc \in Adding /\ lang = "en" =>
       Categorised("ru") /\ cat2doc = [c \in Categories |-> RefCategory("ru", c)]
  /\ pc \in Leaving =>
       /\ Categorised("ru") /\ Categorised("en")
       /\ cat2doc = [c \in Categories |-> RefCategory("ru", c) \o RefCategory("en", c)]
  /\ pc = "thrown" => \E l \in Lang : ~ Categorised(l)

DataInv == Stages /\ Results

-----------------------------------------------------------------------------
\* lang2docs holds, for each language, its documents and no others.
LEMMA DocumentsOf ==
  ASSUME TypeOK, NEW l
  PROVE  /\ Len(Lang2Docs(l)) \in Nat /\ DOMAIN Lang2Docs(l) = 1 .. Len(Lang2Docs(l))
         /\ \A a \in DOMAIN Lang2Docs(l) : \E k \in DOMAIN documents :
              documents[k].lang = l /\ Lang2Docs(l)[a] = documents[k]
         /\ \A k \in DOMAIN documents : documents[k].lang = l =>
              \E a \in DOMAIN Lang2Docs(l) : Lang2Docs(l)[a] = documents[k]
         /\ InEffect(l) \in Nat
         /\ InEffect(l) = 0 <=> \A a \in DOMAIN Lang2Docs(l) : ~ Lang2Docs(l)[a].known
<1> DEFINE n == Len(documents)
           I == {i \in DOMAIN documents : documents[i].lang = l}
           K == {i \in DOMAIN Lang2Docs(l) : Lang2Docs(l)[i].known}
<1>1. n \in Nat /\ DOMAIN documents = 1 .. n
  BY InputsAssumption DEF TypeOK
<1>2. I \in SUBSET (1 .. n)
  BY <1>1
<1>3. Lang2Docs(l) = Picked(documents, I)
  BY DEF Lang2Docs
<1>4. /\ Cardinality(I) \in Nat
      /\ DOMAIN Picked(documents, I) = 1 .. Cardinality(I)
      /\ Len(Picked(documents, I)) = Cardinality(I)
      /\ InOrder(I) \in [1 .. Cardinality(I) -> I]
      /\ \A x \in I : \E a \in 1 .. Cardinality(I) : InOrder(I)[a] = x
      /\ \A a \in 1 .. Cardinality(I) : Picked(documents, I)[a] = documents[InOrder(I)[a]]
  <2> HIDE DEF I, n
  <2>1. TakenInOrder(Picked(documents, I), documents, I, InOrder(I))
    BY <1>1, <1>2, PickedIsInOrder
  <2> QED
    BY <2>1 DEF TakenInOrder
<1>5. Len(Lang2Docs(l)) \in Nat /\ DOMAIN Lang2Docs(l) = 1 .. Len(Lang2Docs(l))
  BY <1>3, <1>4
<1>6. ASSUME NEW a \in DOMAIN Lang2Docs(l)
      PROVE  \E k \in DOMAIN documents : documents[k].lang = l /\ Lang2Docs(l)[a] = documents[k]
  <2>1. InOrder(I)[a] \in I /\ Lang2Docs(l)[a] = documents[InOrder(I)[a]]
    <3> HIDE DEF I
    <3> QED
      BY <1>3, <1>4
  <2> QED
    BY <2>1
<1>7. ASSUME NEW k \in DOMAIN documents, documents[k].lang = l
      PROVE  \E a \in DOMAIN Lang2Docs(l) : Lang2Docs(l)[a] = documents[k]
  <2>1. k \in I
    BY <1>7
  <2> HIDE DEF I
  <2> QED
    BY <2>1, <1>3, <1>4
<1>8. IsFiniteSet(K) /\ Cardinality(K) \in Nat
  <2>1. K \in SUBSET (1 .. Len(Lang2Docs(l)))
    BY <1>5
  <2> HIDE DEF K
  <2> QED
    BY <2>1, <1>5, Positions
<1>9. InEffect(l) = Cardinality(K) /\ (Cardinality(K) = 0 <=> K = {})
  BY <1>8, FS_EmptySet DEF InEffect
<1>10. QED
  BY <1>5, <1>6, <1>7, <1>8, <1>9

\* What the input alone determines.
LEMMA InputFixed ==
  ASSUME UNCHANGED documents, UNCHANGED modelFiles
  PROVE  \A l : /\ Lang2Docs(l)' = Lang2Docs(l) /\ InEffect(l)' = InEffect(l)
               /\ ThetaEntry(l)' = ThetaEntry(l) /\ FullScore(l)' = FullScore(l)
               /\ Weights(l)' = Weights(l) /\ ScoreOf(l)' = ScoreOf(l)
               /\ Categorised(l)' = Categorised(l)
               /\ \A c : RefCategory(l, c)' = RefCategory(l, c)
<1>1. \A l : Lang2Docs(l)' = Lang2Docs(l)
  BY DEF Lang2Docs
<1>2. \A l : InEffect(l)' = InEffect(l) /\ ThetaEntry(l)' = ThetaEntry(l)
  BY <1>1 DEF InEffect, ThetaEntry
<1>3. \A l : FullScore(l)' = FullScore(l)
  BY <1>1, <1>2 DEF FullScore
<1>4. \A l : Weights(l)' = Weights(l) /\ ScoreOf(l)' = ScoreOf(l)
  BY <1>2, <1>3 DEF Weights, ScoreOf
<1>5. \A l : Categorised(l)' = Categorised(l)
  BY DEF Categorised
<1>6. \A l, c : RefCategory(l, c)' = RefCategory(l, c)
  BY DEF RefCategory
<1>7. QED
  BY <1>1, <1>2, <1>3, <1>4, <1>5, <1>6

\* The articles of a category are those of the language's batch whose weights
\* put them there.
LEMMA CategoryOfBatch ==
  ASSUME TypeOK, NEW l, NEW c
  PROVE  RefCategory(l, c) =
           Picked(Lang2Docs(l),
                  {i \in DOMAIN Lang2Docs(l) : \E t \in Lang2Docs(l)[i].above :
                     IsCategory(l, t) /\ modelFiles[l].topics[t] = c})
<1> DEFINE n == Len(documents)
           Chosen(d) == \E t \in d.above : IsCategory(l, t) /\ modelFiles[l].topics[t] = c
           I == {i \in DOMAIN documents : documents[i].lang = l}
           J == {i \in DOMAIN Lang2Docs(l) : Chosen(Lang2Docs(l)[i])}
           K == {i \in DOMAIN documents : documents[i].lang = l /\ Chosen(documents[i])}
<1>1. n \in Nat /\ DOMAIN documents = 1 .. n
  BY InputsAssumption DEF TypeOK
<1>2. I \in SUBSET (1 .. n)
  BY <1>1
<1>3. Lang2Docs(l) = Picked(documents, I)
  BY DEF Lang2Docs
<1>4. /\ DOMAIN Picked(documents, I) = 1 .. Cardinality(I)
      /\ InOrder(I) \in [1 .. Cardinality(I) -> I]
      /\ \A x \in I : \E a \in 1 .. Cardinality(I) : InOrder(I)[a] = x
      /\ \A a \in 1 .. Cardinality(I) : Picked(documents, I)[a] = documents[InOrder(I)[a]]
  <2> HIDE DEF I, n
  <2>1. TakenInOrder(Picked(documents, I), documents, I, InOrder(I))
    BY <1>1, <1>2, PickedIsInOrder
  <2> QED
    BY <2>1 DEF TakenInOrder
<1>5. RefCategory(l, c) = Picked(documents, K)
  BY DEF RefCategory, IsCategory
<1> HIDE DEF Chosen
<1>6. J \in SUBSET (1 .. Cardinality(I))
  BY <1>3, <1>4
<1>7. \A a \in 1 .. Cardinality(I) : InOrder(I)[a] \in I /\ (a \in J <=> Chosen(documents[InOrder(I)[a]]))
  <2> HIDE DEF I
  <2> QED
    BY <1>3, <1>4
<1>8. K = Places(I, J)
  <2>1. ASSUME NEW k \in K PROVE \E a \in J : k = InOrder(I)[a]
    <3>1. k \in I /\ Chosen(documents[k])
      OBVIOUS
    <3>2. PICK a \in 1 .. Cardinality(I) : InOrder(I)[a] = k
      <4> HIDE DEF I, K
      <4> QED
        BY <3>1, <1>4
    <3>3. a \in J
      BY <3>1, <3>2, <1>7
    <3> QED
      BY <3>2, <3>3
  <2>2. ASSUME NEW a \in J PROVE InOrder(I)[a] \in K
    <3>1. a \in 1 .. Cardinality(I)
      BY <1>6
    <3>2. InOrder(I)[a] \in I /\ Chosen(documents[InOrder(I)[a]])
      <4> HIDE DEF I, J
      <4> QED
        BY <3>1, <1>7
    <3> QED
      BY <3>2
  <2> HIDE DEF I, J, K
  <2> QED
    BY <2>1, <2>2 DEF Places
<1>9. Picked(Picked(documents, I), J) = Picked(documents, K)
  <2> HIDE DEF I, J, K, n
  <2> QED
    BY <1>1, <1>2, <1>6, <1>8, PickedTwice
<1>10. QED
  BY <1>3, <1>5, <1>9 DEF Chosen

\* A language whose batch has been processed without an exception: it has all
\* that Transform needs, and every category gets its articles.
LEMMA CollectIsExact ==
  ASSUME IInv, DataInv, Collect
  PROVE  Categorised(lang) /\ \A c : Selected(c) = RefCategory(lang, c)
<1> DEFINE L == Lang2Docs(lang)
<1>1. TypeOK /\ pc = "collect" /\ ~ CollectThrows /\ lang \in Lang
  BY DEF Collect, IInv, TypeOK
<1>2. theta = Weights(lang) /\ score[lang] = ScoreOf(lang) /\ ~ ValidateThrows
  BY <1>1 DEF DataInv, Stages
<1>3. modelFiles[lang].tokens
  BY <1>2 DEF ScoreOf, ZeroScore, ValidateThrows
<1>4. theta = ThetaEntry(lang) /\ InEffect(lang) # 0
  BY <1>2, <1>3 DEF Weights, ScoreOf, FullScore, ValidateThrows
<1>5. /\ \A a \in DOMAIN L : \E k \in DOMAIN documents : documents[k].lang = lang /\ L[a] = documents[k]
      /\ \A k \in DOMAIN documents : documents[k].lang = lang => \E a \in DOMAIN L : L[a] = documents[k]
      /\ InEffect(lang) = 0 <=> \A a \in DOMAIN L : ~ L[a].known
  BY <1>1, DocumentsOf
<1>6. DOMAIN theta = DOMAIN L /\ \A a \in DOMAIN L : theta[a] = L[a].above
  BY <1>4 DEF ThetaEntry
<1> HIDE DEF L
<1>7. modelFiles[lang].present
  BY <1>1 DEF DataInv, Results, Adding, Lang
<1>8. \E k \in DOMAIN documents : documents[k].lang = lang /\ documents[k].known
  BY <1>4, <1>5
<1>9. ASSUME NEW k \in DOMAIN documents, NEW t \in documents[k].above,
             documents[k].lang = lang, t < Len(modelFiles[lang].topics)
      PROVE  modelFiles[lang].topics[t] \in Categories
  <2>1. PICK a \in DOMAIN L : L[a] = documents[k]
    BY <1>5, <1>9
  <2>2. a \in DOMAIN theta /\ t \in theta[a]
    BY <2>1, <1>6
  <2> QED
    BY <2>2, <1>1, <1>9 DEF CollectThrows, IsCategory
<1>10. Categorised(lang)
  BY <1>3, <1>7, <1>8, <1>9 DEF Categorised
<1>11. ASSUME NEW c PROVE Selected(c) = RefCategory(lang, c)
  <2> DEFINE S == {i \in DOMAIN theta : \E t \in theta[i] : IsCategory(lang, t) /\ modelFiles[lang].topics[t] = c}
             R == {i \in DOMAIN L : \E t \in L[i].above : IsCategory(lang, t) /\ modelFiles[lang].topics[t] = c}
  <2>1. S = R
    BY <1>6
  <2>2. Selected(c) = Picked(L, S)
    BY DEF Selected, L
  <2>3. RefCategory(lang, c) = Picked(L, R)
    BY <1>1, CategoryOfBatch DEF L
  <2> HIDE DEF S, R
  <2> QED
    BY <2>1, <2>2, <2>3
<1>12. QED
  BY <1>10, <1>11

\* Whatever is thrown, the language main is at lacks something.
LEMMA ThrowsForAReason == ASSUME IInv, DataInv, Throws PROVE lang \in Lang /\ ~ Categorised(lang)
<1> DEFINE L == Lang2Docs(lang)
<1>1. TypeOK /\ lang \in Lang
  BY DEF IInv, TypeOK
<1>2. /\ Len(L) \in Nat /\ DOMAIN L = 1 .. Len(L)
      /\ \A a \in DOMAIN L : \E k \in DOMAIN documents : documents[k].lang = lang /\ L[a] = documents[k]
      /\ \A k \in DOMAIN documents : documents[k].lang = lang => \E a \in DOMAIN L : L[a] = documents[k]
      /\ InEffect(lang) = 0 <=> \A a \in DOMAIN L : ~ L[a].known
  BY <1>1, DocumentsOf
<1>3. CASE pc = "import" /\ ImportThrows
  BY <1>1, <1>3 DEF ImportThrows, Categorised
<1>4. CASE pc = "add" /\ AddThrows
  <2>1. DOMAIN L = {}
    BY <1>4 DEF AddThrows
  <2> QED
    BY <2>1, <1>1, <1>2 DEF Categorised
<1>5. CASE pc = "validate" /\ ValidateThrows
  <2>1. CASE ~ modelFiles[lang].tokens
    BY <2>1, <1>1 DEF Categorised
  <2>2. CASE modelFiles[lang].tokens
    <3>1. score[lang] = [batches |-> 1, items |-> Len(L), inEffect |-> InEffect(lang)]
      BY <1>5, <2>2 DEF DataInv, Stages, ScoreOf, FullScore
    <3>2. Len(L) = 0 \/ InEffect(lang) = 0
      BY <3>1, <1>5 DEF ValidateThrows
    <3>3. Len(L) = 0 => DOMAIN L = {}
      BY <1>2
    <3>4. \A a \in DOMAIN L : ~ L[a].known
      BY <3>2, <3>3, <1>2
    <3> HIDE DEF L
    <3> QED
      BY <3>4, <1>1, <1>2 DEF Categorised
  <2> QED
    BY <2>1, <2>2
<1>6. CASE pc = "collect" /\ CollectThrows
  <2>1. CASE ~ modelFiles[lang].tokens
    BY <2>1, <1>1 DEF Categorised
  <2>2. CASE modelFiles[lang].tokens
    <3>1. theta = ThetaEntry(lang)
      BY <1>6, <2>2 DEF DataInv, Stages, Weights
    <3>2. DOMAIN theta = DOMAIN L /\ \A a \in DOMAIN L : theta[a] = L[a].above
      BY <3>1 DEF ThetaEntry
    <3> HIDE DEF L
    <3>3. PICK a \in DOMAIN L : \E t \in L[a].above :
            IsCategory(lang, t) /\ modelFiles[lang].topics[t] \notin Categories
      BY <3>2, <1>6 DEF CollectThrows
    <3>4. PICK k \in DOMAIN documents : documents[k].lang = lang /\ L[a] = documents[k]
      BY <1>2
    <3> QED
      BY <3>3, <3>4, <1>1 DEF Categorised, IsCategory
  <2> QED
    BY <2>1, <2>2
<1>7. QED
  BY <1>3, <1>4, <1>5, <1>6 DEF Throws

-----------------------------------------------------------------------------
\* Nothing has been computed before the first model is constructed.
LEMMA InitData == Init => DataInv
<1> SUFFICES ASSUME Init PROVE DataInv
  OBVIOUS
<1>1. Stages
  BY DEF Init, Stages
<1>2. Results
  BY DEF Init, Results, Adding, Leaving
<1> QED
  BY <1>1, <1>2 DEF DataInv

\* What a step that leaves main where it is does not touch.
LEMMA ResultsKept ==
  ASSUME Results, UNCHANGED documents, UNCHANGED modelFiles, UNCHANGED <<pc, lang, cat2doc>>
  PROVE  Results'
<1>1. \A l : Categorised(l)' = Categorised(l) /\ \A c : RefCategory(l, c)' = RefCategory(l, c)
  BY InputFixed
<1>2. /\ [c \in Categories |-> RefCategory("ru", c)]' = [c \in Categories |-> RefCategory("ru", c)]
      /\ [c \in Categories |-> RefCategory("ru", c) \o RefCategory("en", c)]' =
           [c \in Categories |-> RefCategory("ru", c) \o RefCategory("en", c)]
  BY <1>1
<1> QED
  BY <1>1, <1>2 DEF Results

\* The construction of the models.
LEMMA LoadData == IInv /\ DataInv /\ (Construct \/ Import) => DataInv'
<1> SUFFICES ASSUME IInv, DataInv, Construct \/ Import PROVE DataInv'
  OBVIOUS
<1>1. /\ pc \in {"construct", "import"} /\ UNCHANGED documents /\ UNCHANGED modelFiles
      /\ UNCHANGED <<cat2doc, score>> /\ lang \in Lang
      /\ \/ pc' = "import" /\ lang' = lang
         \/ /\ modelFiles[lang].present
            /\ \/ lang = "ru" /\ lang' = "en" /\ pc' = "construct"
               \/ lang = "en" /\ lang' = "ru" /\ pc' = "add"
  BY DEF Construct, Import, ImportThrows, inputVars, IInv, TypeOK
<1>2. cat2doc = [c \in Categories |-> << >>]
  BY <1>1 DEF DataInv, Results
<1>3. Stages'
  BY <1>1 DEF DataInv, Stages
<1>4. Results'
  BY <1>1, <1>2 DEF DataInv, Results, Adding, Leaving, Lang
<1> QED
  BY <1>3, <1>4 DEF DataInv

\* Transform up to the end of its wait: what it leaves for the processors, and
\* what they have left in the frame once the BatchManager is empty.
LEMMA TransformData == IInv /\ DataInv /\ (AddCategories \/ Register \/ Push \/ Wait) => DataInv'
<1> SUFFICES ASSUME IInv, DataInv, AddCategories \/ Register \/ Push \/ Wait PROVE DataInv'
  OBVIOUS
<1>1. /\ UNCHANGED documents /\ UNCHANGED modelFiles /\ UNCHANGED <<cat2doc, lang, proc>>
      /\ lang \in Lang /\ DOMAIN score = Lang
      /\ pc \in Adding /\ pc' \in Adding
  BY DEF AddCategories, Register, Push, Wait, After, inputVars, threadVars, IInv, TypeOK, DataInv, Stages, Adding
<1>2. \A l : /\ ThetaEntry(l)' = ThetaEntry(l) /\ Weights(l)' = Weights(l) /\ ScoreOf(l)' = ScoreOf(l)
           /\ Categorised(l)' = Categorised(l) /\ \A c : RefCategory(l, c)' = RefCategory(l, c)
  BY <1>1, InputFixed
<1>3. Results'
  <2>1. [c \in Categories |-> RefCategory("ru", c)]' = [c \in Categories |-> RefCategory("ru", c)]
    BY <1>2
  <2>2. pc \notin {"construct", "import", "thrown"} \cup Leaving /\ pc' \notin {"construct", "import", "thrown"} \cup Leaving
    BY <1>1 DEF Adding, Leaving
  <2> QED
    BY <1>1, <1>2, <2>1, <2>2 DEF DataInv, Results
<1>4. Stages'
  <2>1. CASE AddCategories
    <3>1. pc' = "register" /\ cache' = << >> /\ score' = [score EXCEPT ![lang] = ZeroScore]
      BY <2>1 DEF AddCategories, After
    <3>2. DOMAIN score' = Lang /\ score'[lang] = ZeroScore
      BY <3>1, <1>1
    <3> QED
      BY <3>1, <3>2, <1>1 DEF Stages, Fresh
  <2>2. CASE Register
    <3>1. pc = "register" /\ pc' = "push" /\ cache' = cache /\ score' = score
      BY <2>2 DEF Register, After
    <3> QED
      BY <3>1, <1>1 DEF DataInv, Stages, Fresh
  <2>3. CASE Push
    <3>1. pc = "push" /\ pc' = "wait" /\ cache' = cache /\ score' = score /\ in_progress' = in_progress
      BY <2>3 DEF Push, After, frameVars
    <3>2. \A p \in Procs : proc[<<lang, p>>] \notin Working
      BY <3>1, <1>1 DEF IInv, WorkIsAwaited, Work
    <3>3. \A s \in Working : ~ HeldAt(lang, s)'
      BY <3>2, <1>1 DEF HeldAt
    <3>4. in_progress' # {}
      BY <3>1 DEF IInv, Frame
    <3>5. Fresh(lang)'
      BY <3>1, <1>1 DEF DataInv, Stages, Fresh
    <3>6. ~ HeldAt(lang, "cache")' /\ ~ HeldAt(lang, "score")' /\ ~ HeldAt(lang, "callback")'
      BY <3>3 DEF Working
    <3> QED
      BY <3>1, <3>4, <3>5, <3>6, <1>1 DEF Stages
  <2>4. CASE Wait
    <3>1. pc = "wait" /\ pc' = "theta" /\ cache' = cache /\ score' = score /\ in_progress = {}
      BY <2>4 DEF Wait, After, IsEverythingProcessed, frameVars
    <3>2. cache = Weights(lang) /\ score[lang] = ScoreOf(lang)
      BY <3>1 DEF DataInv, Stages, Processed
    <3>3. Processed(lang)'
      BY <3>1, <3>2, <1>1, <1>2 DEF Processed
    <3> QED
      BY <3>1, <3>3, <1>1 DEF Stages
  <2> QED
    BY <2>1, <2>2, <2>3, <2>4
<1> QED
  BY <1>3, <1>4 DEF DataInv

\* The rest of Transform.
LEMMA ThetaData == IInv /\ DataInv /\ (GetTheta \/ Validate) => DataInv'
<1> SUFFICES ASSUME IInv, DataInv, GetTheta \/ Validate PROVE DataInv'
  OBVIOUS
<1>1. /\ UNCHANGED documents /\ UNCHANGED modelFiles /\ UNCHANGED <<cat2doc, lang, score>>
      /\ pc \in Adding /\ pc' \in Adding
      /\ \/ pc = "theta" /\ pc' = "validate" /\ theta' = cache
         \/ pc = "validate" /\ pc' = "collect" /\ theta' = theta /\ ~ ValidateThrows
  BY DEF GetTheta, Validate, inputVars, Adding
<1>2. \A l : /\ Weights(l)' = Weights(l) /\ ScoreOf(l)' = ScoreOf(l)
           /\ Categorised(l)' = Categorised(l) /\ \A c : RefCategory(l, c)' = RefCategory(l, c)
  BY <1>1, InputFixed
<1>3. Results'
  <2>1. [c \in Categories |-> RefCategory("ru", c)]' = [c \in Categories |-> RefCategory("ru", c)]
    BY <1>2
  <2>2. pc \notin {"construct", "import", "thrown"} \cup Leaving /\ pc' \notin {"construct", "import", "thrown"} \cup Leaving
    BY <1>1 DEF Adding, Leaving
  <2> QED
    BY <1>1, <1>2, <2>1, <2>2 DEF DataInv, Results
<1>4. theta' = Weights(lang) /\ score[lang] = ScoreOf(lang) /\ DOMAIN score = Lang
  BY <1>1 DEF DataInv, Stages, Processed
<1>5. Weights(lang)' = Weights(lang) /\ ScoreOf(lang)' = ScoreOf(lang)
  BY <1>1, <1>2 DEF Weights, ScoreOf, ThetaEntry, FullScore, Lang2Docs, InEffect
<1>6. Stages'
  BY <1>1, <1>4, <1>5 DEF Stages, ValidateThrows
<1> QED
  BY <1>3, <1>6 DEF DataInv

\* The empty sequence before another one.
LEMMA NothingBefore == ASSUME NEW s, NEW m \in Nat, DOMAIN s = 1 .. m, s = [k \in 1 .. m |-> s[k]] PROVE << >> \o s = s
<1>1. Len(s) = m /\ Len(<< >>) = 0
  OBVIOUS
<1>2. DOMAIN (<< >> \o s) = 1 .. m /\ \A k \in 1 .. m : (<< >> \o s)[k] = s[k]
  BY <1>1
<1> QED
  BY <1>2

\* The articles of a language reach their categories.
LEMMA CollectData == IInv /\ DataInv /\ Collect => DataInv'
<1> SUFFICES ASSUME IInv, DataInv, Collect PROVE DataInv'
  OBVIOUS
<1>1. /\ pc = "collect" /\ UNCHANGED documents /\ UNCHANGED modelFiles /\ UNCHANGED score
      /\ cat2doc' = [c \in Categories |-> cat2doc[c] \o Selected(c)]
      /\ \/ lang = "ru" /\ lang' = "en" /\ pc' = "add"
         \/ lang = "en" /\ lang' = lang /\ pc' = "destroy"
  BY DEF Collect, inputVars
<1>2. Categorised(lang) /\ \A c : Selected(c) = RefCategory(lang, c)
  BY CollectIsExact
<1>3. \A l : Categorised(l)' = Categorised(l) /\ \A c : RefCategory(l, c)' = RefCategory(l, c)
  BY <1>1, InputFixed
<1>4. pc \in Adding /\ pc \notin Leaving
  BY <1>1 DEF Adding, Leaving
<1>5. modelFiles["ru"].present /\ modelFiles["en"].present
  BY <1>4 DEF DataInv, Results
<1>6. Stages'
  BY <1>1 DEF DataInv, Stages
<1>7. CASE lang = "ru"
  <2>1. cat2doc = [c \in Categories |-> << >>]
    BY <1>4, <1>7 DEF DataInv, Results
  <2>2. ASSUME NEW c \in Categories PROVE cat2doc'[c] = RefCategory("ru", c)
    <3>1. cat2doc'[c] = << >> \o RefCategory("ru", c)
      BY <1>1, <1>2, <1>7, <2>1
    <3>2. PICK m \in Nat : DOMAIN RefCategory("ru", c) = 1 .. m
                           /\ RefCategory("ru", c) = [k \in 1 .. m |-> RefCategory("ru", c)[k]]
      <4> DEFINE K == {i \in DOMAIN documents :
                         /\ documents[i].lang = "ru"
                         /\ \E t \in documents[i].above :
                              t < Len(modelFiles["ru"].topics) /\ modelFiles["ru"].topics[t] = c}
      <4>1. Len(documents) \in Nat /\ K \in SUBSET (1 .. Len(documents))
        BY InputsAssumption DEF IInv, TypeOK
      <4>2. RefCategory("ru", c) = Picked(documents, K)
        BY DEF RefCategory
      <4> HIDE DEF K
      <4>3. Cardinality(K) \in Nat
        BY <4>1, Positions
      <4>4. RefCategory("ru", c) = [a \in 1 .. Cardinality(K) |-> documents[InOrder(K)[a]]]
        BY <4>2 DEF Picked
      <4> QED
        BY <4>3, <4>4
    <3> QED
      BY <3>1, <3>2, NothingBefore
  <2>3. cat2doc' = [c \in Categories |-> RefCategory("ru", c)]
    BY <1>1, <2>2
  <2>4. cat2doc' = [c \in Categories |-> RefCategory("ru", c)']
    BY <1>3, <2>3
  <2>5. lang' = "en" /\ pc' = "add" /\ Categorised("ru")'
    BY <1>1, <1>2, <1>3, <1>7
  <2> QED
    BY <1>1, <1>5, <1>6, <2>4, <2>5 DEF DataInv, Results, Adding, Leaving
<1>8. CASE lang = "en"
  <2>1. cat2doc = [c \in Categories |-> RefCategory("ru", c)] /\ Categorised("ru")
    BY <1>4, <1>8 DEF DataInv, Results
  <2>2. cat2doc' = [c \in Categories |-> RefCategory("ru", c) \o RefCategory("en", c)]
    BY <1>1, <1>2, <1>8, <2>1
  <2>3. cat2doc' = [c \in Categories |-> RefCategory("ru", c)' \o RefCategory("en", c)']
    BY <1>3, <2>2
  <2>4. pc' = "destroy" /\ Categorised("ru")' /\ Categorised("en")'
    BY <1>1, <1>2, <1>3, <1>8, <2>1
  <2> QED
    BY <1>6, <2>3, <2>4 DEF DataInv, Results, Adding, Leaving
<1> QED
  BY <1>1, <1>7, <1>8

\* The destructors leave the result alone.
LEMMA DestroyData == IInv /\ DataInv /\ ((\E l \in Lang : Dispose(l)) \/ Stop \/ Join) => DataInv'
<1> SUFFICES ASSUME IInv, DataInv, (\E l \in Lang : Dispose(l)) \/ Stop \/ Join PROVE DataInv'
  OBVIOUS
<1>1. /\ UNCHANGED documents /\ UNCHANGED modelFiles /\ UNCHANGED <<cat2doc, score>>
      /\ pc \in {"destroy", "stop", "join"} /\ pc' \in {"destroy", "stop", "join", "returned"}
  BY DEF Dispose, Stop, Join, inputVars
<1>2. \A l : Categorised(l)' = Categorised(l) /\ \A c : RefCategory(l, c)' = RefCategory(l, c)
  BY <1>1, InputFixed
<1>3. Categorised("ru") /\ Categorised("en")
      /\ cat2doc = [c \in Categories |-> RefCategory("ru", c) \o RefCategory("en", c)]
  BY <1>1 DEF DataInv, Results, Leaving
<1>4. cat2doc' = [c \in Categories |-> RefCategory("ru", c)' \o RefCategory("en", c)']
  BY <1>1, <1>2, <1>3
<1>5. Results'
  BY <1>1, <1>2, <1>3, <1>4 DEF Results, Adding
<1>6. Stages'
  BY <1>1 DEF DataInv, Stages
<1> QED
  BY <1>5, <1>6 DEF DataInv

\* Nothing is claimed of the data when a thread cannot be created.
LEMMA ConstructFailsData == IInv /\ DataInv /\ ConstructFails => DataInv'
BY DEF ConstructFails, DataInv, Results, Stages, Adding, Leaving

\* An exception.
LEMMA ThrowsData == IInv /\ DataInv /\ Throws => DataInv'
<1> SUFFICES ASSUME IInv, DataInv, Throws PROVE DataInv'
  OBVIOUS
<1>1. pc' = "thrown" /\ UNCHANGED documents /\ UNCHANGED modelFiles /\ UNCHANGED score
  BY DEF Throws, inputVars
<1>2. lang \in Lang /\ ~ Categorised(lang)
  BY ThrowsForAReason
<1>3. \A l : Categorised(l)' = Categorised(l)
  BY <1>1, InputFixed
<1>4. \E l \in Lang : ~ Categorised(l)'
  BY <1>2, <1>3
<1> QED
  BY <1>1, <1>4 DEF DataInv, Results, Stages, Adding, Leaving

-----------------------------------------------------------------------------
\* A processor without a task, which takes none: the tasks are held as before.
LEMMA IdleData ==
  ASSUME IInv, DataInv, NEW t \in Threads, NEW s, proc' = [proc EXCEPT ![t] = s],
         proc[t] \notin Working, s \notin Working,
         UNCHANGED documents, UNCHANGED modelFiles, UNCHANGED mainVars,
         UNCHANGED <<in_progress, cache, queue, score>>
  PROVE  Stages'
<1>1. UNCHANGED <<pc, lang, theta>>
  BY DEF mainVars
<1>2. \A l : ThetaEntry(l)' = ThetaEntry(l) /\ Weights(l)' = Weights(l) /\ ScoreOf(l)' = ScoreOf(l)
  BY InputFixed
<1>3. lang \in Lang /\ proc \in [Threads -> Steps]
  BY DEF IInv, TypeOK
<1>4. ASSUME NEW u \in Working, HeldAt(lang, u)' PROVE HeldAt(lang, u)
  <2>1. PICK p \in Procs : proc'[<<lang, p>>] = u
    BY <1>1, <1>4 DEF HeldAt
  <2>2. <<lang, p>> \in Threads
    BY <1>3 DEF Threads
  <2>3. <<lang, p>> # t
    BY <2>1, <1>3, <1>4
  <2>4. proc[<<lang, p>>] = u
    BY <2>1, <2>2, <2>3, <1>3
  <2> QED
    BY <2>4 DEF HeldAt
<1>5. /\ HeldAt(lang, "infer")' => HeldAt(lang, "infer")
      /\ HeldAt(lang, "cache")' => HeldAt(lang, "cache")
      /\ HeldAt(lang, "score")' => HeldAt(lang, "score")
      /\ HeldAt(lang, "callback")' => HeldAt(lang, "callback")
  BY <1>4 DEF Working
<1>6. /\ Fresh(lang)' = Fresh(lang) /\ Processed(lang)' = Processed(lang)
      /\ ThetaEntry(lang)' = ThetaEntry(lang) /\ Weights(lang)' = Weights(lang)
      /\ ScoreOf(lang)' = ScoreOf(lang) /\ ValidateThrows' = ValidateThrows
  <2>1. ThetaEntry(lang)' = ThetaEntry(lang) /\ Weights(lang)' = Weights(lang) /\ ScoreOf(lang)' = ScoreOf(lang)
    BY <1>1, <1>2 DEF ThetaEntry, Weights, ScoreOf, FullScore, Lang2Docs, InEffect
  <2> QED
    BY <2>1, <1>1 DEF Fresh, Processed, ValidateThrows
<1>7. SUFFICES ASSUME pc = "wait"
      PROVE  /\ queue[lang] # << >> \/ HeldAt(lang, "infer")' \/ HeldAt(lang, "cache")' => Fresh(lang)
             /\ HeldAt(lang, "cache")' \/ HeldAt(lang, "score")' => modelFiles[lang].tokens
             /\ HeldAt(lang, "score")' => cache = ThetaEntry(lang) /\ score[lang] = ZeroScore
             /\ HeldAt(lang, "callback")' \/ in_progress = {} => Processed(lang)
  BY <1>1, <1>6 DEF DataInv, Stages
<1> QED
  BY <1>5, <1>7 DEF DataInv, Stages

\* The processor that takes the task, or has it, is the only one, and main
\* waits for it.
LEMMA Holder ==
  ASSUME IInv, NEW t \in Threads, proc[t] \in Working
  PROVE  /\ pc = "wait" /\ t[1] = lang /\ lang \in Lang /\ queue[lang] = << >> /\ in_progress # {}
         /\ \A p \in Procs : proc[<<lang, p>>] \in Working => <<lang, p>> = t
<1>1. PICK r \in Procs : t = <<t[1], r>> /\ t[1] \in Lang
  BY DEF Threads
<1>2. Work(t[1])
  BY <1>1 DEF Work
<1>3. lang = t[1] /\ pc = "wait" /\ t[1] \in in_progress
  BY <1>1, <1>2 DEF IInv, WorkIsAwaited
<1>4. queue[lang] = << >> /\ \A q \in Procs : proc[<<lang, q>>] \in Working => q = r
  BY <1>1, <1>3 DEF IInv, OneHolder
<1> QED
  BY <1>1, <1>3, <1>4

\* After a step of the only processor that holds or takes the task, it is held
\* where that processor is.
LEMMA HeldAfter ==
  ASSUME IInv, NEW t \in Threads, t[1] = lang, lang \in Lang, UNCHANGED lang,
         \A p \in Procs : proc[<<lang, p>>] \in Working => <<lang, p>> = t,
         NEW s, proc' = [proc EXCEPT ![t] = s]
  PROVE  \A u \in Working : HeldAt(lang, u)' => u = s
<1>1. SUFFICES ASSUME NEW u \in Working, HeldAt(lang, u)' PROVE u = s
  OBVIOUS
<1>2. PICK p \in Procs : proc'[<<lang, p>>] = u
  BY <1>1 DEF HeldAt
<1>3. proc \in [Threads -> Steps] /\ <<lang, p>> \in Threads
  BY DEF IInv, TypeOK, Threads
<1>4. CASE <<lang, p>> = t
  BY <1>2, <1>3, <1>4
<1>5. CASE <<lang, p>> # t
  BY <1>1, <1>2, <1>3, <1>5
<1> QED
  BY <1>4, <1>5

\* A processor takes the task.
LEMMA PopData ==
  ASSUME IInv, DataInv, NEW t \in Threads, TryPop(t), queue[t[1]] # << >>
  PROVE  Stages'
<1>1. PICK r \in Procs : t = <<t[1], r>> /\ t[1] \in Lang
  BY DEF Threads
<1>2. lang = t[1] /\ pc = "wait" /\ t[1] \in in_progress /\ lang \in Lang
  BY <1>1 DEF IInv, WorkIsAwaited, Work
<1>3. \A p \in Procs : proc[<<lang, p>>] \notin Working
  BY <1>1, <1>2 DEF IInv, OneHolder
<1>4. /\ proc' = [proc EXCEPT ![t] = "infer"] /\ UNCHANGED <<pc, lang, theta>>
      /\ UNCHANGED <<in_progress, cache, score>>
  BY DEF TryPop, mainVars, frameVars
<1>5. \A u \in Working : HeldAt(lang, u)' => u = "infer"
  BY <1>2, <1>3, <1>4, HeldAfter
<1>6. ~ HeldAt(lang, "cache")' /\ ~ HeldAt(lang, "score")' /\ ~ HeldAt(lang, "callback")'
  BY <1>5 DEF Working
<1>7. Fresh(lang)
  BY <1>2 DEF DataInv, Stages
<1>8. Fresh(lang)'
  BY <1>4, <1>7 DEF Fresh
<1>9. DOMAIN score' = Lang /\ pc' = "wait" /\ in_progress' # {}
  BY <1>2, <1>4 DEF DataInv, Stages
<1> QED
  BY <1>6, <1>8, <1>9 DEF Stages

\* A processor works on its task.
LEMMA WorkData ==
  ASSUME IInv, DataInv, NEW t \in Threads,
         Infer(t) \/ UpdateCacheEntry(t) \/ AppendScore(t) \/ Callback(t)
  PROVE  Stages'
<1>1. proc[t] \in Working
  BY DEF Infer, UpdateCacheEntry, AppendScore, Callback, Working
<1>2. /\ pc = "wait" /\ t[1] = lang /\ lang \in Lang /\ queue[lang] = << >> /\ in_progress # {}
      /\ \A p \in Procs : proc[<<lang, p>>] \in Working => <<lang, p>> = t
  BY <1>1, Holder
<1>3. /\ UNCHANGED documents /\ UNCHANGED modelFiles /\ UNCHANGED lang /\ pc' = "wait"
  BY <1>2 DEF Infer, UpdateCacheEntry, AppendScore, Callback, inputVars, mainVars
<1>4. \A u : proc[t] = u => HeldAt(lang, u)
  BY <1>2 DEF HeldAt, Threads
<1>5. ThetaEntry(lang)' = ThetaEntry(lang) /\ Weights(lang)' = Weights(lang) /\ ScoreOf(lang)' = ScoreOf(lang)
  BY <1>3, InputFixed DEF ThetaEntry, Weights, ScoreOf, FullScore, Lang2Docs, InEffect
<1>6. DOMAIN score = Lang
  BY DEF DataInv, Stages
<1>7. CASE Infer(t)
  <2> DEFINE s == IF modelFiles[lang].tokens THEN "cache" ELSE "callback"
  <2>1. /\ proc[t] = "infer" /\ proc' = [proc EXCEPT ![t] = s]
        /\ UNCHANGED <<in_progress, cache, queue, score>>
    BY <1>2, <1>7 DEF Infer, frameVars
  <2>2. \A u \in Working : HeldAt(lang, u)' => u = s
    <3> HIDE DEF s
    <3> QED
      BY <2>1, <1>2, <1>3, HeldAfter
  <2>3. cache = << >> /\ score[lang] = ZeroScore
    BY <2>1, <1>2, <1>4 DEF DataInv, Stages, Fresh
  <2>4. Fresh(lang)' /\ in_progress' # {} /\ DOMAIN score' = Lang
    BY <2>1, <2>3, <1>2, <1>3, <1>6 DEF Fresh
  <2>5. HeldAt(lang, "cache")' => modelFiles[lang].tokens
    BY <2>2 DEF Working
  <2>6. ~ HeldAt(lang, "score")'
    BY <2>2 DEF Working
  <2>7. HeldAt(lang, "callback")' => ~ modelFiles[lang].tokens
    BY <2>2 DEF Working
  <2>8. ~ modelFiles[lang].tokens => Processed(lang)'
    BY <2>1, <2>3, <1>3 DEF Processed, Weights, ScoreOf
  <2> QED
    BY <1>3, <2>4, <2>5, <2>6, <2>7, <2>8 DEF Stages
<1>8. CASE UpdateCacheEntry(t)
  <2>1. /\ proc[t] = "cache" /\ proc' = [proc EXCEPT ![t] = "score"] /\ cache' = ThetaEntry(lang)
        /\ UNCHANGED <<in_progress, queue, score>>
    BY <1>2, <1>8 DEF UpdateCacheEntry
  <2>2. \A u \in Working : HeldAt(lang, u)' => u = "score"
    BY <2>1, <1>2, <1>3, HeldAfter
  <2>3. score[lang] = ZeroScore /\ modelFiles[lang].tokens
    BY <2>1, <1>2, <1>4 DEF DataInv, Stages, Fresh
  <2>4. ~ HeldAt(lang, "infer")' /\ ~ HeldAt(lang, "cache")' /\ ~ HeldAt(lang, "callback")'
    BY <2>2 DEF Working
  <2>5. cache' = ThetaEntry(lang)' /\ score'[lang'] = ZeroScore /\ modelFiles'[lang'].tokens
    BY <2>1, <2>3, <1>3, <1>5
  <2> QED
    BY <2>1, <2>4, <2>5, <1>2, <1>3, <1>6 DEF Stages
<1>9. CASE AppendScore(t)
  <2>1. /\ proc[t] = "score" /\ proc' = [proc EXCEPT ![t] = "callback"]
        /\ score' = [score EXCEPT ![lang] =
             [batches |-> score[lang].batches + 1, items |-> score[lang].items + Len(Lang2Docs(lang)),
              inEffect |-> score[lang].inEffect + InEffect(lang)]]
        /\ UNCHANGED <<in_progress, cache, queue>>
    BY <1>2, <1>9 DEF AppendScore, frameVars
  <2>2. \A u \in Working : HeldAt(lang, u)' => u = "callback"
    BY <2>1, <1>2, <1>3, HeldAfter
  <2>3. cache = ThetaEntry(lang) /\ score[lang] = ZeroScore /\ modelFiles[lang].tokens
    BY <2>1, <1>2, <1>4 DEF DataInv, Stages
  <2>4. Len(Lang2Docs(lang)) \in Nat /\ InEffect(lang) \in Nat
    BY DocumentsOf DEF IInv
  <2>5. score[lang].batches = 0 /\ score[lang].items = 0 /\ score[lang].inEffect = 0
    BY <2>3 DEF ZeroScore
  <2>6. score' = [score EXCEPT ![lang] = FullScore(lang)]
    <3>1. /\ score[lang].batches + 1 = 1 /\ score[lang].items + Len(Lang2Docs(lang)) = Len(Lang2Docs(lang))
          /\ score[lang].inEffect + InEffect(lang) = InEffect(lang)
      BY <2>4, <2>5
    <3> QED
      BY <2>1, <3>1 DEF FullScore
  <2>7. score'[lang] = FullScore(lang) /\ DOMAIN score' = Lang
    BY <2>6, <1>2, <1>6
  <2>8. Processed(lang)'
    BY <2>1, <2>3, <2>7, <1>3, <1>5 DEF Processed, Weights, ScoreOf
  <2>9. ~ HeldAt(lang, "infer")' /\ ~ HeldAt(lang, "cache")' /\ ~ HeldAt(lang, "score")'
    BY <2>2 DEF Working
  <2>10. queue'[lang'] = << >>
    BY <2>1, <1>2, <1>3
  <2> QED
    BY <2>7, <2>8, <2>9, <2>10, <1>3 DEF Stages
<1>10. CASE Callback(t)
  <2>1. /\ proc[t] = "callback" /\ proc' = [proc EXCEPT ![t] = "check"] /\ UNCHANGED <<cache, queue, score>>
    BY <1>10 DEF Callback
  <2>2. \A u \in Working : HeldAt(lang, u)' => u = "check"
    BY <2>1, <1>2, <1>3, HeldAfter
  <2>3. ~ HeldAt(lang, "infer")' /\ ~ HeldAt(lang, "cache")' /\ ~ HeldAt(lang, "score")'
    BY <2>2 DEF Working
  <2>4. cache = Weights(lang) /\ score[lang] = ScoreOf(lang)
    BY <2>1, <1>2, <1>4 DEF DataInv, Stages, Processed
  <2>5. Processed(lang)'
    BY <2>1, <2>4, <1>3, <1>5 DEF Processed
  <2>6. queue'[lang'] = << >> /\ DOMAIN score' = Lang
    BY <2>1, <1>2, <1>3, <1>6
  <2> QED
    BY <2>3, <2>5, <2>6, <1>3 DEF Stages
<1> QED
  BY <1>7, <1>8, <1>9, <1>10

\* Every step of a processor preserves the invariant of the data.
LEMMA ProcessorData == ASSUME NEW t \in Threads PROVE IInv /\ DataInv /\ Processor(t) => DataInv'
<1> SUFFICES ASSUME IInv, DataInv, Processor(t) PROVE DataInv'
  OBVIOUS
<1>1. UNCHANGED documents /\ UNCHANGED modelFiles /\ UNCHANGED mainVars
  BY DEF Processor, CheckStopping, TryPop, Infer, UpdateCacheEntry, AppendScore, Callback, inputVars
<1>2. Results'
  <2>1. UNCHANGED <<pc, lang, cat2doc>>
    BY <1>1 DEF mainVars
  <2> QED
    BY <1>1, <2>1, ResultsKept DEF DataInv
<1>3. CASE CheckStopping(t) \/ (TryPop(t) /\ queue[t[1]] = << >>)
  <2>1. PICK s \in {"exited", "pop", "check"} : proc' = [proc EXCEPT ![t] = s]
    BY <1>3 DEF CheckStopping, TryPop
  <2>2. proc[t] \in {"check", "pop"} /\ UNCHANGED <<in_progress, cache, queue, score>>
    BY <1>3 DEF CheckStopping, TryPop, frameVars
  <2>3. proc[t] \notin Working /\ s \notin Working
    BY <2>2 DEF Working
  <2>4. Stages'
    BY <1>1, <2>1, <2>2, <2>3, IdleData
  <2> QED
    BY <1>2, <2>4 DEF DataInv
<1>4. CASE TryPop(t) /\ queue[t[1]] # << >>
  BY <1>2, <1>4, PopData DEF DataInv
<1>5. CASE Infer(t) \/ UpdateCacheEntry(t) \/ AppendScore(t) \/ Callback(t)
  BY <1>2, <1>5, WorkData DEF DataInv
<1> QED
  BY <1>3, <1>4, <1>5 DEF Processor

\* The invariant of the data is inductive, given the one of the threads.
LEMMA NextData == IInv /\ DataInv /\ [Next]_vars => DataInv'
<1> SUFFICES ASSUME IInv, DataInv, [Next]_vars PROVE DataInv'
  OBVIOUS
<1>1. CASE Main
  BY <1>1, LoadData, TransformData, ThetaData, CollectData, DestroyData, ConstructFailsData, ThrowsData DEF Main
<1>2. CASE \E t \in Threads : Processor(t)
  BY <1>2, ProcessorData
<1>3. CASE UNCHANGED vars
  <2>1. /\ UNCHANGED documents /\ UNCHANGED modelFiles
        /\ UNCHANGED <<pc, lang, cat2doc, theta, proc, in_progress, cache, queue, score>>
    BY <1>3 DEF vars, inputVars, mainVars, threadVars, frameVars
  <2>2. Results'
    BY <2>1, ResultsKept DEF DataInv
  <2>3. ThetaEntry(lang)' = ThetaEntry(lang) /\ Weights(lang)' = Weights(lang) /\ ScoreOf(lang)' = ScoreOf(lang)
    BY <2>1 DEF ThetaEntry, Weights, ScoreOf, FullScore, Lang2Docs, InEffect
  <2>4. /\ Fresh(lang)' = Fresh(lang) /\ Processed(lang)' = Processed(lang) /\ ValidateThrows' = ValidateThrows
        /\ HeldAt(lang, "infer")' = HeldAt(lang, "infer") /\ HeldAt(lang, "cache")' = HeldAt(lang, "cache")
        /\ HeldAt(lang, "score")' = HeldAt(lang, "score") /\ HeldAt(lang, "callback")' = HeldAt(lang, "callback")
    BY <2>1, <2>3 DEF Fresh, Processed, ValidateThrows, HeldAt
  <2>5. Stages'
    BY <2>1, <2>3, <2>4 DEF DataInv, Stages
  <2> QED
    BY <2>2, <2>5 DEF DataInv
<1> QED
  BY <1>1, <1>2, <1>3 DEF Next, Finished

\* The invariant of the data holds in every reachable state.
LEMMA DataInvariance == Spec => []DataInv
BY InitData, NextData, Invariance, PTL DEF Spec

\* Whatever the threads do, each category lists its articles by language and in
\* the order of the input, for every input and number of processors
\* (news_categories.hpp:48-112).
THEOREM CategoriesAreExact == Spec => []CategoriesExact
<1>1. DataInv => CategoriesExact
  BY DEF DataInv, Results, CategoriesExact, Leaving
<1> QED
  BY <1>1, DataInvariance, PTL

\* Unless a thread cannot be created, GetCategories throws exactly when the
\* files or the news of a language are not what Transform needs, for every
\* input and number of processors: the score has been appended before main reads it (master_component.cc:1051-1073).
THEOREM ThrowsExplained == Spec => []ThrowsAsExplained
<1>1. DataInv => ThrowsAsExplained
  BY DEF DataInv, Results, ThrowsAsExplained, Leaving, Lang
<1> QED
  BY <1>1, DataInvariance, PTL
=============================================================================
