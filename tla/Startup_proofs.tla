--------------------------- MODULE Startup_proofs ---------------------------
(***************************************************************************)
(* Proofs about Startup, for any number of threads and of classes, any     *)
(* platform and command line, and any number of references to register.    *)
(***************************************************************************)
EXTENDS Startup, TLAPS

Inside == Working \cup {"check"}

(* The types of what the loader and the manager keep.                      *)
LoaderTypes ==
  /\ s_initialized \in BOOLEAN /\ s_configFileOnCommandline \in BOOLEAN
  /\ s_instrSetOnCommandline \in BOOLEAN
  /\ s_tmpDir \in Nat
  /\ attempts \in Nat
  /\ extracted \subseteq File /\ loaded \subseteq File
  /\ tag \in Taglines
  /\ jvm \in BOOLEAN /\ refs \in 0..Refs

USE DEF At, Goto, Inside

LEMMA LibrariesAre ==
  ASSUME NEW t \in Taglines
  PROVE  Libraries(t) \in {{}, {t}}
BY DEF Libraries

(* The tagline the loader goes on with, by choice or by the bits it finds. *)
LEMMA TaglineIs ==
  /\ \A r \in DOMAIN instrSets :
       Tagline(instrSets[r]) \in {"dbg", "std", "sse41", "avx1"}
  /\ \A bits \in Probed :
       Tagline(getSupportedInstructionSet(bits)) \in {"std", "sse41", "avx1"}
<1>1. /\ Tagline("STANDARD") = "std" /\ Tagline("DEBUG") = "dbg"
      /\ Tagline("SSE41") = "sse41" /\ Tagline("SSE42") = "sse41"
      /\ Tagline("AVX1") = "avx1" /\ Tagline("AVX2") = "avx1"
  BY DEF Tagline
<1>2. \A r \in DOMAIN instrSets :
        instrSets[r] \in {"DEBUG", "STANDARD", "SSE41", "SSE42", "AVX1", "AVX2"}
  BY DEF instrSets
<1>3. ASSUME NEW bits \in Probed
      PROVE  Tagline(getSupportedInstructionSet(bits)) \in {"std", "sse41", "avx1"}
  BY <1>1 DEF getSupportedInstructionSet
<1>4. QED
  BY <1>1, <1>2, <1>3

LEMMA InitInv == Init => StartupInv
<1>1. SUFFICES ASSUME Init PROVE StartupInv
  OBVIOUS
<1>2. TypeOK
  <2>1. 0 \in 0..Refs /\ 0 \in 0..Accesses
    BY BoundsAssumption DEF Refs
  <2>2. /\ classState \in [Classes -> {"unseen", "running", "ready", "erroneous"}]
        /\ pc \in [Threads -> Stages]
        /\ touched \in [Threads -> Classes \cup {None}]
        /\ accesses \in [Threads -> 0..Accesses]
    BY <1>1, <2>1 DEF Init, Stages
  <2>3. outcome \in [Threads -> {None, "called", "UnsatisfiedLinkError",
                               "NoClassDefFoundError", "LinkageError",
                               "ExceptionInInitializerError"}]
    BY <1>1 DEF Init
  <2>4. LoaderTypes
    BY <1>1, <2>1 DEF Init, LoaderTypes, Taglines
  <2>5. QED
    BY <1>1, <2>2, <2>3, <2>4 DEF Init, TypeOK, LoaderTypes
<1>3. Alone /\ InAClass
  BY <1>1, NoneAssumption DEF Init, Alone, InAClass, Working
<1>4. \A t \in Threads : Flags(t) /\ OnDisk(t) /\ Registered(t)
  BY <1>1 DEF Init, Flags, OnDisk, Registered, Working
<1>5. ReadyIsLinked /\ OneSetLoaded /\ LoadedLast
  BY <1>1 DEF Init, ReadyIsLinked, OneSetLoaded, LoadedLast, Linked
<1>6. QED
  BY <1>1, <1>2, <1>3, <1>4, <1>5 DEF StartupInv, Init

(* While a thread is inside, nobody else is.                               *)
LEMMA OthersOutside ==
  ASSUME StartupInv, NEW t \in Threads, pc[t] \in Inside
  PROVE  /\ monitor = t
         /\ \A u \in Threads \ {t} : pc[u] \notin Inside
BY DEF StartupInv, Alone

(* Before the last stage of an attempt nothing but copies of jinitialise   *)
(* is loaded,                                                              *)
LEMMA NotYetLinked ==
  ASSUME StartupInv, NEW t \in Threads, pc[t] \in Inside \ {"finish"},
         ~s_initialized
  PROVE  ~Linked
<1>1. pc[t] # "finish"
  OBVIOUS
<1>2. \A u \in Threads \ {t} : pc[u] # "finish"
  BY OthersOutside DEF Working
<1>3. QED
  BY <1>1, <1>2 DEF StartupInv, LoadedLast

(* so that a new directory or another choice contradicts nothing.          *)
LEMMA LoadedStays ==
  ASSUME OneSetLoaded, ~Linked, UNCHANGED loaded, extracted \subseteq extracted'
  PROVE  OneSetLoaded' /\ ~Linked'
BY DEF OneSetLoaded, Linked

(* It goes on to the next stage.                                           *)
LEMMA GoesOn ==
  ASSUME StartupInv, NEW t \in Threads, NEW s \in Working,
         pc[t] \in Inside, ~s_initialized, GoOn(t, s),
         UNCHANGED <<world, s_initialized>>, LoaderTypes', OneSetLoaded',
         ~Linked' \/ s = "finish", Flags(t)', OnDisk(t)', Registered(t)'
  PROVE  StartupInv'
<1>1. pc \in [Threads -> Stages] /\ Working \subseteq Stages
  BY DEF StartupInv, TypeOK, Working, Stages
<1>2. pc' = [pc EXCEPT ![t] = s] /\ pc' \in [Threads -> Stages]
  BY <1>1 DEF GoOn
<1>3. TypeOK'
  BY <1>2 DEF StartupInv, TypeOK, LoaderTypes, GoOn, jvmside
<1>4. \A u \in Threads \ {t} : pc'[u] = pc[u] /\ pc[u] \notin Inside
  BY <1>1, <1>2, OthersOutside
<1>5. Alone'
  BY <1>1, <1>2, <1>4, OthersOutside DEF GoOn, Alone
<1>6. InAClass'
  BY <1>1, <1>2, <1>4 DEF StartupInv, InAClass, GoOn, jvmside, Working
<1>7. \A u \in Threads \ {t} : Flags(u)' /\ OnDisk(u)' /\ Registered(u)'
  BY <1>4 DEF Flags, OnDisk, Registered, Working
<1>8. ReadyIsLinked'
  BY DEF StartupInv, ReadyIsLinked, GoOn, jvmside
<1>9. LoadedLast'
  BY <1>1, <1>2 DEF LoadedLast
<1>10. QED
  BY <1>3, <1>5, <1>6, <1>7, <1>8, <1>9 DEF StartupInv

(* It fails: its class is in error, and nothing else of the JVM's changes. *)
LEMMA Fails ==
  ASSUME StartupInv, NEW t \in Threads, NEW error \in {Thrown, "LinkageError"},
         pc[t] \in Working, ~s_initialized, Fail(t, error),
         UNCHANGED <<world, s_initialized>>, LoaderTypes', OneSetLoaded', ~Linked'
  PROVE  StartupInv'
<1>1. /\ pc \in [Threads -> Stages] /\ "idle" \in Stages
      /\ classState \in [Classes -> {"unseen", "running", "ready", "erroneous"}]
      /\ touched[t] \in Classes
  BY DEF StartupInv, TypeOK, Stages, InAClass, Working
<1>2. pc' = [pc EXCEPT ![t] = "idle"] /\ pc' \in [Threads -> Stages]
  BY <1>1 DEF Fail
<1>3. TypeOK'
  BY <1>1, <1>2 DEF StartupInv, TypeOK, LoaderTypes, Fail, Thrown
<1>4. \A u \in Threads : pc'[u] \notin Inside
  BY <1>1, <1>2, OthersOutside DEF Working
<1>5. Alone'
  BY <1>4, NoneAssumption DEF Fail, Alone
<1>6. InAClass'
  BY <1>1, <1>2 DEF StartupInv, InAClass, Fail
<1>7. \A u \in Threads : Flags(u)' /\ OnDisk(u)' /\ Registered(u)'
  BY <1>4 DEF Flags, OnDisk, Registered, Working
<1>8. ReadyIsLinked'
  BY <1>1 DEF StartupInv, ReadyIsLinked, Fail
<1>9. QED
  BY <1>3, <1>5, <1>6, <1>7, <1>8 DEF StartupInv, LoadedLast

(* It returns, and the class is ready.                                     *)
LEMMA Returns ==
  ASSUME StartupInv, NEW t \in Threads, pc[t] \in Inside, Return(t),
         s_initialized', LinkedFor', OneSetLoaded', LoaderTypes',
         UNCHANGED world
  PROVE  StartupInv'
<1>1. /\ pc \in [Threads -> Stages] /\ "touching" \in Stages
      /\ classState \in [Classes -> {"unseen", "running", "ready", "erroneous"}]
      /\ touched[t] \in Classes
  BY DEF StartupInv, TypeOK, Stages, InAClass, Working
<1>2. pc' = [pc EXCEPT ![t] = "touching"] /\ pc' \in [Threads -> Stages]
  BY <1>1 DEF Return
<1>3. TypeOK'
  BY <1>1, <1>2 DEF StartupInv, TypeOK, LoaderTypes, Return
<1>4. \A u \in Threads : pc'[u] \notin Inside
  BY <1>1, <1>2, OthersOutside DEF Working
<1>5. Alone'
  BY <1>4, NoneAssumption DEF Return, Alone
<1>6. InAClass'
  BY <1>1, <1>2 DEF StartupInv, InAClass, Return
<1>7. \A u \in Threads : Flags(u)' /\ OnDisk(u)' /\ Registered(u)'
  BY <1>4 DEF Flags, OnDisk, Registered, Working
<1>8. ReadyIsLinked'
  BY DEF ReadyIsLinked, LinkedFor
<1>9. QED
  BY <1>3, <1>5, <1>6, <1>7, <1>8 DEF StartupInv, LoadedLast

(* A step outside the loader, up to taking the monitor.                    *)
LEMMA OutsideSteps ==
  ASSUME StartupInv, NEW t \in Threads, NEW s \in Stages \ Working,
         pc[t] \notin Inside, pc' = [pc EXCEPT ![t] = s],
         UNCHANGED <<world, fields, files, manager>>,
         \A c \in Classes : classState'[c] = "ready" => classState[c] = "ready",
         TypeOK', Alone', InAClass'
  PROVE  StartupInv'
<1> USE DEF fields, files, manager
<1>1. pc \in [Threads -> Stages]
  BY DEF StartupInv, TypeOK
<1>2. \A u \in Threads : pc'[u] = pc[u] \/ pc'[u] \notin Working
  BY <1>1
<1>3. \A u \in Threads : Flags(u)' /\ OnDisk(u)' /\ Registered(u)'
  BY <1>2 DEF StartupInv, Flags, OnDisk, Registered, Working, Extracted,
              Libraries, LinkedFor, Linked
<1>4. s_initialized' => LinkedFor'
  BY DEF StartupInv, LinkedFor, Linked, Libraries
<1>5. ReadyIsLinked'
  BY DEF StartupInv, ReadyIsLinked, Linked, Libraries
<1>6. OneSetLoaded'
  BY DEF StartupInv, OneSetLoaded, FileOf
<1>7. LoadedLast'
  <2>1. \A u \in Threads : pc[u] = "finish" => pc'[u] = "finish"
    BY <1>1 DEF Working
  <2>2. QED
    BY <2>1 DEF StartupInv, LoadedLast, Linked
<1>8. QED
  BY <1>3, <1>4, <1>5, <1>6, <1>7 DEF StartupInv

LEMMA JvmSteps ==
  ASSUME StartupInv, NEW t \in Threads,
         \/ \E c \in Classes : Touch(t, c)
         \/ InitialiseClass(t) \/ UseClass(t) \/ Enter(t)
  PROVE  StartupInv'
<1> USE DEF fields, files, manager, jvmside
<1>1. /\ pc \in [Threads -> Stages]
      /\ {"idle", "touching", "enter", "check"} \subseteq Stages \ Working
      /\ classState \in [Classes -> {"unseen", "running", "ready", "erroneous"}]
      /\ touched \in [Threads -> Classes \cup {None}]
      /\ accesses \in [Threads -> 0..Accesses]
  BY DEF StartupInv, TypeOK, Stages, Working
<1>2. \A u \in Threads : pc[u] # "idle" => touched[u] \in Classes
  BY DEF StartupInv, InAClass
<1>3. ASSUME NEW c \in Classes, Touch(t, c)
      PROVE  StartupInv'
  <2>1. pc[t] \notin Inside /\ pc' = [pc EXCEPT ![t] = "touching"]
    BY <1>3 DEF Touch, Working
  <2>2. accesses' \in [Threads -> 0..Accesses]
    BY <1>1, <1>3, BoundsAssumption DEF Touch
  <2>3. TypeOK'
    BY <1>1, <1>3, <2>1, <2>2 DEF Touch, StartupInv, TypeOK
  <2>4. Alone' /\ InAClass'
    BY <1>1, <1>2, <1>3, <2>1 DEF Touch, StartupInv, Alone, InAClass, Working
  <2>5. QED
    BY <1>1, <1>3, <2>1, <2>3, <2>4, OutsideSteps DEF Touch
<1>4. CASE InitialiseClass(t)
  <2>1. pc[t] \notin Inside /\ pc' = [pc EXCEPT ![t] = "enter"]
    BY <1>4 DEF InitialiseClass, Working
  <2>2. TypeOK'
    <3>1. classState' \in [Classes -> {"unseen", "running", "ready", "erroneous"}]
      BY <1>1, <1>4 DEF InitialiseClass
    <3>2. pc' \in [Threads -> Stages]
      BY <1>1, <2>1
    <3>3. QED
      BY <1>4, <3>1, <3>2 DEF InitialiseClass, StartupInv, TypeOK
  <2>3. Alone' /\ InAClass'
    BY <1>1, <1>2, <1>4, <2>1 DEF InitialiseClass, StartupInv, Alone, InAClass,
                                  Working
  <2>4. \A c \in Classes : classState'[c] = "ready" => classState[c] = "ready"
    BY <1>1, <1>4 DEF InitialiseClass
  <2>5. QED
    BY <1>1, <1>4, <2>1, <2>2, <2>3, <2>4, OutsideSteps DEF InitialiseClass
<1>5. CASE UseClass(t)
  <2>1. pc[t] \notin Inside /\ pc' = [pc EXCEPT ![t] = "idle"]
    BY <1>5 DEF UseClass, Working
  <2>2. TypeOK'
    BY <1>1, <1>5, <2>1 DEF UseClass, StartupInv, TypeOK
  <2>3. Alone' /\ InAClass'
    BY <1>1, <1>2, <1>5, <2>1 DEF UseClass, StartupInv, Alone, InAClass, Working
  <2>4. QED
    BY <1>1, <1>5, <2>1, <2>2, <2>3, OutsideSteps DEF UseClass
<1>6. CASE Enter(t)
  <2>1. pc[t] \notin Inside /\ pc' = [pc EXCEPT ![t] = "check"]
    BY <1>6 DEF Enter, Working
  <2>2. TypeOK'
    BY <1>1, <1>6, <2>1 DEF Enter, StartupInv, TypeOK
  <2>3. InAClass'
    BY <1>1, <1>2, <1>6, <2>1 DEF Enter, InAClass
  <2>4. Alone'
    <3>1. \A u \in Threads : pc[u] \notin Inside
      BY <1>6, NoneAssumption DEF Enter, StartupInv, Alone
    <3>2. QED
      BY <1>1, <1>6, <2>1, <3>1 DEF Enter, Alone
  <2>5. QED
    BY <1>1, <1>6, <2>1, <2>2, <2>3, <2>4, OutsideSteps DEF Enter
<1>7. QED
  BY <1>3, <1>4, <1>5, <1>6

(* What every step inside finds.                                           *)
LEMMA StageFacts ==
  ASSUME StartupInv, NEW t \in Threads
  PROVE  /\ LoaderTypes /\ OneSetLoaded
         /\ Flags(t) /\ OnDisk(t) /\ Registered(t)
         /\ pc[t] \in Working => ~s_initialized
         /\ pc \in [Threads -> Stages]
         /\ \A s \in Stages : [pc EXCEPT ![t] = s][t] = s
BY DEF StartupInv, TypeOK, LoaderTypes, Registered

LEMMA CheckKeepsInv ==
  ASSUME StartupInv, NEW t \in Threads, CheckInitialized(t)
  PROVE  StartupInv'
<1> USE DEF fields, files, manager
<1>1. OneSetLoaded' /\ LoaderTypes'
  BY StageFacts DEF CheckInitialized, OneSetLoaded, FileOf, LoaderTypes
<1>2. CASE s_initialized
  <2>1. s_initialized' /\ LinkedFor'
    BY <1>2 DEF CheckInitialized, StartupInv, LinkedFor, Linked, Libraries
  <2>2. QED
    BY <1>1, <1>2, <2>1, Returns DEF CheckInitialized
<1>3. CASE ~s_initialized
  <2>1. GoOn(t, "configure") /\ "configure" \in Working
    BY <1>3 DEF CheckInitialized, Working
  <2>2. pc'[t] = "configure"
    BY <2>1, StageFacts DEF GoOn, Stages
  <2>3. Flags(t)' /\ OnDisk(t)' /\ Registered(t)'
    BY <1>3, <2>2 DEF CheckInitialized, Flags, OnDisk, Registered
  <2>4. ~Linked'
    BY <1>3, NotYetLinked DEF CheckInitialized, Linked
  <2>5. QED
    BY <1>1, <1>3, <2>1, <2>3, <2>4, GoesOn DEF CheckInitialized
<1>4. QED
  BY <1>2, <1>3

LEMMA ConfigureKeepsInv ==
  ASSUME StartupInv, NEW t \in Threads, Configure(t)
  PROVE  StartupInv'
<1> USE DEF fields, files, manager
<1>1. pc[t] \in Working /\ ~s_initialized /\ UNCHANGED <<world, s_initialized>>
  BY StageFacts DEF Configure, Working
<1> ~Linked
  BY <1>1, NotYetLinked DEF Configure
<1>2. world.ownConfig \in BOOLEAN
  BY DEF StartupInv, TypeOK, World
<1>3. LoaderTypes' /\ OneSetLoaded' /\ ~Linked'
  BY <1>2, StageFacts, LoadedStays DEF Configure, LoaderTypes
<1>4. CASE Fail(t, Thrown)
  BY <1>1, <1>3, <1>4, Fails
<1>5. CASE ~Fail(t, Thrown)
  <2>1. /\ GoOn(t, "prepare") /\ "prepare" \in Working
        /\ s_instrSetOnCommandline' = (world.request # None)
        /\ world.request \in {None} \cup DOMAIN instrSets
    BY <1>5 DEF Configure, Working
  <2>2. pc'[t] = "prepare"
    BY <2>1, StageFacts DEF GoOn, Stages
  <2>3. Flags(t)' /\ OnDisk(t)' /\ Registered(t)'
    BY <1>1, <2>1, <2>2 DEF Flags, OnDisk, Registered
  <2>4. QED
    BY <1>1, <1>3, <2>1, <2>3, GoesOn
<1>6. QED
  BY <1>4, <1>5

(* Extracting writes what it is asked to, or fails; what was there stays.  *)
LEMMA ExtractFacts ==
  ASSUME LoaderTypes, NEW t \in Threads, NEW libs \in SUBSET Taglines,
         NEW dir \in Nat, NEW next, Extract(t, libs, dir, next)
  PROVE  /\ s_tmpDir' = dir
         /\ extracted \subseteq extracted' /\ extracted' \subseteq File
         /\ \/ Fail(t, Thrown)
            \/ /\ GoOn(t, next)
               /\ \A l \in libs : [lib |-> l, dir |-> dir] \in extracted'
<1>1. PICK written \in SUBSET libs :
        /\ extracted' = extracted \cup {[lib |-> l, dir |-> dir] : l \in written}
        /\ \/ written = libs /\ GoOn(t, next)
           \/ written # libs /\ Fail(t, Thrown)
  BY DEF Extract
<1>2. {[lib |-> l, dir |-> dir] : l \in written} \subseteq File
  BY DEF File
<1>3. extracted \subseteq extracted' /\ extracted' \subseteq File
  BY <1>1, <1>2 DEF LoaderTypes
<1>4. QED
  BY <1>1, <1>3 DEF Extract

LEMMA PrepareKeepsInv ==
  ASSUME StartupInv, NEW t \in Threads, Prepare(t)
  PROVE  StartupInv'
<1> USE DEF fields, files, manager
<1>1. pc[t] \in Working /\ ~s_initialized /\ UNCHANGED <<world, s_initialized>>
  BY StageFacts DEF Prepare, Extract, Working
<1> ~Linked
  BY <1>1, NotYetLinked DEF Prepare
<1>2. "loadInit" \in Working /\ "loadInit" \in Stages
  BY DEF Working, Stages
<1>3. ASSUME GoOn(t, "loadInit"), UNCHANGED s_instrSetOnCommandline,
             Extracted("initialise")', LoaderTypes', OneSetLoaded', ~Linked'
      PROVE  StartupInv'
  <2>1. pc'[t] = "loadInit"
    BY <1>2, <1>3, StageFacts DEF GoOn
  <2>2. Flags(t)' /\ OnDisk(t)' /\ Registered(t)'
    BY <1>1, <1>3, <2>1, StageFacts
       DEF Prepare, Flags, OnDisk, Registered, Working
  <2>3. QED
    BY <1>1, <1>2, <1>3, <2>2, GoesOn
<1>4. CASE UNCHANGED <<fields, files>>
  <2>1. LoaderTypes' /\ OneSetLoaded' /\ ~Linked'
    BY <1>1, <1>4, StageFacts, LoadedStays DEF Prepare, LoaderTypes
  <2>2. CASE Fail(t, Thrown)
    BY <1>1, <2>1, <2>2, Fails
  <2>3. CASE s_configFileOnCommandline /\ GoOn(t, "loadInit")
    BY <1>3, <1>4, <2>1, <2>3 DEF Extracted
  <2>4. CASE /\ attempts' = attempts + 1
             /\ Extract(t, Libraries("initialise"), attempts + 1, "loadInit")
    BY <1>4, <2>4, StageFacts DEF LoaderTypes
  <2>5. QED
    BY <2>2, <2>3, <2>4 DEF Prepare
<1>5. CASE /\ attempts' = attempts + 1
           /\ Extract(t, Libraries("initialise"), attempts + 1, "loadInit")
           /\ UNCHANGED <<s_initialized, s_configFileOnCommandline,
                          s_instrSetOnCommandline, tag, loaded>>
  <2>1. Libraries("initialise") = {"initialise"} /\ attempts + 1 \in Nat
    BY StageFacts DEF Libraries, LoaderTypes
  <2>2. Libraries("initialise") \in SUBSET Taglines
    BY <2>1 DEF Taglines
  <2>3. /\ s_tmpDir' = attempts + 1
        /\ extracted \subseteq extracted' /\ extracted' \subseteq File
        /\ \/ Fail(t, Thrown)
           \/ /\ GoOn(t, "loadInit")
              /\ [lib |-> "initialise", dir |-> attempts + 1] \in extracted'
    BY <1>5, <2>1, <2>2, ExtractFacts, StageFacts
  <2>4. LoaderTypes' /\ OneSetLoaded' /\ ~Linked'
    BY <1>1, <1>5, <2>1, <2>3, StageFacts, LoadedStays
       DEF Prepare, LoaderTypes
  <2>5. CASE Fail(t, Thrown)
    BY <1>1, <2>4, <2>5, Fails
  <2>6. CASE /\ GoOn(t, "loadInit")
             /\ [lib |-> "initialise", dir |-> attempts + 1] \in extracted'
    BY <1>3, <1>5, <2>3, <2>4, <2>6 DEF Extracted
  <2>7. QED
    BY <2>3, <2>5, <2>6
<1>6. QED
  BY <1>4, <1>5 DEF Prepare

LEMMA LoadInitKeepsInv ==
  ASSUME StartupInv, NEW t \in Threads, LoadInit(t)
  PROVE  StartupInv'
<1> USE DEF fields, files, manager
<1>1. pc[t] \in Working /\ ~s_initialized /\ UNCHANGED <<world, s_initialized>>
  BY StageFacts DEF LoadInit, Working
<1> ~Linked
  BY <1>1, NotYetLinked DEF LoadInit
<1>2. CASE UNCHANGED loaded /\ \E error \in {Thrown, "LinkageError"} : Fail(t, error)
  <2>1. LoaderTypes' /\ OneSetLoaded' /\ ~Linked'
    BY <1>1, <1>2, StageFacts, LoadedStays DEF LoadInit, LoaderTypes
  <2>2. QED
    BY <1>1, <1>2, <2>1, Fails
<1>3. CASE loaded' = loaded \cup {FileOf("initialise")} /\ GoOn(t, "choose")
  <2>1. FileOf("initialise") \in File
    BY StageFacts DEF FileOf, File, LoaderTypes, Taglines
  <2>2. LoaderTypes'
    BY <1>1, <1>3, <2>1, StageFacts DEF LoadInit, LoaderTypes
  <2>3. Extracted("initialise")
    BY StageFacts DEF LoadInit, OnDisk
  <2>4. OneSetLoaded' /\ ~Linked'
    BY <1>1, <1>3, <2>3, StageFacts
       DEF LoadInit, OneSetLoaded, Linked, FileOf, Extracted
  <2>5. "choose" \in Working /\ "choose" \in Stages
    BY DEF Working, Stages
  <2>6. pc'[t] = "choose"
    BY <1>3, <2>5, StageFacts DEF GoOn
  <2>7. Flags(t)' /\ OnDisk(t)' /\ Registered(t)'
    BY <1>1, <2>6, StageFacts DEF LoadInit, Flags, OnDisk, Registered, Working
  <2>8. QED
    BY <1>1, <1>3, <2>2, <2>4, <2>5, <2>7, GoesOn
<1>4. QED
  BY <1>2, <1>3 DEF LoadInit

LEMMA ChooseKeepsInv ==
  ASSUME StartupInv, NEW t \in Threads, ChooseInstructionSet(t)
  PROVE  StartupInv'
<1> USE DEF fields, files, manager
<1>1. pc[t] \in Working /\ ~s_initialized /\ UNCHANGED <<world, s_initialized>>
  BY StageFacts DEF ChooseInstructionSet, Working
<1> ~Linked
  BY <1>1, NotYetLinked DEF ChooseInstructionSet
<1>2. /\ world.request \in {None} \cup DOMAIN instrSets
      /\ s_instrSetOnCommandline = (world.request # None)
  BY StageFacts DEF ChooseInstructionSet, Flags, Working
<1>3. /\ tag' \in {"dbg", "std", "sse41", "avx1"}
      /\ world.request # None => tag' = Tagline(instrSets[world.request])
  <2>1. CASE s_instrSetOnCommandline
    BY <1>2, <2>1, TaglineIs DEF ChooseInstructionSet
  <2>2. CASE ~s_instrSetOnCommandline
    BY <1>2, <2>2, TaglineIs DEF ChooseInstructionSet
  <2>3. QED
    BY <1>2, <2>1, <2>2
<1>4. LoaderTypes' /\ OneSetLoaded' /\ ~Linked'
  BY <1>1, <1>3, StageFacts, LoadedStays
     DEF ChooseInstructionSet, LoaderTypes, Taglines
<1>5. GoOn(t, "extract") /\ "extract" \in Working /\ "extract" \in Stages
  BY DEF ChooseInstructionSet, Working, Stages
<1>6. pc'[t] = "extract"
  BY <1>5, StageFacts DEF GoOn
<1>7. Flags(t)' /\ OnDisk(t)' /\ Registered(t)'
  BY <1>1, <1>2, <1>3, <1>6 DEF ChooseInstructionSet, Flags, OnDisk, Registered
<1>8. QED
  BY <1>1, <1>4, <1>5, <1>7, GoesOn

LEMMA ExtractLibrariesKeepsInv ==
  ASSUME StartupInv, NEW t \in Threads, ExtractLibraries(t)
  PROVE  StartupInv'
<1> USE DEF fields, files, manager
<1>1. /\ pc[t] \in Working /\ ~s_initialized
      /\ UNCHANGED <<world, s_initialized, s_configFileOnCommandline,
                     s_instrSetOnCommandline, tag, attempts, loaded, manager>>
  BY StageFacts DEF ExtractLibraries, Working
<1> ~Linked
  BY <1>1, NotYetLinked DEF ExtractLibraries
<1>2. Libraries(tag) \in SUBSET Taglines /\ s_tmpDir \in Nat
  BY LibrariesAre, StageFacts DEF LoaderTypes
<1>3. /\ s_tmpDir' = s_tmpDir
      /\ extracted \subseteq extracted' /\ extracted' \subseteq File
      /\ \/ Fail(t, Thrown)
         \/ GoOn(t, "load") /\ \A l \in Libraries(tag) : Extracted(l)'
  <2>1. CASE s_configFileOnCommandline
    BY <1>1, <2>1, StageFacts DEF ExtractLibraries, LoaderTypes, Extracted
  <2>2. CASE Extract(t, Libraries(tag), s_tmpDir, "load")
    BY <1>2, <2>2, ExtractFacts, StageFacts DEF Extracted
  <2>3. QED
    BY <2>1, <2>2 DEF ExtractLibraries
<1>4. LoaderTypes' /\ OneSetLoaded' /\ ~Linked'
  BY <1>1, <1>3, StageFacts, LoadedStays DEF LoaderTypes
<1>5. CASE Fail(t, Thrown)
  BY <1>1, <1>4, <1>5, Fails
<1>6. CASE GoOn(t, "load") /\ \A l \in Libraries(tag) : Extracted(l)'
  <2>1. "load" \in Working /\ "load" \in Stages
    BY DEF Working, Stages
  <2>2. pc'[t] = "load"
    BY <1>6, <2>1, StageFacts DEF GoOn
  <2>3. Libraries(tag)' = Libraries(tag)
    BY <1>1 DEF Libraries
  <2>4. Flags(t)'
    BY <1>1, <2>2, StageFacts DEF ExtractLibraries, Flags, Working
  <2>5. OnDisk(t)' /\ Registered(t)'
    BY <1>1, <1>6, <2>2, <2>3 DEF OnDisk, Registered
  <2>6. QED
    BY <1>1, <1>4, <1>6, <2>1, <2>4, <2>5, GoesOn
<1>7. QED
  BY <1>3, <1>5, <1>6

LEMMA LoadLibrariesKeepsInv ==
  ASSUME StartupInv, NEW t \in Threads, LoadLibraries(t)
  PROVE  StartupInv'
<1> USE DEF fields, files, manager
<1>1. /\ pc[t] \in Working /\ ~s_initialized
      /\ UNCHANGED <<world, fields, files, manager>>
  BY StageFacts DEF LoadLibraries, Working
<1> ~Linked
  BY <1>1, NotYetLinked DEF LoadLibraries
<1>2. LoaderTypes' /\ OneSetLoaded' /\ ~Linked'
  BY <1>1, StageFacts, LoadedStays DEF LoaderTypes
<1>3. CASE \E error \in {Thrown, "LinkageError"} : Fail(t, error)
  BY <1>1, <1>2, <1>3, Fails
<1>4. ASSUME NEW s \in {"finish", "onload"}, GoOn(t, s),
             s = "finish" <=> Libraries(tag) = {}
      PROVE  StartupInv'
  <2>1. s \in Working /\ s \in Stages
    BY <1>4 DEF Working, Stages
  <2>2. pc'[t] = s
    BY <1>4, <2>1, StageFacts DEF GoOn
  <2>3. Libraries(tag)' = Libraries(tag) /\ Libraries(tag) \in {{}, {tag}}
    BY <1>1, LibrariesAre, StageFacts DEF Libraries, LoaderTypes
  <2>4. Flags(t)'
    BY <1>1, <1>4, <2>2, StageFacts DEF LoadLibraries, Flags, Working
  <2>5. OnDisk(t)'
    BY <1>1, <1>4, <2>2, <2>3, StageFacts DEF LoadLibraries, OnDisk, Extracted
  <2>6. Registered(t)'
    BY <1>1, <1>4, <2>2, <2>3 DEF Registered, LinkedFor
  <2>7. QED
    BY <1>1, <1>2, <1>4, <2>1, <2>4, <2>5, <2>6, GoesOn
<1>5. QED
  BY <1>3, <1>4 DEF LoadLibraries

(* The JVM drops the library again.                                        *)
LEMMA UnloadKeepsInv ==
  ASSUME StartupInv, NEW t \in Threads, pc[t] \in Working \ {"finish"}, Unload(t),
         UNCHANGED <<world, fields, attempts, extracted>>
  PROVE  StartupInv'
<1> USE DEF fields, Unload
<1>1. ~s_initialized /\ ~Linked
  BY StageFacts, NotYetLinked
<1>2. LoaderTypes' /\ OneSetLoaded' /\ ~Linked'
  <2>1. refs' \in 0..Refs
    BY BoundsAssumption DEF Refs
  <2>2. QED
    BY <1>1, <2>1, StageFacts, LoadedStays DEF LoaderTypes
<1>3. QED
  BY <1>1, <1>2, Fails

LEMMA OnLoadKeepsInv ==
  ASSUME StartupInv, NEW t \in Threads, OnLoad(t)
  PROVE  StartupInv'
<1> USE DEF fields
<1>1. /\ pc[t] \in Working \ {"finish"} /\ ~s_initialized
      /\ UNCHANGED <<world, fields, attempts, extracted>>
  BY StageFacts DEF OnLoad, Working
<1> ~Linked
  BY <1>1, NotYetLinked
<1>2. CASE Unload(t)
  BY <1>1, <1>2, UnloadKeepsInv
<1>3. CASE jvm' = TRUE /\ GoOn(t, "register") /\ UNCHANGED <<refs, loaded>>
  <2>1. LoaderTypes' /\ OneSetLoaded' /\ ~Linked'
    BY <1>1, <1>3, StageFacts, LoadedStays DEF LoaderTypes
  <2>2. "register" \in Working /\ "register" \in Stages
    BY DEF Working, Stages
  <2>3. pc'[t] = "register"
    BY <1>3, <2>2, StageFacts DEF GoOn
  <2>4. Libraries(tag)' = Libraries(tag)
    BY <1>1 DEF Libraries
  <2>5. Flags(t)'
    BY <1>1, <2>3, StageFacts DEF OnLoad, Flags, Working
  <2>6. OnDisk(t)' /\ Registered(t)'
    BY <1>1, <1>3, <2>3, <2>4, StageFacts
       DEF OnLoad, OnDisk, Registered, Extracted
  <2>7. QED
    BY <1>1, <1>3, <2>1, <2>2, <2>5, <2>6, GoesOn
<1>4. QED
  BY <1>2, <1>3 DEF OnLoad

(* Registering one more stays where it is.                                 *)
LEMMA RegisterKeepsInv ==
  ASSUME StartupInv, NEW t \in Threads, RegisterReference(t)
  PROVE  StartupInv'
<1> USE DEF fields, jvmside
<1>1. /\ pc[t] \in Working \ {"finish"} /\ ~s_initialized /\ refs < Refs
      /\ UNCHANGED <<world, fields, attempts, extracted>>
  BY StageFacts DEF RegisterReference, Working
<1>2. CASE Unload(t)
  BY <1>1, <1>2, UnloadKeepsInv
<1>3. CASE refs' = refs + 1 /\ UNCHANGED <<jvm, loaded, pc, jvmside, monitor>>
  <2>1. refs' \in 0..Refs
    BY <1>1, <1>3, StageFacts, BoundsAssumption DEF LoaderTypes, Refs
  <2>2. TypeOK'
    BY <1>1, <1>3, <2>1 DEF StartupInv, TypeOK
  <2>3. Alone' /\ InAClass'
    BY <1>3 DEF StartupInv, Alone, InAClass
  <2>4. \A u \in Threads : pc[u] # "finish"
    BY <1>1, OthersOutside DEF RegisterReference, Working
  <2>5. \A u \in Threads : Flags(u)' /\ OnDisk(u)' /\ Registered(u)'
    BY <1>1, <1>3, <2>4 DEF StartupInv, Flags, OnDisk, Registered, Extracted,
                            Libraries
  <2>6. ReadyIsLinked' /\ OneSetLoaded' /\ LoadedLast'
    BY <1>1, <1>3 DEF StartupInv, ReadyIsLinked, OneSetLoaded, FileOf,
                      LoadedLast, Linked
  <2>7. QED
    BY <1>1, <2>2, <2>3, <2>5, <2>6 DEF StartupInv
<1>4. QED
  BY <1>2, <1>3 DEF RegisterReference

LEMMA OnLoadReturnsKeepsInv ==
  ASSUME StartupInv, NEW t \in Threads, OnLoadReturns(t)
  PROVE  StartupInv'
<1> USE DEF fields, manager
<1>1. /\ pc[t] = "register" /\ pc[t] \in Working /\ ~s_initialized /\ refs = Refs
      /\ UNCHANGED <<world, fields, attempts, extracted, manager>>
      /\ loaded' = loaded \cup {FileOf(tag)} /\ GoOn(t, "finish")
  BY StageFacts DEF OnLoadReturns, Working
<1>2. /\ Libraries(tag) = {tag} /\ Extracted(tag) /\ jvm /\ tag # "initialise"
      /\ world.request # None => tag = Tagline(instrSets[world.request])
      /\ ~Linked
  BY <1>1, StageFacts, NotYetLinked DEF Flags, OnDisk, Registered
<1>3. LoaderTypes'
  <2>1. FileOf(tag) \in File
    BY StageFacts DEF FileOf, File, LoaderTypes
  <2>2. QED
    BY <1>1, <2>1, StageFacts DEF LoaderTypes
<1>4. /\ FileOf(tag).lib = tag
      /\ FileOf(tag).dir # 0 => FileOf(tag) \in extracted
  BY <1>2 DEF FileOf, Extracted
<1>5. OneSetLoaded'
  <2>1. FileOf(tag)' = FileOf(tag)
    BY <1>1 DEF FileOf
  <2>2. \A f \in loaded : f.lib = "initialise" /\ (f.dir # 0 => f \in extracted)
    BY <1>2, StageFacts DEF Linked, OneSetLoaded
  <2>3. QED
    BY <1>1, <1>2, <1>4, <2>1, <2>2 DEF OneSetLoaded
<1>6. "finish" \in Working /\ "finish" \in Stages
  BY DEF Working, Stages
<1>7. pc'[t] = "finish"
  BY <1>1, <1>6, StageFacts DEF GoOn
<1>8. LinkedFor'
  BY <1>1, <1>2, <1>4 DEF LinkedFor, Linked
<1>9. Flags(t)' /\ OnDisk(t)' /\ Registered(t)'
  BY <1>1, <1>7, <1>8, StageFacts DEF Flags, OnDisk, Registered, Working
<1>10. QED
  BY <1>1, <1>3, <1>5, <1>6, <1>9, GoesOn

LEMMA FinishKeepsInv ==
  ASSUME StartupInv, NEW t \in Threads, Finish(t)
  PROVE  StartupInv'
<1> USE DEF fields, files, manager
<1>1. pc[t] \in Inside /\ Return(t) /\ s_initialized' /\ UNCHANGED world
  BY DEF Finish, Working
<1>2. LinkedFor'
  BY StageFacts DEF Finish, Registered, LinkedFor, Linked, Libraries
<1>3. LoaderTypes' /\ OneSetLoaded'
  BY StageFacts DEF Finish, LoaderTypes, OneSetLoaded, FileOf
<1>4. QED
  BY <1>1, <1>2, <1>3, Returns

LEMMA StepKeepsInv == StartupInv /\ [Next]_vars => StartupInv'
<1>1. SUFFICES ASSUME StartupInv, [Next]_vars PROVE StartupInv'
  OBVIOUS
<1>2. CASE UNCHANGED vars
  BY <1>1, <1>2
     DEF StartupInv, TypeOK, Alone, InAClass, Flags, OnDisk, Registered,
       Extracted, LinkedFor, Linked, Libraries, ReadyIsLinked, OneSetLoaded,
       FileOf, LoadedLast, vars, jvmside, fields, files, manager
<1>3. CASE Next
  <2>1. PICK t \in Threads : Step(t) \/ \E c \in Classes : Touch(t, c)
    BY <1>3 DEF Next
  <2>2. QED
    BY <1>1, <2>1, JvmSteps, CheckKeepsInv, ConfigureKeepsInv, PrepareKeepsInv,
       LoadInitKeepsInv, ChooseKeepsInv, ExtractLibrariesKeepsInv,
       LoadLibrariesKeepsInv, OnLoadKeepsInv, RegisterKeepsInv,
       OnLoadReturnsKeepsInv, FinishKeepsInv DEF Step
<1>4. QED
  BY <1>1, <1>2, <1>3

-----------------------------------------------------------------------------
(* The invariant: one thread at a time inside NativeLibraries.initialize,  *)
(* which leaves flags, files and references as its stage says.             *)
THEOREM InvariantHolds == Spec => []StartupInv
<1>1. QED
  BY InitInv, StepKeepsInv, PTL DEF Spec

(* A class that is ready has its native library linked and all references  *)
(* of JVMManager registered, after any number of failed attempts.          *)
THEOREM ReadyMeansLinked == Spec => []ReadyIsLinked
<1>1. StartupInv => ReadyIsLinked
  BY DEF StartupInv
<1>2. QED
  BY <1>1, InvariantHolds, PTL

(* Whatever the probe finds at each attempt and however many attempts      *)
(* fail, the process has the libraries of the last attempt and of no other,*)
(* those the command line asked for if it did (NativeLibraries.initialize).*)
THEOREM LastAttemptIsLoaded == Spec => []OneSetLoaded
<1>1. StartupInv => OneSetLoaded
  BY DEF StartupInv
<1>2. QED
  BY <1>1, InvariantHolds, PTL

(* Once s_initialized is set nobody gets past the check of it: the loader  *)
(* and the manager are left alone for good.                                *)
THEOREM LoadsOnce == Spec => InitialisedOnce
<1>1. ASSUME StartupInv, [Next]_vars
      PROVE  [s_initialized => s_initialized' /\ UNCHANGED <<files, manager>>]_vars
  <2>1. SUFFICES ASSUME Next, s_initialized
                 PROVE  s_initialized' /\ UNCHANGED <<files, manager>>
    BY <1>1
  <2>2. PICK t \in Threads : Step(t) \/ \E c \in Classes : Touch(t, c)
    BY <2>1 DEF Next
  <2>3. pc[t] \notin Working
    BY <1>1, <2>1, StageFacts
  <2>4. \/ \E c \in Classes : Touch(t, c)
        \/ InitialiseClass(t) \/ UseClass(t) \/ Enter(t) \/ CheckInitialized(t)
    BY <2>2, <2>3 DEF Step, Configure, Prepare, LoadInit, ChooseInstructionSet,
         ExtractLibraries, LoadLibraries, OnLoad, RegisterReference,
         OnLoadReturns, Finish, Working
  <2>5. QED
    BY <2>1, <2>4 DEF Touch, InitialiseClass, UseClass, Enter, CheckInitialized,
         fields
<1>2. QED
  BY <1>1, InvariantHolds, PTL DEF Spec, InitialisedOnce
=============================================================================
