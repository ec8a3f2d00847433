-------------------------------- MODULE Startup --------------------------------
(***************************************************************************)
(* How the native code gets into the JVM.  The static initialisers of      *)
(* Materialisers, DOGMA and Stdlib call NativeLibraries.initialize, which  *)
(* extracts and loads the library that probes the CPU, then the ones for   *)
(* its instruction set; loading the last of them runs JNI_OnLoad of        *)
(* jvmmanager.cc, which registers the classes, methods and fields the      *)
(* native code will use.  Any step may fail, and another class, touched by *)
(* any thread, then starts over with what the first attempt left.          *)
(***************************************************************************)
EXTENDS Naturals

CONSTANTS Threads,    \* Java threads
          Classes,    \* classes whose static initialiser calls initialize
          Accesses,   \* bound on how often a thread touches a class
          ClassRefs,  \* how many classes, then methods and fields, the
          MemberRefs, \*   manager registers
          Platforms, Requests, CPUs   \* machines and command lines, see World

ASSUME BoundsAssumption ==
  /\ Accesses \in Nat \ {0} /\ ClassRefs \in Nat \ {0} /\ MemberRefs \in Nat
  /\ Threads # {} /\ Classes # {}

None == "none"

ASSUME NoneAssumption == None \notin Threads \cup Classes

Refs == ClassRefs + MemberRefs

(* -DinstructionSet and -DconfigFile, the platform, what the CPU can do.   *)
World == [platform : Platforms, request : Requests, ownConfig : BOOLEAN,
          cpu : CPUs]

VARIABLES world,
          classState,  \* the JVM's state of each class, its initialising thread
          pc, touched, \* where each thread is, and in which class
          accesses,    \* how many classes each thread has touched
          outcome,     \* what the last touch gave
          monitor,     \* holder of the monitor of NativeLibraries
          s_initialized, s_configFileOnCommandline, s_instrSetOnCommandline,
          s_tmpDir,
          attempts,    \* temporary directories made
          extracted, loaded,   \* files written, libraries in the process
          tag,         \* initialize's instructionSet, as a tagline
          jvm, refs    \* JVMManager: _jvm is set, references registered

fields  == <<s_initialized, s_configFileOnCommandline, s_instrSetOnCommandline,
             s_tmpDir, tag>>
files   == <<attempts, extracted, loaded>>
manager == <<jvm, refs>>
jvmside == <<classState, touched, accesses, outcome>>
vars    == <<world, jvmside, pc, monitor, fields, files, manager>>

(* SupportedInstructionSet, and the keys the command line may use.         *)
Tagline(set) ==
  CASE set = "STANDARD" -> "std"
    [] set \in {"SSE41", "SSE42"} -> "sse41"
    [] set \in {"AVX1", "AVX2"} -> "avx1"
    [] set = "DEBUG" -> "dbg"

instrSets == [dbg |-> "DEBUG", std |-> "STANDARD", sse41 |-> "SSE41",
              sse42 |-> "SSE42", avx1 |-> "AVX1", avx2 |-> "AVX2"]

(* The bits the two calls of cpuid leave in ECX and in EBX.  cpuid takes   *)
(* the leaf from EAX; the constraint "0" puts it in the output operand's   *)
(* register, ECX and then EBX, and EAX has what happens to be there.  So   *)
(* any bits may come back, those of this CPU or not.                       *)
Probed == [ecx : SUBSET {"sse41", "sse42", "avx1"}, ebx : SUBSET {"avx2"}]

(* They are looked at from the highest set down.                           *)
getSupportedInstructionSet(bits) ==
  IF "avx1" \in bits.ecx
  THEN IF "avx2" \in bits.ebx THEN "AVX2" ELSE "AVX1"
  ELSE IF "sse42" \in bits.ecx THEN "SSE42"
  ELSE IF "sse41" \in bits.ecx THEN "SSE41" ELSE "STANDARD"

(* The properties file: the library to extract and load for a tagline is   *)
(* known by the tagline.  The lists of one the file does not have are      *)
(* empty.                                                                  *)
Libraries(t) ==
  IF world.platform = "w32" /\ t \notin {"initialise", "dbg", "std"} THEN {}
  ELSE {t}

Taglines == {"initialise", "dbg", "std", "sse41", "avx1"}
File == [lib : Taglines, dir : Nat]

Stages == {"idle", "touching", "enter", "check", "configure", "prepare",
           "loadInit", "choose", "extract", "load", "onload", "register",
           "finish"}

TypeOK ==
  /\ world \in World
  /\ classState \in [Classes -> {"unseen", "running", "ready", "erroneous"}]
  /\ pc \in [Threads -> Stages]
  /\ touched \in [Threads -> Classes \cup {None}]
  /\ accesses \in [Threads -> 0..Accesses]
  /\ outcome \in [Threads -> {None, "called", "UnsatisfiedLinkError",
                              "NoClassDefFoundError", "LinkageError",
                              "ExceptionInInitializerError"}]
  /\ monitor \in Threads \cup {None}
  /\ s_initialized \in BOOLEAN /\ s_configFileOnCommandline \in BOOLEAN
  /\ s_instrSetOnCommandline \in BOOLEAN
  /\ s_tmpDir \in Nat
  /\ attempts \in Nat
  /\ extracted \subseteq File /\ loaded \subseteq File
  /\ tag \in Taglines
  /\ jvm \in BOOLEAN /\ refs \in 0..Refs

Init ==
  /\ world \in World
  /\ classState = [c \in Classes |-> "unseen"]
  /\ pc = [t \in Threads |-> "idle"]
  /\ touched = [t \in Threads |-> None]
  /\ accesses = [t \in Threads |-> 0]
  /\ outcome = [t \in Threads |-> None]
  /\ monitor = None
  /\ s_initialized = FALSE /\ s_configFileOnCommandline = FALSE
  /\ s_instrSetOnCommandline = FALSE
  /\ s_tmpDir = 0
  /\ attempts = 0 /\ extracted = {} /\ loaded = {}
  /\ tag = "initialise"
  /\ jvm = FALSE /\ refs = 0

Goto(t, stage) == pc' = [pc EXCEPT ![t] = stage]
At(t, stage)   == pc[t] = stage

-----------------------------------------------------------------------------
(* Class initialisation, as the JVM does it: once, by the first thread to  *)
(* touch the class while others wait; for good when it fails.              *)
Touch(t, c) ==
  /\ At(t, "idle") /\ accesses[t] < Accesses
  /\ touched' = [touched EXCEPT ![t] = c]
  /\ accesses' = [accesses EXCEPT ![t] = @ + 1]
  /\ outcome' = [outcome EXCEPT ![t] = None]
  /\ Goto(t, "touching")
  /\ UNCHANGED <<world, classState, monitor, fields, files, manager>>

InitialiseClass(t) ==
  /\ At(t, "touching") /\ classState[touched[t]] = "unseen"
  /\ classState' = [classState EXCEPT ![touched[t]] = "running"]
  /\ Goto(t, "enter")
  /\ UNCHANGED <<world, touched, accesses, outcome, monitor, fields, files,
                 manager>>

(* The class is there, and a native method of it is called.                *)
Linked == \E f \in loaded : f.lib # "initialise"

UseClass(t) ==
  /\ At(t, "touching") /\ classState[touched[t]] \in {"ready", "erroneous"}
  /\ outcome' = [outcome EXCEPT ![t] =
       IF classState[touched[t]] = "erroneous" THEN "NoClassDefFoundError"
       ELSE IF Linked THEN "called" ELSE "UnsatisfiedLinkError"]
  /\ Goto(t, "idle")
  /\ UNCHANGED <<world, classState, touched, accesses, monitor, fields, files,
                 manager>>

(* initialize returns, and so does the static initialiser; the native call *)
(* the class was touched for follows.                                      *)
Return(t) ==
  /\ monitor' = None
  /\ classState' = [classState EXCEPT ![touched[t]] = "ready"]
  /\ Goto(t, "touching")
  /\ UNCHANGED <<touched, accesses, outcome>>

(* Mutant: an error leaves the monitor held.                               *)
FailHolding(t, error) ==
  /\ classState' = [classState EXCEPT ![touched[t]] = "erroneous"]
  /\ outcome' = [outcome EXCEPT ![t] = error]
  /\ Goto(t, "idle")
  /\ UNCHANGED <<touched, accesses, monitor>>

(* initialize throws.  What it throws of its own is wrapped by the JVM, an *)
(* Error from loading a library passes as it is.                           *)
Fail(t, error) ==
  /\ monitor' = None
  /\ classState' = [classState EXCEPT ![touched[t]] = "erroneous"]
  /\ outcome' = [outcome EXCEPT ![t] = error]
  /\ Goto(t, "idle")
  /\ UNCHANGED <<touched, accesses>>

GoOn(t, stage) ==
  Goto(t, stage) /\ UNCHANGED <<jvmside, monitor>>

Thrown == "ExceptionInInitializerError"
-----------------------------------------------------------------------------
(* Mutant: the method is not synchronized.                                 *)
EnterFreely(t) ==
  /\ At(t, "enter")
  /\ Goto(t, "check")
  /\ UNCHANGED <<world, jvmside, monitor, fields, files, manager>>

Enter(t) ==
  /\ At(t, "enter") /\ monitor = None
  /\ monitor' = t
  /\ Goto(t, "check")
  /\ UNCHANGED <<world, jvmside, fields, files, manager>>

(* Mutant: the libraries are loaded for every class.                       *)
CheckNothing(t) ==
  /\ At(t, "check")
  /\ GoOn(t, "configure")
  /\ UNCHANGED <<world, fields, files, manager>>

CheckInitialized(t) ==
  /\ At(t, "check")
  /\ IF s_initialized THEN Return(t) ELSE GoOn(t, "configure")
  /\ UNCHANGED <<world, fields, files, manager>>

(* checkPlatformSupported and getConfigFromProperties.  A bad instruction  *)
(* set leaves its flag behind; a file may not be found.                    *)
Configure(t) ==
  /\ At(t, "configure")
  /\ IF world.platform = "other"
     THEN Fail(t, Thrown) /\ UNCHANGED fields
     ELSE /\ s_instrSetOnCommandline' = (world.request # None)
          /\ IF world.request \notin {None} \cup DOMAIN instrSets
             THEN Fail(t, Thrown) /\ UNCHANGED s_configFileOnCommandline
             ELSE /\ s_configFileOnCommandline' = world.ownConfig
                  /\ Fail(t, Thrown) \/ GoOn(t, "prepare")
          /\ UNCHANGED <<s_initialized, s_tmpDir, tag>>
  /\ UNCHANGED <<world, files, manager>>

(* extract: each library is written or not before something fails.         *)
Extract(t, libs, dir, next) ==
  /\ s_tmpDir' = dir
  /\ \E written \in SUBSET libs :
       /\ extracted' = extracted \cup { [lib |-> l, dir |-> dir] : l \in written }
       /\ \/ written = libs /\ GoOn(t, next)
          \/ written # libs /\ Fail(t, Thrown)

(* A directory of its own for every attempt.                               *)
Prepare(t) ==
  /\ At(t, "prepare")
  /\ \/ /\ s_configFileOnCommandline
        /\ GoOn(t, "loadInit")
        /\ UNCHANGED <<fields, files>>
     \/ /\ ~s_configFileOnCommandline
        /\ \/ Fail(t, Thrown) /\ UNCHANGED <<fields, files>>
           \/ /\ attempts' = attempts + 1
              /\ Extract(t, Libraries("initialise"), attempts + 1, "loadInit")
              /\ UNCHANGED <<s_initialized, s_configFileOnCommandline,
                             s_instrSetOnCommandline, tag, loaded>>
  /\ UNCHANGED <<world, manager>>

(* load: from the directory, or from where the system finds it.  What the  *)
(* process has is not loaded again; an Exception is wrapped, an Error not. *)
FileOf(l) == [lib |-> l, dir |-> IF s_configFileOnCommandline THEN 0 ELSE s_tmpDir]

LoadInit(t) ==
  /\ At(t, "loadInit")
  /\ \/ loaded' = loaded \cup {FileOf("initialise")} /\ GoOn(t, "choose")
     \/ /\ FileOf("initialise") \notin loaded
        /\ UNCHANGED loaded
        /\ \E error \in {Thrown, "LinkageError"} : Fail(t, error)
  /\ UNCHANGED <<world, fields, attempts, extracted, manager>>

ChooseInstructionSet(t) ==
  /\ At(t, "choose")
  /\ \E bits \in Probed :
       tag' = Tagline(IF s_instrSetOnCommandline THEN instrSets[world.request]
                      ELSE getSupportedInstructionSet(bits))
  /\ GoOn(t, "extract")
  /\ UNCHANGED <<world, s_initialized, s_configFileOnCommandline,
                 s_instrSetOnCommandline, s_tmpDir, files, manager>>

(* Mutant: what an attempt before has extracted is not extracted again.    *)
ExtractUnlessThere(t) ==
  /\ At(t, "extract")
  /\ IF s_configFileOnCommandline \/ \E f \in extracted : f.lib = tag
     THEN GoOn(t, "load") /\ UNCHANGED <<s_tmpDir, extracted>>
     ELSE Extract(t, Libraries(tag), s_tmpDir, "load")
  /\ UNCHANGED <<world, s_initialized, s_configFileOnCommandline,
                 s_instrSetOnCommandline, tag, attempts, loaded, manager>>

ExtractLibraries(t) ==
  /\ At(t, "extract")
  /\ IF s_configFileOnCommandline
     THEN GoOn(t, "load") /\ UNCHANGED <<s_tmpDir, extracted>>
     ELSE Extract(t, Libraries(tag), s_tmpDir, "load")
  /\ UNCHANGED <<world, s_initialized, s_configFileOnCommandline,
                 s_instrSetOnCommandline, tag, attempts, loaded, manager>>

(* Nothing to load, or not to be linked, or its JNI_OnLoad is run.         *)
LoadLibraries(t) ==
  /\ At(t, "load")
  /\ IF Libraries(tag) = {} THEN GoOn(t, "finish")
     ELSE GoOn(t, "onload") \/ \E error \in {Thrown, "LinkageError"} : Fail(t, error)
  /\ UNCHANGED <<world, fields, files, manager>>

-----------------------------------------------------------------------------
(* JNI_OnLoad answered JNI_ERR: the JVM drops the library and what it held.*)
Unload(t) ==
  /\ jvm' = FALSE /\ refs' = 0
  /\ Fail(t, "LinkageError")
  /\ UNCHANGED loaded

(* JVMManager::initialize, up to the references.                           *)
OnLoad(t) ==
  /\ At(t, "onload")
  /\ \/ Unload(t)    \* no environment
     \/ jvm' = TRUE /\ GoOn(t, "register") /\ UNCHANGED <<refs, loaded>>
  /\ UNCHANGED <<world, fields, attempts, extracted>>

(* Mutant: what is missing is passed over.                                 *)
RegisterSome(t) ==
  /\ At(t, "register") /\ refs < Refs
  /\ loaded' = loaded \cup {FileOf(tag)}
  /\ GoOn(t, "finish")
  /\ UNCHANGED <<world, fields, attempts, extracted, manager>>

(* The next class, method or field is found, or not: FindClass, the global *)
(* reference, GetMethodID and GetFieldID may each fail.                    *)
RegisterReference(t) ==
  /\ At(t, "register") /\ refs < Refs
  /\ \/ refs' = refs + 1 /\ UNCHANGED <<jvm, loaded, pc, jvmside, monitor>>
     \/ Unload(t)
  /\ UNCHANGED <<world, fields, attempts, extracted>>

OnLoadReturns(t) ==
  /\ At(t, "register") /\ refs = Refs
  /\ loaded' = loaded \cup {FileOf(tag)}
  /\ GoOn(t, "finish")
  /\ UNCHANGED <<world, fields, attempts, extracted, manager>>

(* The flag is set last.                                                   *)
Finish(t) ==
  /\ At(t, "finish")
  /\ s_initialized' = TRUE
  /\ Return(t)
  /\ UNCHANGED <<world, s_configFileOnCommandline, s_instrSetOnCommandline,
                 s_tmpDir, tag, files, manager>>

Step(t) ==
  \/ InitialiseClass(t) \/ UseClass(t)
  \/ Enter(t) \/ CheckInitialized(t) \/ Configure(t) \/ Prepare(t)
  \/ LoadInit(t) \/ ChooseInstructionSet(t) \/ ExtractLibraries(t)
  \/ LoadLibraries(t) \/ OnLoad(t) \/ RegisterReference(t)
  \/ OnLoadReturns(t) \/ Finish(t)

Next == \E t \in Threads : Step(t) \/ \E c \in Classes : Touch(t, c)

Spec == Init /\ [][Next]_vars /\ \A t \in Threads : WF_vars(Step(t))

-----------------------------------------------------------------------------
(* A class whose initialiser returned can call native code: the library    *)
(* for the instruction set is in the process with all its references       *)
(* registered, whichever thread loaded it and however many attempts failed *)
(* before.  A properties file without a list for that set is the exception *)
(* the code makes: nothing is loaded, and initialize succeeds.             *)
ReadyIsLinked ==
  \A c \in Classes : classState[c] = "ready" =>
    /\ s_initialized
    /\ Libraries(tag) # {} => Linked /\ jvm /\ refs = Refs

(* Never do libraries of two attempts or of two instruction sets meet in   *)
(* the process, though each attempt has a directory of its own and probes  *)
(* the CPU anew: what is loaded was extracted first, and but for the copies*)
(* of jinitialise it is what the last attempt chose, from its directory,   *)
(* and what the command line asked for, if it did.                         *)
OneSetLoaded ==
  \A f \in loaded :
    /\ f.dir # 0 => f \in extracted
    /\ f.lib # "initialise" =>
         /\ f = FileOf(tag)
         /\ world.request # None => f.lib = Tagline(instrSets[world.request])

(***************************************************************************)
(* The inductive invariant.  Inside initialize there is one thread, which  *)
(* has the monitor (NativeLibraries.initialize is synchronized).  How far  *)
(* it is says which flags are set, what is on disk, and what has been      *)
(* registered, whatever failed attempts left behind; and once the flag is  *)
(* set nobody gets past the check of it.                                   *)
(***************************************************************************)
Working == {"configure", "prepare", "loadInit", "choose", "extract", "load",
            "onload", "register", "finish"}

Alone == \A t \in Threads : monitor = t <=> pc[t] \in Working \cup {"check"}

InAClass == \A t \in Threads : pc[t] # "idle" => touched[t] \in Classes

Flags(t) ==
  /\ pc[t] \in Working \ {"configure"} =>
       /\ world.request \in {None} \cup DOMAIN instrSets
       /\ s_instrSetOnCommandline = (world.request # None)
  /\ pc[t] \in {"extract", "load", "onload", "register", "finish"} =>
       /\ tag # "initialise"
       /\ world.request # None => tag = Tagline(instrSets[world.request])

Extracted(lib) ==
  ~s_configFileOnCommandline => [lib |-> lib, dir |-> s_tmpDir] \in extracted

OnDisk(t) ==
  /\ pc[t] = "loadInit" => Extracted("initialise")
  /\ pc[t] \in {"load", "onload", "register"} => \A l \in Libraries(tag) : Extracted(l)
  /\ pc[t] \in {"onload", "register"} => Libraries(tag) = {tag}

LinkedFor == Libraries(tag) # {} => Linked /\ jvm /\ refs = Refs

Registered(t) ==
  /\ pc[t] = "register" => jvm
  /\ pc[t] = "finish" => LinkedFor
  /\ s_initialized => pc[t] \notin Working

(* The last library is loaded by an attempt that succeeds.                 *)
LoadedLast ==
  Linked => s_initialized \/ \E t \in Threads : pc[t] = "finish"

StartupInv ==
  /\ TypeOK
  /\ Alone
  /\ InAClass
  /\ \A t \in Threads : Flags(t) /\ OnDisk(t) /\ Registered(t)
  /\ s_initialized => LinkedFor
  /\ LoadedLast
  /\ ReadyIsLinked
  /\ OneSetLoaded

(* Once initialised nothing is extracted, loaded or registered any more,   *)
(* whichever class or thread comes.                                        *)
InitialisedOnce ==
  [][s_initialized => s_initialized' /\ UNCHANGED <<files, manager>>]_vars

(* Whoever touches a class is answered: the locks of the classes and the   *)
(* monitor inside them are released on every path, and a thread that waits *)
(* for another's initialiser sees it end.                                  *)
TouchesEnd == \A t \in Threads : At(t, "touching") ~> At(t, "idle")

(* "call with 0x1", says the probe of its first cpuid, and that it is to   *)
(* "identify the highest possible supported instruction set": what it has  *)
(* chosen and the loader has loaded, this CPU can run.                     *)
LoadedRunsHere ==
  \A f \in loaded : world.request = None =>
    f.lib \in {"initialise", "std"} \cup world.cpu
=============================================================================
