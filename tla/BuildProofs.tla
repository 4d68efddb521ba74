----------------------------- MODULE BuildProofs -----------------------------
(***************************************************************************)
(* The properties of Build, for every set of dependencies and any number   *)
(* of invocations of the host generator in one directory.                  *)
(*                                                                         *)
(* The generator's part of the invariant follows its two files through     *)
(* main; the build's part says, for each step, who can have written the    *)
(* files that are there.                                                   *)
(***************************************************************************)
EXTENDS Build, TLAPS

\* Where main is, and that it writes only for what it did not refuse.
MainInv ==
  /\ glue = [header |-> glue.header, source |-> glue.source]
  /\ step \in {"idle", "check", "header", "source"} => exit = Running
  /\ step \in {"header", "source"} \/ exit = 0 => Refusal(request) = 0
  /\ step = "source" /\ ~short => glue.header = Wanted(request)

\* What a plugin's build has passed when it takes a step.
PluginInv ==
  Plugin =>
    /\ job.declared \in {"none", "lp", "qt"}
    /\ pc # "install"
    /\ pc \in {"evaluate", "umbrella"} => \A f \in Files : files[f] = "absent"
    /\ pc = "lp wrappers" => PackagedAsCdylib /\ ApiStyle = "lp"
    /\ pc \in {"umbrella", "qt wrappers"} => ApiStyle = "qt"
    /\ pc = "umbrella" => todo = Deps
    /\ pc = "built" /\ PackagedAsCdylib => step = "exited" /\ exit = 0

\* Who wrote its wrappers, and what of them is there.
WrapperInv ==
  Plugin =>
    /\ \A f \in Files : files[f] \in {"lp", "qt origin"} => PackagedAsCdylib
    /\ ApiStyle = "qt" =>
         /\ \A f \in Files : files[f] \in {"absent", "empty", QtWrapper}
         /\ pc = "qt wrappers" =>
              \A p \in (Deps \cup {"umbrella"}) \ todo : NonEmpty(files, p)
         /\ pc \in {"preConfigure", "glue", "built"} =>
              \A p \in Deps \cup {"umbrella"} : NonEmpty(files, p)

\* The headers a derivation installs.
HeadersInv ==
  Headers =>
    /\ pc \in {"evaluate", "install", "built", "failed"}
    /\ pc = "evaluate" => \A f \in Files : files[f] = "absent"
    /\ pc \in {"install", "built"} =>
         \A f \in Pair("wrapper") :
           \/ files[f] = IF UseQtConsumer THEN "qt" ELSE LegacyAuthor
           \/ files[f] = "empty" /\ ~UseQtConsumer
           \/ f[2] = "cpp" /\ job.windows /\ ~UseQtConsumer

IInv == ZeroExitIsWholePair /\ MainInv /\ PluginInv /\ WrapperInv /\ HeadersInv
-----------------------------------------------------------------------------
\* A request that main does not refuse is written as it was asked for.
LEMMA NotRefused ==
  ASSUME NEW r, Refusal(r) = 0
  PROVE  Emitted(r) = Wanted(r) /\ Wanted(r) # Absent
  <1>1. r.backend \in {"none", "cdylib"}
    BY DEF Refusal
  <1>2. Wanted(r).backend = "cdylib"
    BY <1>1 DEF Wanted
  <1>3. Absent.backend = "absent"
    BY DEF Absent, Blank
  <1>4. Emitted(r) = Wanted(r)
    BY <1>2 DEF Emitted, Wanted
  <1> QED
    BY <1>2, <1>3, <1>4

\* What a run of a generator can have done to a file.
LEMMA EmitLeaves ==
  ASSUME NEW pairs \in SUBSET Pairs, NEW author, Emit(pairs, author)
  PROVE  /\ \A f \in Files : files'[f] \in {author, "empty", files[f]}
         /\ \A p \in Pairs \ pairs : \A f \in Pair(p) : files'[f] = files[f]
  BY DEF Emit, Pair, Files

\* Before anything is built nothing is written.
LEMMA InitIInv == Init => IInv
  <1> SUFFICES ASSUME Init
               PROVE  IInv
    OBVIOUS
  <1> USE DEF Init, GenInit, Plugin, Headers, Running
  <1>1. ZeroExitIsWholePair /\ MainInv
    BY DEF ZeroExitIsWholePair, MainInv
  <1>2. Plugin => job.declared \in {"none", "lp", "qt"}
    BY DEF PluginJobs, HeaderJobs, HandJobs
  <1>3. \A f \in Files : files[f] = "absent"
    OBVIOUS
  <1> QED
    BY <1>1, <1>2, <1>3 DEF IInv, PluginInv, WrapperInv, HeadersInv, Pair, Files, Pairs

\* The steps of main are those of the generator, whoever runs it.
LEMMA MainKeeps ==
  ASSUME ZeroExitIsWholePair, MainInv, Main
  PROVE  ZeroExitIsWholePair' /\ MainInv'
  <1> USE DEF ZeroExitIsWholePair, MainInv, Running
  <1>1. CASE Refuse
    BY <1>1 DEF Refuse
  <1>2. CASE Pass
    BY <1>2 DEF Pass
  <1>3. ASSUME NEW file \in {"header", "source"}, step = file, OpenFailed
        PROVE  ZeroExitIsWholePair' /\ MainInv'
    BY <1>3 DEF OpenFailed
  <1>4. CASE step = "header" /\ Written("header", "source", Running)
    BY <1>4, NotRefused DEF Written
  <1>5. CASE step = "source" /\ Written("source", "exited", 0)
    BY <1>5, NotRefused DEF Written
  <1>6. CASE Kill
    BY <1>6 DEF Kill, Killed
  <1> QED
    BY <1>1, <1>2, <1>3, <1>4, <1>5, <1>6 DEF Main, WriteFile

\* A new invocation starts with nothing claimed.
LEMMA InvokeKeeps ==
  ASSUME ZeroExitIsWholePair, MainInv, NEW r \in Requests, Invoke(r)
  PROVE  ZeroExitIsWholePair' /\ MainInv'
  BY DEF Invoke, ZeroExitIsWholePair, MainInv, Running

\* Every step of a build keeps what the generator's files stand for.
LEMMA NextMain == IInv /\ [Next]_vars => ZeroExitIsWholePair' /\ MainInv'
  <1> SUFFICES ASSUME IInv, [Next]_vars
               PROVE  ZeroExitIsWholePair' /\ MainInv'
    OBVIOUS
  <1>1. CASE UNCHANGED genVars
    BY <1>1 DEF genVars, IInv, ZeroExitIsWholePair, MainInv
  <1>2. CASE Main
    BY <1>2, MainKeeps DEF IInv
  <1>3. ASSUME NEW r \in Requests, Invoke(r)
        PROVE  ZeroExitIsWholePair' /\ MainInv'
    BY <1>3, InvokeKeeps DEF IInv
  <1> QED
    BY <1>1, <1>2, <1>3
    DEF Next, vars, Evaluate, LpWrappers, Umbrella, Wrap, RunHostGenerator,
        NoGlue, GlueGenerated, QtConsumer, CrossLegacy, NativeLegacy, Install

\* mkGeneration and preConfigure: no step of a plugin's build is reached without
\* the ones before it.
LEMMA NextPlugin == IInv /\ [Next]_vars => PluginInv'
  <1> SUFFICES ASSUME IInv, [Next]_vars, Plugin
               PROVE  PluginInv'
    BY DEF Next, vars, PluginInv, Plugin, Evaluate, LpWrappers, Umbrella, Wrap,
           RunHostGenerator, NoGlue, GlueGenerated, QtConsumer, CrossLegacy,
           NativeLegacy, Install
  <1> USE DEF IInv, PluginInv, Plugin, Headers, PackagedAsCdylib, ApiStyle
  <1>1. CASE Evaluate
    BY <1>1 DEF Evaluate, Evaluates
  <1>2. CASE LpWrappers
    BY <1>2 DEF LpWrappers, Then
  <1>3. CASE Umbrella
    <2>1. pc = "umbrella" /\ pc' \in {"preConfigure", "qt wrappers", "failed"}
      BY <1>3 DEF Umbrella, Then
    <2> QED
      BY <1>3, <2>1 DEF Umbrella
  <1>4. ASSUME NEW d \in Deps, Wrap(d)
        PROVE  PluginInv'
    BY <1>4 DEF Wrap, Then
  <1>5. CASE RunHostGenerator \/ NoGlue \/ GlueGenerated
    BY <1>5 DEF RunHostGenerator, NoGlue, GlueGenerated, genVars
  <1>6. CASE QtConsumer \/ CrossLegacy \/ NativeLegacy
    BY <1>6 DEF QtConsumer, CrossLegacy, NativeLegacy
  <1>7. CASE Install
    BY <1>7 DEF Install
  <1>8. CASE Main /\ UNCHANGED <<job, pc, files, todo>>
    <2>1. step \in {"check", "header", "source"}
      BY <1>8 DEF Main, Refuse, Pass, WriteFile, Kill
    <2> QED
      BY <1>8, <2>1
  <1>9. CASE UNCHANGED vars
    BY <1>9 DEF vars, genVars
  <1> QED
    BY <1>1, <1>2, <1>3, <1>4, <1>5, <1>6, <1>7, <1>8, <1>9 DEF Next

\* The umbrella and the wrappers have one author, and none is passed over.
LEMMA NextWrapper == IInv /\ [Next]_vars => WrapperInv'
  <1> SUFFICES ASSUME IInv, [Next]_vars, Plugin
               PROVE  WrapperInv'
    BY DEF Next, vars, WrapperInv, Plugin, Evaluate, LpWrappers, Umbrella, Wrap,
           RunHostGenerator, NoGlue, GlueGenerated, QtConsumer, CrossLegacy,
           NativeLegacy, Install
  <1> USE DEF IInv, Plugin, Headers
  <1>1. CASE UNCHANGED <<job, files>> /\ pc' # "qt wrappers"
             /\ (pc' \in {"preConfigure", "glue", "built"}
                   => pc \in {"preConfigure", "glue", "built"})
    BY <1>1 DEF WrapperInv, NonEmpty, PackagedAsCdylib, ApiStyle, QtWrapper,
                OriginBound
  <1>2. CASE UNCHANGED <<job, files, pc, todo>>
    BY <1>2 DEF WrapperInv, NonEmpty, PackagedAsCdylib, ApiStyle, QtWrapper,
                OriginBound
  <1>3. CASE LpWrappers
    BY <1>3, EmitLeaves
    DEF LpWrappers, PluginInv, WrapperInv, PackagedAsCdylib, ApiStyle, Pairs
  <1>4. CASE Umbrella
    <2>1. /\ pc = "umbrella" /\ ApiStyle = "qt"
          /\ (Deps \cup {"umbrella"}) \ todo \subseteq {"umbrella"}
          /\ \A f \in Files : files[f] = "absent"
      BY <1>4 DEF Umbrella, PluginInv
    <2>2. \A f \in Files : files'[f] \in {QtWrapper, "empty", "absent"}
      BY <1>4, <2>1, EmitLeaves DEF Umbrella, Pairs
    <2>3. \/ pc' = "failed"
          \/ pc' = "preConfigure" /\ todo = {} /\ NonEmpty(files', "umbrella")
          \/ pc' = "qt wrappers" /\ NonEmpty(files', "umbrella")
      BY <1>4 DEF Umbrella, Then
    <2> QED
      BY <1>4, <2>1, <2>2, <2>3
      DEF Umbrella, WrapperInv, PackagedAsCdylib, ApiStyle, QtWrapper, OriginBound
  <1>5. ASSUME NEW d \in Deps, Wrap(d)
        PROVE  WrapperInv'
    <2>1. pc = "qt wrappers" /\ ApiStyle = "qt"
      BY <1>5 DEF Wrap, PluginInv
    <2>2. \A f \in Files : files'[f] \in {QtWrapper, "empty", "absent"}
      BY <1>5, <2>1, EmitLeaves DEF Wrap, WrapperInv, Pairs
    <2>3. \A p \in Pairs \ {d} : NonEmpty(files, p) => NonEmpty(files', p)
      BY <1>5, EmitLeaves DEF Wrap, NonEmpty, Pairs
    <2>4. \/ pc' = "failed"
          \/ pc' = "preConfigure" /\ todo' = {} /\ NonEmpty(files', d)
          \/ pc' = "qt wrappers" /\ NonEmpty(files', d)
      BY <1>5, <2>1 DEF Wrap, Then
    <2>5. pc' # "failed" =>
            \A p \in (Deps \cup {"umbrella"}) \ todo' : NonEmpty(files', p)
      BY <1>5, <2>1, <2>3, <2>4 DEF Wrap, WrapperInv, Pairs
    <2> QED
      BY <1>5, <2>1, <2>2, <2>4, <2>5
      DEF Wrap, WrapperInv, PackagedAsCdylib, ApiStyle, QtWrapper, OriginBound
  <1>6. CASE Evaluate
    BY <1>1, <1>6 DEF Evaluate
  <1>7. CASE RunHostGenerator \/ NoGlue \/ GlueGenerated
    BY <1>1, <1>7 DEF RunHostGenerator, NoGlue, GlueGenerated
  <1>8. CASE QtConsumer \/ CrossLegacy \/ NativeLegacy \/ Install
    BY <1>8 DEF QtConsumer, CrossLegacy, NativeLegacy, Install, PluginInv
  <1> QED
    BY <1>2, <1>3, <1>4, <1>5, <1>6, <1>7, <1>8 DEF Next, vars

\* buildHeaders and generate-module-headers.sh: headers come from the emitter
\* that was chosen, and are there before they are installed.
LEMMA NextHeaders == IInv /\ [Next]_vars => HeadersInv'
  <1> SUFFICES ASSUME IInv, [Next]_vars, Headers
               PROVE  HeadersInv'
    BY DEF Next, vars, HeadersInv, Headers, Evaluate, LpWrappers, Umbrella, Wrap,
           RunHostGenerator, NoGlue, GlueGenerated, QtConsumer, CrossLegacy,
           NativeLegacy, Install
  <1> USE DEF IInv, Headers, Plugin, HeadersInv, UseQtConsumer, LegacyAuthor
  <1> DEFINE wrapper == Pair("wrapper")
  <1>0. ASSUME NEW author, Emit({"wrapper"}, author), pc = "evaluate"
        PROVE  \A f \in wrapper : files'[f] \in {author, "empty", "absent"}
    BY <1>0, EmitLeaves DEF Pair, Files, Pairs
  <1>1. CASE QtConsumer
    <2>1. PICK author \in {"qt", "legacy qt"} : Emit({"wrapper"}, author)
      BY <1>1 DEF QtConsumer
    <2>2. \A f \in wrapper : files'[f] \in {author, "empty", "absent"}
      BY <1>0, <1>1, <2>1 DEF QtConsumer
    <2>3. \/ pc' = "failed"
          \/ /\ pc' = "install"
             /\ NonEmpty(files', "wrapper")
             /\ files'[<<"wrapper", "h">>] = "qt"
      BY <1>1 DEF QtConsumer, Then
    <2>4. <<"wrapper", "h">> \in wrapper
      BY DEF Pair
    <2> QED
      BY <1>1, <2>2, <2>3, <2>4 DEF QtConsumer, NonEmpty
  <1>2. CASE CrossLegacy
    <2>1. \A f \in wrapper : files'[f] \in {LegacyAuthor, "empty", "absent"}
      BY <1>0, <1>2 DEF CrossLegacy
    <2>2. \/ pc' = "failed"
          \/ pc' = "install" /\ files'[<<"wrapper", "h">>] # "absent"
      BY <1>2 DEF CrossLegacy, Then
    <2>3. ASSUME NEW f \in wrapper
          PROVE  f[2] = "cpp" \/ f = <<"wrapper", "h">>
      <3>1. f = <<"wrapper", "h">> \/ f = <<"wrapper", "cpp">>
        BY DEF Pair
      <3>2. <<"wrapper", "cpp">>[2] = "cpp"
        OBVIOUS
      <3> QED
        BY <3>1, <3>2
    <2> QED
      BY <1>2, <2>1, <2>2, <2>3 DEF CrossLegacy
  <1>3. CASE NativeLegacy
    <2>1. \A f \in wrapper : files'[f] \in {LegacyAuthor, "empty", "absent"}
      BY <1>0, <1>3 DEF NativeLegacy
    <2>2. \/ pc' = "failed"
          \/ pc' = "install" /\ Exist(files', "wrapper")
      BY <1>3 DEF NativeLegacy, Then
    <2> QED
      BY <1>3, <2>1, <2>2 DEF NativeLegacy, Exist
  <1>4. CASE Install
    BY <1>4 DEF Install
  <1>5. CASE UNCHANGED <<job, files, pc>>
    BY <1>5
  <1>6. ASSUME NEW d \in Deps, Wrap(d)
        PROVE  FALSE
    BY <1>6 DEF Wrap
  <1>7. CASE \/ Evaluate \/ LpWrappers \/ Umbrella \/ RunHostGenerator
             \/ NoGlue \/ GlueGenerated
    BY <1>7 DEF Evaluate, LpWrappers, Umbrella, RunHostGenerator, NoGlue,
                GlueGenerated
  <1> QED
    BY <1>1, <1>2, <1>3, <1>4, <1>5, <1>6, <1>7 DEF Next, vars

\* What the theorems below rest on.
THEOREM InvariantHolds == Spec => []IInv
  <1>1. IInv /\ [Next]_vars => IInv'
    BY NextMain, NextPlugin, NextWrapper, NextHeaders DEF IInv
  <1> QED
    BY <1>1, InitIInv, PTL DEF Spec

\* main: a zero exit status means that both files are what was asked for, after
\* any number of invocations, refused, torn or killed, in the same directory.
THEOREM ZeroExitIsTrue == Spec => []ZeroExitIsWholePair
  <1>1. IInv => ZeroExitIsWholePair
    BY DEF IInv
  <1> QED
    BY <1>1, InvariantHolds, PTL

\* assertConsumerApiStyle, the choice of --binding origin, preConfigure and main:
\* a plugin with wrappers that hold no LogosAPI is packaged as a cdylib, so the
\* host generator ran for it, exited 0 and left both files.
THEOREM WrappersAreAuthenticated == Spec => []TokensReachTheWrappers
  <1>1. ASSUME IInv, Built, Plugin, ~short,
               NEW f \in Files, files[f] \in {"lp", "qt origin"}
        PROVE  glue.header = glue.source /\ glue.header # Absent
    <2>1. PackagedAsCdylib
      BY <1>1 DEF IInv, WrapperInv
    <2>2. step = "exited" /\ exit = 0
      BY <1>1, <2>1 DEF IInv, PluginInv, Built
    <2> QED
      BY <1>1, <2>2, NotRefused DEF IInv, MainInv, ZeroExitIsWholePair
  <1>2. IInv => TokensReachTheWrappers
    BY <1>1 DEF TokensReachTheWrappers
  <1> QED
    BY <1>2, InvariantHolds, PTL

\* mkGeneration's [ -s ] tests: a Qt surface is built with every wrapper and the
\* umbrella, for any number of dependencies.
THEOREM NothingPassedOver == Spec => []BuiltHasItsWrappers
  <1>1. ASSUME IInv, Built, Plugin, ApiStyle = "qt",
               NEW p \in Deps \cup {"umbrella"}, NEW f \in Pair(p)
        PROVE  files[f] = QtWrapper
    BY <1>1 DEF IInv, WrapperInv, Built, NonEmpty, Pair, Files, Pairs
  <1>2. IInv => BuiltHasItsWrappers
    BY <1>1 DEF BuiltHasItsWrappers
  <1> QED
    BY <1>2, InvariantHolds, PTL

\* "Refusing to install an empty header set": the guards of both header paths.
THEOREM InstalledHeadersAreThere == Spec => []InstalledIsUsable
  <1>1. IInv => InstalledIsUsable
    BY DEF IInv, HeadersInv, InstalledIsUsable, Built
  <1> QED
    BY <1>1, InvariantHolds, PTL
=============================================================================
