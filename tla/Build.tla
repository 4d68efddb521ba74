------------------------------- MODULE Build -------------------------------
(***************************************************************************)
(* What the Nix functions build, and what they refuse to: a plugin's       *)
(* sources (mkGeneration of lib/buildPlugin.nix), a module's headers       *)
(* (lib/buildHeaders.nix and lib/generate-module-headers.sh), and glue     *)
(* generated by hand.                                                      *)
(*                                                                         *)
(* A plugin's consumer wrappers come from logos-cpp-generator, or, for the *)
(* Qt surface, from logos-qt-generator, with the umbrella taken out of     *)
(* a scratch directory.  Both generators are external: they may fail, and  *)
(* may exit 0 having written nothing, or empty files.  The script runs     *)
(* under set -e.  The module builder's preConfigure, external too, then    *)
(* runs logos-qt-host-generator for a module that is packaged as a cdylib. *)
(***************************************************************************)
EXTENDS GeneratorMain, FiniteSets

CONSTANT Deps  \* the dependencies and interfaces of a module

VARIABLES
  job,    \* what is built, and the arguments that decide how
  pc,     \* where the build is
  files,  \* who wrote what is in the directory of generated files
  todo    \* dependencies whose Qt wrapper is still to be generated

vars == <<job, pc, files, todo, genVars>>

Pairs == Deps \cup {"umbrella", "wrapper"}
Pair(p) == {<<p, "h">>, <<p, "cpp">>}
Files == UNION {Pair(p) : p \in Pairs}

\* contracts: how the dependencies describe themselves; one may publish none,
\* or be a C++ header without the class to read from it.
PluginJobs == [target : {"plugin"}, interface : {"universal", "cdylib", "legacy"},
               type : {"core", "ui_qml"}, declared : {"none", "lp", "qt"},
               contracts : {"published", "none", "no class"}]

\* contract: the module's own; found: its plugin is where it should be.
HeaderJobs == [target : {"headers"}, style : {"lp", "qt"},
               contract : {"none", "lidl", "header"}, qtGenerator : BOOLEAN,
               windows : BOOLEAN, found : BOOLEAN]

HandJobs == [target : {"by hand"}]

Init ==
  /\ GenInit
  /\ job \in PluginJobs \cup HeaderJobs \cup HandJobs
  /\ pc = "evaluate"
  /\ files = [f \in Files |-> "absent"]
  /\ todo = {}
-----------------------------------------------------------------------------
PackagedAsCdylib ==
  \/ job.interface = "cdylib"
  \/ job.interface = "universal" /\ job.type # "ui_qml"

ApiStyle == IF job.declared # "none" THEN job.declared
            ELSE IF PackagedAsCdylib THEN "lp" ELSE "qt"

\* Wrappers that hold no LogosAPI.
OriginBound == ApiStyle = "qt" /\ PackagedAsCdylib
QtWrapper   == IF OriginBound THEN "qt origin" ELSE "qt"

\* Slip: assertConsumerApiStyle is missing.
EvaluatesUngated ==
  /\ job.contracts # "none"
  /\ job.contracts = "no class" => ApiStyle # "qt"

\* assertConsumerApiStyle, assertNoLegacyHeaderDeps, and a contract that the Qt
\* wrappers can be generated from.
Evaluates ==
  /\ ApiStyle = "lp" => PackagedAsCdylib
  /\ job.contracts # "none"
  /\ job.contracts = "no class" => ApiStyle # "qt"

\* A generator is run for some pairs: each file of them it writes, leaves empty
\* or does not write.
Emit(pairs, author) ==
  \E written, empty \in SUBSET UNION {Pair(p) : p \in pairs} :
    files' = [f \in Files |-> CASE f \in written         -> author
                                [] f \in empty \ written -> "empty"
                                [] OTHER                 -> files[f]]

\* [ -s ] and [ -f ]
NonEmpty(fs, p) == \A f \in Pair(p) : fs[f] \notin {"absent", "empty"}
Exist(fs, p)    == \A f \in Pair(p) : fs[f] # "absent"

\* The build goes on to the next step if the generator has succeeded and its
\* output passes, and ends otherwise.
Then(passes, next) ==
  \E ok \in BOOLEAN : pc' = IF ok /\ passes THEN next ELSE "failed"

Plugin  == job.target = "plugin"
Headers == job.target = "headers"

Evaluate ==
  /\ pc = "evaluate"
  /\ Plugin
  /\ pc' = IF ~Evaluates THEN "failed"
           ELSE IF ApiStyle = "lp" THEN "lp wrappers" ELSE "umbrella"
  /\ todo' = Deps
  /\ UNCHANGED <<job, files, genVars>>

\* lp: one call emits the wrappers and the umbrella.
LpWrappers ==
  /\ pc = "lp wrappers"
  /\ Emit(Deps \cup {"umbrella"}, "lp")
  /\ Then(TRUE, "preConfigure")
  /\ UNCHANGED <<job, todo, genVars>>

\* qt: the umbrella first ...
Umbrella ==
  /\ pc = "umbrella"
  /\ Emit({"umbrella"}, QtWrapper)
  /\ Then(NonEmpty(files', "umbrella"),
          IF todo = {} THEN "preConfigure" ELSE "qt wrappers")
  /\ UNCHANGED <<job, todo, genVars>>

\* Slip: only the header of a wrapper is looked at.
WrapHeaderOnly(d) ==
  /\ pc = "qt wrappers"
  /\ d \in todo
  /\ Emit({d}, QtWrapper)
  /\ todo' = todo \ {d}
  /\ Then(files'[<<d, "h">>] \notin {"absent", "empty"},
          IF todo' = {} THEN "preConfigure" ELSE pc)
  /\ UNCHANGED <<job, genVars>>

\* ... then a wrapper for each dependency.
Wrap(d) ==
  /\ pc = "qt wrappers"
  /\ d \in todo
  /\ Emit({d}, QtWrapper)
  /\ todo' = todo \ {d}
  /\ Then(NonEmpty(files', d), IF todo' = {} THEN "preConfigure" ELSE pc)
  /\ UNCHANGED <<job, genVars>>

\* preConfigure: the glue of a module that is packaged as a cdylib.
RunHostGenerator ==
  /\ pc = "preConfigure"
  /\ PackagedAsCdylib
  /\ \E r \in Requests :
       /\ r.lidl \in {"valid", "malformed"}
       /\ r.backend = "none"
       /\ Invoke(r)
  /\ pc' = "glue"
  /\ UNCHANGED <<job, files, todo>>

NoGlue ==
  /\ pc = "preConfigure"
  /\ ~PackagedAsCdylib
  /\ pc' = "built"
  /\ UNCHANGED <<job, files, todo, genVars>>

GlueGenerated ==
  /\ pc = "glue"
  /\ step = "exited"
  /\ pc' = IF exit = 0 THEN "built" ELSE "failed"
  /\ UNCHANGED <<job, files, todo, genVars>>
-----------------------------------------------------------------------------
UseQtConsumer == job.style = "qt" /\ job.contract = "lidl" /\ job.qtGenerator

\* logos-qt-generator from the contract; what it writes must be the consumer
\* backend's.
QtConsumer ==
  /\ pc = "evaluate"
  /\ Headers /\ UseQtConsumer
  /\ \E author \in {"qt", "legacy qt"} : Emit({"wrapper"}, author)
  /\ Then(/\ NonEmpty(files', "wrapper")
          /\ files'[<<"wrapper", "h">>] = "qt", "install")
  /\ UNCHANGED <<job, todo, genVars>>

LegacyAuthor == IF job.style = "qt" THEN "legacy qt" ELSE "lp"

\* A Windows module cannot be introspected: logos-cpp-generator from the
\* contract, whose umbrella is dropped again.
CrossLegacy ==
  /\ pc = "evaluate"
  /\ Headers /\ ~UseQtConsumer /\ job.windows
  /\ Emit({"wrapper"}, LegacyAuthor)
  /\ Then(/\ job.contract = "lidl"
          /\ files'[<<"wrapper", "h">>] # "absent", "install")
  /\ UNCHANGED <<job, todo, genVars>>

\* Slip: "the historical || { echo Warning...; }".
NativeWarned ==
  /\ pc = "evaluate"
  /\ Headers /\ ~UseQtConsumer /\ ~job.windows
  /\ Emit({"wrapper"}, LegacyAuthor)
  /\ Then(job.found, "install")
  /\ UNCHANGED <<job, todo, genVars>>

\* Any other module's plugin is introspected: generate-module-headers.sh.
NativeLegacy ==
  /\ pc = "evaluate"
  /\ Headers /\ ~UseQtConsumer /\ ~job.windows
  /\ Emit({"wrapper"}, LegacyAuthor)
  /\ Then(job.found /\ Exist(files', "wrapper"), "install")
  /\ UNCHANGED <<job, todo, genVars>>

\* installPhase
Install ==
  /\ pc = "install"
  /\ pc' = IF \E f \in Files : files[f] # "absent" THEN "built" ELSE "failed"
  /\ UNCHANGED <<job, files, todo, genVars>>
-----------------------------------------------------------------------------
Next ==
  \/ Evaluate
  \/ LpWrappers
  \/ Umbrella
  \/ \E d \in Deps : Wrap(d)
  \/ RunHostGenerator
  \/ NoGlue
  \/ GlueGenerated
  \/ QtConsumer
  \/ CrossLegacy
  \/ NativeLegacy
  \/ Install
  \/ /\ job.target = "by hand"
     /\ \E r \in Requests : Invoke(r)
     /\ UNCHANGED <<job, pc, files, todo>>
  \/ Main /\ UNCHANGED <<job, pc, files, todo>>

Spec == Init /\ [][Next]_vars
-----------------------------------------------------------------------------
Built == pc = "built"

\* "every outbound call goes out unauthenticated -- silently": wrappers that
\* hold no LogosAPI, lp or bound to an origin, present the tokens their image is
\* given over the C ABI.  So whatever was declared, and whatever the generators
\* did, no plugin is built that has some of them and not the whole glue, in
\* which the image's door for tokens is.  (A write that comes short is not
\* noticed by main.)
TokensReachTheWrappers ==
  Built /\ Plugin /\ ~short /\ (\E f \in Files : files[f] \in {"lp", "qt origin"})
    => glue.header = glue.source /\ glue.header # Absent

\* A Qt surface is built only with every dependency's wrapper and the umbrella
\* there, of one binding: `generate` ships them without a compiler that would
\* miss one.
BuiltHasItsWrappers ==
  Built /\ Plugin /\ ApiStyle = "qt" =>
    \A p \in Deps \cup {"umbrella"} : \A f \in Pair(p) : files[f] = QtWrapper

\* "Refusing to install an empty header set": installed headers are a pair, of
\* the emitter the build names.  (Cross-compiled ones need only the header:
\* that path does not look for the source.)
InstalledIsUsable ==
  Built /\ Headers =>
    \A f \in Pair("wrapper") :
      \/ files[f] = IF UseQtConsumer THEN "qt" ELSE LegacyAuthor
      \/ files[f] = "empty" /\ ~UseQtConsumer
      \/ f[2] = "cpp" /\ job.windows /\ ~UseQtConsumer
=============================================================================
