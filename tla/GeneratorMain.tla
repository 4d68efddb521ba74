--------------------------- MODULE GeneratorMain ---------------------------
(***************************************************************************)
(* logos-qt-host-generator: what one invocation refuses, and how it writes *)
(* the pair <name>_cdylib_glue.{h,cpp} (qt-host-generator/main.cpp).       *)
(*                                                                         *)
(* It truncates and writes the header, then the source, in place.  Opening *)
(* either may fail, a write may come short, which is not checked, and the  *)
(* process may be killed in between; the next invocation finds in the      *)
(* directory what the one before has left.  What is written stands for the *)
(* options that decide it.                                                 *)
(***************************************************************************)
EXTENDS Integers

CONSTANT MaxRuns  \* bound on the invocations in one directory

VARIABLES
  request,  \* the command line, and the contract it names
  step,     \* where main is
  exit,     \* its exit status
  glue,     \* the two files
  short,    \* a write of this invocation came short
  runs      \* invocations so far

genVars == <<request, step, exit, glue, short, runs>>

\* "none" is an option that is not given.
Requests == [lidl : {"none", "unreadable", "malformed", "valid"}, multi : BOOLEAN,
             maxWorkers : {"none", "many", "4"}, backend : {"none", "cdylib", "qt"}]

Blank(why) == [backend |-> why, multi |-> FALSE, maxWorkers |-> "none"]
Absent    == Blank("absent")
Truncated == Blank("truncated")
Killed    == 137
Running   == -1

\* What the backend asked for writes: the host generator has one backend.
Wanted(r)  == [backend |-> IF r.backend = "none" THEN "cdylib" ELSE r.backend,
               multi |-> r.multi, maxWorkers |-> r.maxWorkers]
Emitted(r) == [Wanted(r) EXCEPT !.backend = "cdylib"]

GenInit ==
  /\ request = CHOOSE r \in Requests : TRUE
  /\ step = "idle"
  /\ exit = Running
  /\ glue = [header |-> Absent, source |-> Absent]
  /\ short = FALSE
  /\ runs = 0

Invoke(r) ==
  /\ step \in {"idle", "exited"}
  /\ runs < MaxRuns
  /\ request' = r
  /\ step' = "check"
  /\ exit' = Running
  /\ short' = FALSE
  /\ runs' = runs + 1
  /\ UNCHANGED glue

\* The checks in main's order; 0 if none refuses.
Refusal(r) ==
  IF r.maxWorkers = "many" \/ (r.maxWorkers # "none" /\ ~r.multi) THEN 2
  ELSE IF r.lidl = "none" THEN 1
  ELSE IF r.backend \notin {"none", "cdylib"} THEN 2
  ELSE IF r.lidl = "unreadable" THEN 3
  ELSE IF r.lidl = "malformed" THEN 4
  ELSE 0

Refuse ==
  /\ step = "check"
  /\ Refusal(request) # 0
  /\ exit' = Refusal(request)
  /\ step' = "exited"
  /\ UNCHANGED <<request, glue, short, runs>>

Pass ==
  /\ step = "check"
  /\ Refusal(request) = 0
  /\ step' = "header"
  /\ UNCHANGED <<request, exit, glue, short, runs>>

\* Slip: a file that cannot be opened is skipped.
SkipFailed ==
  /\ step' = IF step = "header" THEN "source" ELSE "exited"
  /\ exit' = IF step = "header" THEN Running ELSE 0
  /\ UNCHANGED <<request, glue, short, runs>>

\* A file that cannot be opened ends the invocation; the directory's creation
\* is not checked and shows here.
OpenFailed ==
  /\ step' = "exited"
  /\ exit' = 1
  /\ UNCHANGED <<request, glue, short, runs>>

Written(file, next, status) ==
  /\ \E whole \in BOOLEAN :
       /\ glue' = [glue EXCEPT ![file] = IF whole THEN Emitted(request)
                                                  ELSE Truncated]
       /\ short' = (short \/ ~whole)
  /\ step' = next
  /\ exit' = status
  /\ UNCHANGED <<request, runs>>

\* One round of writeAll's loop.
WriteFile(file, next, status) ==
  /\ step = file
  /\ OpenFailed \/ Written(file, next, status)

Kill ==
  /\ step \in {"header", "source"}
  /\ \E torn \in SUBSET {step} :
       glue' = [f \in DOMAIN glue |-> IF f \in torn THEN Truncated ELSE glue[f]]
  /\ step' = "exited"
  /\ exit' = Killed
  /\ UNCHANGED <<request, short, runs>>

Main ==
  \/ Refuse
  \/ Pass
  \/ WriteFile("header", "source", Running)
  \/ WriteFile("source", "exited", 0)
  \/ Kill
-----------------------------------------------------------------------------
\* "would hand back confidently wrong artifacts with a zero exit status": after
\* a zero exit status both files are this invocation's, of the backend, the
\* concurrency and the cap it was asked for, whatever earlier ones have left,
\* unless the disk took less than it was given.
ZeroExitIsWholePair ==
  exit = 0 /\ ~short
    => glue.header = Wanted(request) /\ glue.source = Wanted(request)
=============================================================================
