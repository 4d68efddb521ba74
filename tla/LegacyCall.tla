----------------------------- MODULE LegacyCall -----------------------------
(***************************************************************************)
(* A call to a legacy plugin: QtProviderObject::callMethod                 *)
(* (cpp/qt_provider_object.cpp) over qtArgDecode                           *)
(* (cpp/logos_qt_arg_decode.cpp).                                          *)
(*                                                                         *)
(* The adapter looks the method up by name and number of arguments,        *)
(* decodes each argument against the type that method declares, wraps the  *)
(* decoded values for QMetaObject::invokeMethod, and invokes BY NAME: Qt   *)
(* resolves the call a second time, by the types of the wrapped values.    *)
(*                                                                         *)
(* Numbers count halves, so that a whole-valued one can be told from one   *)
(* with a fraction; the widths of the integral types are constants.        *)
(* "uint" and "QJsonArray" stand for the types that are decoded and have   *)
(* no wrapper, "QUrl" for those the codec has no rule for.                 *)
(***************************************************************************)
EXTENDS Integers, Sequences, SequencesExt

CONSTANTS
  Methods,     \* the methods a plugin may declare
  Requests,    \* the calls it may receive
  MaxMethods,  \* bound on the methods a plugin declares
  MaxArgs,     \* the number of arguments invokeMethodByArgCount supports
  IntHalf,     \* 2^31: an int is below it, and not below its negative
  LongHalf,    \* 2^63, the same of a qlonglong
  DoubleExact  \* 2^53: up to here a double represents every whole number

Number(half) == [kind |-> "number", half |-> half]
Other(kind)  == [kind |-> kind, half |-> 0]
Arguments    == [kind : {"number", "bool", "text", "texts", "numbers"}, half : Int]

IntRange == [int        |-> (-IntHalf)..(IntHalf - 1),
             uint       |-> 0..(2 * IntHalf - 1),
             qlonglong  |-> (-LongHalf)..(LongHalf - 1),
             qulonglong |-> 0..(2 * LongHalf - 1)]
KindsFor == [double       |-> {"number"}, bool        |-> {"bool"},
             QString      |-> {"text"},   QStringList |-> {"texts"},
             QVariantList |-> {"texts", "numbers"},
             QJsonArray   |-> {"texts", "numbers"}]
Unchecked == {"QUrl"}
Types     == DOMAIN IntRange \cup DOMAIN KindsFor \cup Unchecked

ASSUME WidthsAssumption ==
  {IntHalf, LongHalf} \subseteq Nat \ {0} /\ {DoubleExact, MaxMethods} \subseteq Nat
ASSUME MethodsAssumption == \A m \in Methods : m.params \in Seq(Types)
ASSUME RequestsAssumption == \A q \in Requests : q.args \in Seq(Arguments)

\* A whole-valued number within the range of an integral type.
InRange(a, type) ==
  a.kind = "number" /\ a.half % 2 = 0 /\ a.half \div 2 \in IntRange[type]

\* Slip: an int is checked as the widest integer.
AcceptsWidened(a, type) ==
  IF type \in DOMAIN IntRange THEN InRange(a, "qlonglong")
                              ELSE a.kind \in KindsFor[type]

\* The codec's rule for a type: a whole-valued float is a legal integer, within
\* the declared type's own range; a list's elements are checked only as far as
\* its type names them.
Accepts(a, type) ==
  IF type \in DOMAIN IntRange THEN InRange(a, type)
                              ELSE a.kind \in KindsFor[type]

\* The type a value arrives with: an integer, if 64 bits hold it.
TypeOf(a) ==
  CASE InRange(a, "qlonglong") -> "qlonglong"
    [] InRange(a, "qulonglong") /\ ~InRange(a, "qlonglong") -> "qulonglong"
    [] a.kind = "number" /\ ~InRange(a, "qlonglong")
         /\ ~InRange(a, "qulonglong") -> "double"
    [] a.kind = "text"    -> "QString"
    [] a.kind = "bool"    -> "bool"
    [] OTHER              -> "QVariantList"

\* The return types callMethod has a branch for.
Returns == {"void", "int"}

Probes    == {"name", "version"}
Framework == {"getPluginMethods", "getPluginEvents", "getPluginInterface"}

NoBody  == 0
Unnamed == ""   \* the empty method name

VARIABLES
  plugin,   \* the plugin's methods in the order of its meta-object
  request,  \* the call
  wiring,   \* what is behind the adapter: nothing, a plugin without a LogosAPI
            \* (or that is no PluginInterface), or one that was given it
  stage,    \* where callMethod is
  callee,   \* the method found
  types,    \* the types of the arguments, decoded as far as they are
  ran,      \* the method whose body ran
  seen,     \* the arguments it got
  reply     \* the answer

adapterVars == <<plugin, request, wiring, stage, callee, types, ran, seen, reply>>

AdapterInit ==
  /\ plugin \in BoundedSeq(Methods, MaxMethods)
  /\ request \in Requests
  /\ wiring \in {"nothing", "unwired", "wired"}
  /\ stage = "look up"
  /\ callee = NoBody
  /\ types = [n \in DOMAIN request.args |-> TypeOf(request.args[n])]
  /\ ran = NoBody
  /\ seen = <<>>
  /\ reply = "none"

Arity == Len(request.args)
Named == {m \in DOMAIN plugin : plugin[m].name = request.name}
Found == {m \in Named : Len(plugin[m].params) = Arity}
First(S) == CHOOSE m \in S : \A k \in S : m <= k

Finish(answer) ==
  /\ stage' = "done"
  /\ reply' = answer
  /\ UNCHANGED <<plugin, request, wiring, callee, types, ran, seen>>
-----------------------------------------------------------------------------
\* No module behind the adapter, or no method name.
NoCall ==
  /\ stage = "look up"
  /\ wiring = "nothing" \/ request.name = Unnamed
  /\ Finish("empty")

\* Answered by the adapter itself.
FrameworkCall ==
  /\ stage = "look up"
  /\ wiring # "nothing"
  /\ request.name \in Framework /\ Arity = 0
  /\ Finish("listing")

\* A call of one of the plugin's own methods.
ForPlugin ==
  /\ wiring # "nothing"
  /\ request.name # Unnamed
  /\ ~(request.name \in Framework /\ Arity = 0)

NotWired ==
  /\ stage = "look up"
  /\ ForPlugin
  /\ wiring = "unwired"
  /\ Finish("empty")

\* No method takes the call; a bare name() or version() is left to ModuleProxy.
Refusal ==
  IF request.name \in Probes /\ Arity = 0 THEN "empty"
  ELSE IF Named = {} THEN "unknown_method" ELSE "invalid_args"

NotFound ==
  /\ stage = "look up"
  /\ ForPlugin
  /\ wiring = "wired"
  /\ Found = {}
  /\ Finish(Refusal)

LookUp ==
  /\ stage = "look up"
  /\ ForPlugin
  /\ wiring = "wired"
  /\ Found # {}
  /\ callee' = First(Found)
  /\ stage' = "decode"
  /\ UNCHANGED <<plugin, request, wiring, types, ran, seen, reply>>

\* qtArgDecode.
Verdict(a, type) ==
  IF type \in Unchecked THEN "Unchecked"
  ELSE IF Accepts(a, type) THEN "Ok" ELSE "Rejected"

Rejected == \E n \in DOMAIN request.args :
              Verdict(request.args[n], plugin[callee].params[n]) = "Rejected"

\* A text becomes a QUrl; nothing else does, and stays what it is.
Converted(a, type) == IF a.kind = "text" THEN type ELSE TypeOf(a)

\* The type of an argument that was not rejected.
Decoded(a, declared) == IF Verdict(a, declared) = "Ok" THEN declared
                                                       ELSE Converted(a, declared)

Decode ==
  /\ stage = "decode"
  /\ ~Rejected
  /\ types' = [n \in DOMAIN types |->
                 Decoded(request.args[n], plugin[callee].params[n])]
  /\ stage' = "invoke"
  /\ UNCHANGED <<plugin, request, wiring, callee, ran, seen, reply>>

DispatchFailed ==
  /\ stage = "decode"
  /\ Rejected
  /\ Finish("dispatch_failed")

\* Slip: one more type without a case of its own.
WrappedWithoutUrl(type) ==
  IF type \in {"uint", "QJsonArray", "QUrl"} THEN "QString" ELSE type

\* toScopedQArgs: a type without a case of its own is passed as a QString.
Wrapped(type) == IF type \in {"uint", "QJsonArray"} THEN "QString" ELSE type

\* An integer that a double need not represent.
Rounds(a) == /\ TypeOf(a) \in {"qlonglong", "qulonglong"}
             /\ a.half \div 2 \notin (-DoubleExact)..DoubleExact

\* The value of an argument as a C++ value of a type: an integer is truncated
\* and taken modulo the type's width, a QString is the value's text, and a
\* double is rounded.
Cast(a, type) ==
  CASE type \in DOMAIN IntRange ->
         Number(2 * (CHOOSE v \in IntRange[type] :
                       (v - a.half \div 2) % Cardinality(IntRange[type]) = 0))
    [] type = "QString"             -> Other("text")
    [] type = "double" /\ Rounds(a) -> Other("rounded")
    [] OTHER                        -> a

\* QMetaObject::invokeMethod resolves the name by the wrapped types, and wants
\* the return type the caller asked for, if it asked for one.
Resolved ==
  {m \in Named :
     /\ plugin[m].params = [n \in DOMAIN types |-> Wrapped(types[n])]
     /\ plugin[callee].ret \in {"void", plugin[m].ret}}

Invocable == plugin[callee].ret \in Returns /\ Arity <= MaxArgs

Invoke ==
  /\ stage = "invoke"
  /\ Invocable
  /\ Resolved # {}
  /\ ran' = First(Resolved)
  /\ seen' = [n \in DOMAIN types |-> Cast(request.args[n], Wrapped(types[n]))]
  /\ reply' = "result"
  /\ stage' = "done"
  /\ UNCHANGED <<plugin, request, wiring, callee, types>>

\* An unsupported return type, too many arguments, nothing to invoke.
NotInvoked ==
  /\ stage = "invoke"
  /\ ~Invocable \/ Resolved = {}
  /\ Finish("empty")
-----------------------------------------------------------------------------
AdapterNext ==
  \/ NoCall
  \/ FrameworkCall
  \/ NotWired
  \/ NotFound
  \/ LookUp
  \/ Decode
  \/ DispatchFailed
  \/ Invoke
  \/ NotInvoked

AdapterSpec == AdapterInit /\ [][AdapterNext]_adapterVars
-----------------------------------------------------------------------------
\* The two resolutions of one call agree: a method that was found, with
\* arguments of types that all have a wrapper and a return type the adapter
\* supports, is the one whose body runs, unless an argument was rejected.
DecodedIsRun ==
  stage = "done" /\ callee # NoBody =>
    LET m == plugin[callee] IN
    (/\ \A n \in DOMAIN m.params :
          /\ m.params[n] \notin {"uint", "QJsonArray"}
          /\ m.params[n] \in Unchecked => request.args[n].kind = "text"
     /\ m.ret \in Returns
     /\ Arity <= MaxArgs)
    => IF Rejected THEN ran = NoBody
                   ELSE ran # NoBody /\ plugin[ran].params = m.params

\* "the author's own precondition checks never saw the value the caller actually
\* sent": a body that runs sees the caller's values, not others they overflow or
\* are truncated to on the way through decoding and wrapping.  (A body that takes
\* a text is NeverCoerced's; one that takes a double sees the double nearest to
\* an integer beyond 2^53.)
BodySeesWhatWasSent ==
  ran # NoBody =>
    \A n \in DOMAIN seen :
      LET a    == request.args[n]
          type == plugin[ran].params[n] IN
      type # "QString" /\ ~(type = "double" /\ Rounds(a)) => seen[n] = a

\* qt_provider_object.cpp: "an argument the declared type cannot represent"
\* becomes the dispatch_failed answer "rather than a plausible wrong value": a
\* body runs only with arguments its own declared types accept.
NeverCoerced ==
  ran # NoBody =>
    \A n \in DOMAIN request.args :
      Verdict(request.args[n], plugin[ran].params[n]) # "Rejected"
=============================================================================
