------------------------------ MODULE Replies ------------------------------
(***************************************************************************)
(* How the generated provider turns what logos_module_dispatch returned    *)
(* into the reply of a call (qt-host-generator/lidl_gen_cdylib_glue.cpp,   *)
(* the same mapping in both concurrency modes).                            *)
(***************************************************************************)

\* The methods the generator tells apart.
Kinds == {"void", "LogosResult", "ordinary"}

\* What crosses the C ABI: nothing, something that is not JSON, a refusal
\* {code, message, origin}, another object, any other JSON value.
Results == {"null", "garbage", "refusal", "object", "json"}

\* What logos_module_get_methods says of a name: there is no usable list, or it
\* has the name, or it has not.
Listings == {"no list", "listed", "unlisted"}

\* A null result refuses only names the module does not list; name() and
\* version(), called bare, are left to ModuleProxy, which answers them on an
\* empty reply.
NullReply(listing, bareProbe) ==
  IF listing = "unlisted" /\ ~bareProbe THEN "refusal" ELSE "empty"

\* A void method answers true, unless it was refused; a LogosResult method's
\* object is read as {success, value, error}, of which a refusal has none.
JsonReply(kind, result) ==
  CASE kind = "void" -> IF result = "refusal" THEN "refusal" ELSE "true"
    [] kind = "LogosResult" /\ result = "refusal" -> "failed LogosResult"
    [] kind = "LogosResult" /\ result = "object"  -> "LogosResult"
    [] OTHER -> result

Reply(kind, result, listing, bareProbe) ==
  CASE result = "null"    -> NullReply(listing, bareProbe)
    [] result = "garbage" -> "empty"
    [] OTHER              -> JsonReply(kind, result)

\* Replies that tell the caller that its method ran.
Successes == {"true", "LogosResult", "object", "json"}
=============================================================================
