---------------------------- MODULE MCLegacyCall ----------------------------
(***************************************************************************)
(* Model of LegacyCall for TLC: every plugin of up to two methods, which   *)
(* may be overloads of each other, with one parameter of each class of     *)
(* types, and one method with more arguments than are supported (the       *)
(* source's 5, scaled to 1); every call with an argument of each kind, the *)
(* numbers on both sides of the bounds of both widths among them.          *)
(***************************************************************************)
EXTENDS LegacyCall

Args == {Number(h) : h \in {-8, -6, -4, -1, 2, 3, 4, 6, 8, 14, 16}}
          \cup {Other(k) : k \in {"bool", "text", "texts", "numbers"}}

ParamLists == {<<>>, <<"int", "int">>} \cup {<<t>> : t \in Types}
ArgLists   == {<<>>, <<Number(2), Number(2)>>} \cup {<<a>> : a \in Args}

SmallMethods  == [name : {"transfer"}, params : ParamLists,
                  ret : {"void", "int", "qlonglong"}]
SmallRequests == [name : {"transfer", "withdraw", "name", "getPluginMethods", Unnamed},
                  args : ArgLists]
=============================================================================
