---------------------------- MODULE SingleProofs ----------------------------
(***************************************************************************)
(* The safety properties of SingleDispatch, for any number of calls nested *)
(* to any depth.                                                           *)
(*                                                                         *)
(* The host's scopes and the module's caller store are stacks of their own *)
(* that no dispatch addresses by its call.  They are right because each    *)
(* has one entry per dispatch in progress, in the same order, but for the  *)
(* one that has been entered and not pushed yet.                           *)
(***************************************************************************)
EXTENDS SingleDispatch, SequenceTheorems, TLAPS

TypeInv ==
  /\ stack \in Seq(Calls)
  /\ scopes \in Seq(Callers)
  /\ pc \in [Calls -> {"new", "entered", "running", "waiting", "dispatched", "done"}]

\* Every dispatch but the newest waits for one above it, and is in progress once.
StackInv ==
  /\ \A i \in 1..Len(stack) : pc[stack[i]] \notin {"new", "done"}
  /\ \A i \in 2..Len(stack) : pc[stack[i]] = "waiting"
  /\ \A i, j \in 1..Len(stack) : stack[i] = stack[j] => i = j

\* The scopes open on the thread are those of the dispatches in progress.
ScopesInv ==
  /\ Len(scopes) = Len(stack)
  /\ \A i \in 1..Len(stack) : scopes[i] = CallerOf[stack[i]]

\* The newest dispatch has not pushed its caller yet.
Unpushed == stack # <<>> /\ pc[Head(stack)] = "entered"

ToldInv == told = IF Unpushed THEN Tail(scopes) ELSE scopes

SeenInv == seen \in [Calls -> SUBSET Callers] /\ CallerIsOwn

\* A call is answered when it is done, and not before.
AnsweredInv ==
  /\ result \in [Calls -> Results \cup {"none"}]
  /\ DOMAIN answered = Calls
  /\ \A c \in Calls : pc[c] # "done" => answered[c] = "no result"
  /\ RefusalIsNoSuccess

IInv == TypeInv /\ StackInv /\ ScopesInv /\ ToldInv /\ SeenInv /\ AnsweredInv
-----------------------------------------------------------------------------
\* What pushing onto a stack, and popping from it, leave there.
LEMMA Pushed ==
  ASSUME NEW S, NEW s \in Seq(S), NEW x \in S
  PROVE  /\ <<x>> \o s \in Seq(S)
         /\ Len(<<x>> \o s) = Len(s) + 1
         /\ <<x>> \o s # <<>>
         /\ Head(<<x>> \o s) = x
         /\ (<<x>> \o s)[1] = x
         /\ \A i \in 2..(Len(s) + 1) : (<<x>> \o s)[i] = s[i - 1]
         /\ Tail(<<x>> \o s) = s
  <1> DEFINE r == <<x>> \o s
  <1>1. <<x>> \in Seq(S) /\ Len(<<x>>) = 1 /\ <<x>>[1] = x /\ Len(s) \in Nat
    OBVIOUS
  <1>2. /\ r \in Seq(S) /\ Len(r) = Len(s) + 1
        /\ r[1] = x
        /\ \A i \in 2..(Len(s) + 1) : r[i] = s[i - 1]
    BY <1>1, ConcatProperties
  <1> HIDE DEF r
  <1>3. r # <<>> /\ Head(r) = x
    BY <1>1, <1>2
  <1>4. Tail(r) \in Seq(S) /\ Len(Tail(r)) = Len(s)
    BY <1>1, <1>2, <1>3
  <1>5. \A i \in 1..Len(s) : Tail(r)[i] = s[i]
    BY <1>1, <1>2, <1>3, <1>4, HeadTailProperties
  <1>6. Tail(r) = s
    BY <1>4, <1>5, SeqEqual
  <1> QED
    BY <1>2, <1>3, <1>6 DEF r

LEMMA Popped ==
  ASSUME NEW S, NEW s \in Seq(S), s # <<>>
  PROVE  /\ Tail(s) \in Seq(S)
         /\ Len(s) \in Nat \ {0} /\ Len(Tail(s)) = Len(s) - 1
         /\ Head(s) = s[1] /\ Head(s) \in S
         /\ \A i \in 1..(Len(s) - 1) : Tail(s)[i] = s[i + 1]
         /\ <<Head(s)>> \o Tail(s) = s
  <1>1. /\ Tail(s) \in Seq(S) /\ Len(Tail(s)) = Len(s) - 1
        /\ Len(s) \in Nat \ {0}
        /\ Head(s) = s[1] /\ Head(s) \in S
        /\ \A i \in 1..(Len(s) - 1) : Tail(s)[i] = s[i + 1]
    BY HeadTailProperties, EmptySeq
  <1> DEFINE r == <<Head(s)>> \o Tail(s)
  <1>2. /\ r \in Seq(S) /\ Len(r) = Len(s)
        /\ r[1] = Head(s)
        /\ \A i \in 2..Len(s) : r[i] = Tail(s)[i - 1]
    BY <1>1, Pushed
  <1> HIDE DEF r
  <1>3. \A i \in 1..Len(s) : r[i] = s[i]
    BY <1>1, <1>2
  <1>4. r = s
    BY <1>2, <1>3, SeqEqual
  <1> QED
    BY <1>1, <1>4 DEF r

LEMMA InitIInv == Init => IInv
  <1> SUFFICES ASSUME Init
               PROVE  IInv
    OBVIOUS
  <1> USE DEF Init
  <1>0. TypeInv
    BY EmptySeq DEF TypeInv
  <1>1. StackInv /\ ScopesInv
    <2>1. Len(stack) = 0 /\ Len(scopes) = 0
      BY EmptySeq
    <2> HIDE DEF Init
    <2> QED
      BY <2>1 DEF StackInv, ScopesInv
  <1>2. ToldInv
    BY DEF ToldInv, Unpushed
  <1>3. SeenInv
    BY DEF SeenInv, CallerIsOwn
  <1>4. AnsweredInv
    BY DEF AnsweredInv, RefusalIsNoSuccess, Successes
  <1> QED
    BY <1>0, <1>1, <1>2, <1>3, <1>4 DEF IInv
-----------------------------------------------------------------------------
\* The newest dispatch is the one that goes on.
LEMMA Newest1 ==
  ASSUME TypeInv, ScopesInv, NEW c \in Calls, Current(c)
  PROVE  /\ stack # <<>> /\ Len(stack) \in Nat \ {0} /\ stack[1] = c
         /\ scopes # <<>> /\ Head(scopes) = CallerOf[c]
  <1>1. stack # <<>> /\ Len(stack) \in Nat \ {0} /\ stack[1] = c
    BY Popped DEF TypeInv, Current
  <1>2. scopes # <<>>
    BY <1>1 DEF TypeInv, ScopesInv
  <1>3. Head(scopes) = scopes[1]
    BY <1>2, Popped DEF TypeInv
  <1> QED
    BY <1>1, <1>2, <1>3 DEF ScopesInv

\* A delivery puts a call on top of waiting ones.
LEMMA DeliverKeeps ==
  ASSUME TypeInv, StackInv, ScopesInv, ToldInv, NEW c \in Calls, Deliver(c)
  PROVE  TypeInv' /\ StackInv' /\ ScopesInv' /\ ToldInv'
  <1>1. /\ stack' = <<c>> \o stack /\ scopes' = <<CallerOf[c]>> \o scopes
        /\ pc[c] = "new" /\ pc' = [pc EXCEPT ![c] = "entered"]
        /\ stack # <<>> => pc[Head(stack)] = "waiting"
        /\ UNCHANGED told
    BY DEF Deliver
  <1>2. CallerOf[c] \in Callers
    BY CallsAssumption
  <1>3. /\ stack' \in Seq(Calls) /\ Len(stack') = Len(stack) + 1 /\ stack' # <<>>
        /\ Head(stack') = c /\ stack'[1] = c
        /\ \A i \in 2..(Len(stack) + 1) : stack'[i] = stack[i - 1]
    BY <1>1, Pushed DEF TypeInv
  <1>4. /\ scopes' \in Seq(Callers) /\ Len(scopes') = Len(scopes) + 1
        /\ scopes'[1] = CallerOf[c] /\ Tail(scopes') = scopes
        /\ \A i \in 2..(Len(scopes) + 1) : scopes'[i] = scopes[i - 1]
    BY <1>1, <1>2, Pushed DEF TypeInv
  <1>5. Len(stack) \in Nat /\ \A i \in 1..Len(stack) : stack[i] \in Calls
    BY DEF TypeInv
  <1>6. TypeInv'
    BY <1>1, <1>3, <1>4 DEF TypeInv
  <1>7. \A i \in 1..Len(stack) : stack[i] # c /\ pc[stack[i]] = "waiting"
    <2> SUFFICES ASSUME NEW i \in 1..Len(stack)
                 PROVE  stack[i] # c /\ pc[stack[i]] = "waiting"
      OBVIOUS
    <2>1. stack # <<>> /\ Head(stack) = stack[1]
      BY <1>5, Popped DEF TypeInv
    <2> QED
      BY <1>1, <1>5, <2>1 DEF StackInv
  <1>8. StackInv'
    <2>1. \A i \in 2..Len(stack') : pc'[stack'[i]] = "waiting" /\ stack'[i] # c
      BY <1>1, <1>3, <1>5, <1>7 DEF TypeInv
    <2>2. pc'[stack'[1]] = "entered"
      BY <1>1, <1>3 DEF TypeInv
    <2>3. \A i, j \in 1..Len(stack') : stack'[i] = stack'[j] => i = j
      <3> SUFFICES ASSUME NEW i \in 1..Len(stack'), NEW j \in 1..Len(stack'),
                          stack'[i] = stack'[j]
                   PROVE  i = j
        OBVIOUS
      <3>1. CASE i = 1 \/ j = 1
        BY <1>3, <1>5, <2>1, <3>1
      <3>2. CASE i # 1 /\ j # 1
        <4>1. /\ i - 1 \in 1..Len(stack) /\ j - 1 \in 1..Len(stack)
              /\ stack[i - 1] = stack[j - 1]
          BY <1>3, <1>5, <3>2
        <4> QED
          BY <4>1 DEF StackInv
      <3> QED
        BY <3>1, <3>2
    <2> QED
      BY <1>3, <1>5, <2>1, <2>2, <2>3 DEF StackInv
  <1>9. ScopesInv'
    <2> SUFFICES ASSUME NEW i \in 1..Len(stack')
                 PROVE  scopes'[i] = CallerOf[stack'[i]]
      BY <1>3, <1>4 DEF ScopesInv
    <2>1. CASE i = 1
      BY <1>3, <1>4, <2>1
    <2>2. CASE i # 1
      <3>1. i - 1 \in 1..Len(stack) /\ i \in 2..(Len(stack) + 1)
        BY <1>3, <1>5, <2>2
      <3>2. scopes'[i] = scopes[i - 1] /\ stack'[i] = stack[i - 1]
        BY <1>3, <1>4, <3>1 DEF ScopesInv
      <3> QED
        BY <3>1, <3>2 DEF ScopesInv
    <2> QED
      BY <2>1, <2>2
  <1>10. told = scopes
    BY <1>1 DEF ToldInv, Unpushed
  <1>11. Unpushed'
    BY <1>1, <1>3 DEF Unpushed, TypeInv
  <1>12. ToldInv'
    BY <1>1, <1>4, <1>10, <1>11 DEF ToldInv
  <1> QED
    BY <1>6, <1>8, <1>9, <1>12

\* A dispatch that returns gives way to the one that waits for it.
LEMMA ReturnKeeps ==
  ASSUME TypeInv, StackInv, ScopesInv, ToldInv, NEW c \in Calls, ReturnResult(c)
  PROVE  TypeInv' /\ StackInv' /\ ScopesInv' /\ ToldInv'
  <1>1. /\ stack' = Tail(stack) /\ scopes' = Tail(scopes) /\ told' = Tail(told)
        /\ pc[c] = "dispatched" /\ pc' = [pc EXCEPT ![c] = "done"]
        /\ Current(c)
    BY DEF ReturnResult
  <1>2. /\ stack # <<>> /\ Len(stack) \in Nat \ {0} /\ stack[1] = c
        /\ scopes # <<>>
    BY <1>1, Newest1
  <1>3. /\ stack' \in Seq(Calls) /\ Len(stack') = Len(stack) - 1
        /\ \A i \in 1..(Len(stack) - 1) : stack'[i] = stack[i + 1]
    BY <1>1, <1>2, Popped DEF TypeInv
  <1>4. /\ scopes' \in Seq(Callers) /\ Len(scopes') = Len(scopes) - 1
        /\ \A i \in 1..(Len(scopes) - 1) : scopes'[i] = scopes[i + 1]
    BY <1>1, <1>2, Popped DEF TypeInv
  <1>5. TypeInv'
    BY <1>1, <1>3, <1>4 DEF TypeInv
  <1>6. \A i \in 1..Len(stack') : stack'[i] \in Calls /\ pc'[stack'[i]] = "waiting"
    <2> SUFFICES ASSUME NEW i \in 1..Len(stack')
                 PROVE  stack'[i] \in Calls /\ pc'[stack'[i]] = "waiting"
      OBVIOUS
    <2>1. i + 1 \in 2..Len(stack) /\ stack'[i] = stack[i + 1] /\ stack'[i] \in Calls
      BY <1>2, <1>3 DEF TypeInv
    <2>2. pc[stack'[i]] = "waiting"
      BY <2>1 DEF StackInv
    <2> QED
      BY <1>1, <2>1, <2>2 DEF TypeInv
  <1>7. StackInv'
    <2>1. \A i, j \in 1..Len(stack') : stack'[i] = stack'[j] => i = j
      <3> SUFFICES ASSUME NEW i \in 1..Len(stack'), NEW j \in 1..Len(stack'),
                          stack'[i] = stack'[j]
                   PROVE  i = j
        OBVIOUS
      <3>1. /\ i + 1 \in 1..Len(stack) /\ j + 1 \in 1..Len(stack)
            /\ stack[i + 1] = stack[j + 1]
        BY <1>2, <1>3
      <3> QED
        BY <3>1 DEF StackInv
    <2> QED
      BY <1>3, <1>6, <2>1 DEF StackInv
  <1>8. ScopesInv'
    <2> SUFFICES ASSUME NEW i \in 1..Len(stack')
                 PROVE  scopes'[i] = CallerOf[stack'[i]]
      BY <1>3, <1>4 DEF ScopesInv
    <2>1. i + 1 \in 1..Len(stack) /\ i \in 1..(Len(stack) - 1)
      BY <1>2, <1>3
    <2>2. scopes'[i] = scopes[i + 1] /\ stack'[i] = stack[i + 1]
      BY <1>3, <1>4, <2>1 DEF ScopesInv
    <2> QED
      BY <2>1, <2>2 DEF ScopesInv
  <1>9. told = scopes
    BY <1>1, <1>2 DEF ToldInv, Unpushed, Current
  <1>10. ~Unpushed'
    <2> SUFFICES ASSUME stack' # <<>>
                 PROVE  pc'[Head(stack')] # "entered"
      BY DEF Unpushed
    <2>1. Head(stack') = stack'[1] /\ 1 \in 1..Len(stack')
      BY <1>3, Popped
    <2> QED
      BY <1>6, <2>1
  <1>11. ToldInv'
    BY <1>1, <1>9, <1>10 DEF ToldInv
  <1> QED
    BY <1>5, <1>7, <1>8, <1>11

\* The newest dispatch goes from one stage to the next; others are not touched.
LEMMA StageKeeps ==
  ASSUME TypeInv, StackInv, ScopesInv, NEW c \in Calls, Current(c),
         UNCHANGED <<stack, scopes>>,
         NEW to \in {"running", "waiting", "dispatched"},
         pc' = [pc EXCEPT ![c] = to]
  PROVE  TypeInv' /\ StackInv' /\ ScopesInv' /\ ~Unpushed'
  <1>1. Len(stack) \in Nat \ {0} /\ stack[1] = c
    BY Newest1
  <1>2. TypeInv'
    BY DEF TypeInv
  <1>3. \A i \in 2..Len(stack) : stack[i] # c
    BY <1>1 DEF StackInv
  <1>4. \A i \in 1..Len(stack) : stack[i] \in Calls
    BY DEF TypeInv
  <1>5. /\ pc'[stack[1]] = to
        /\ \A i \in 2..Len(stack) : pc'[stack[i]] = pc[stack[i]]
    BY <1>1, <1>3, <1>4 DEF TypeInv
  <1>6. StackInv'
    BY <1>1, <1>5 DEF StackInv
  <1>7. ScopesInv'
    BY DEF ScopesInv
  <1>8. ~Unpushed'
    BY <1>1, <1>5 DEF Unpushed, Current
  <1> QED
    BY <1>2, <1>6, <1>7, <1>8
-----------------------------------------------------------------------------
LEMMA KeepsStacks ==
  ASSUME TypeInv, StackInv, ScopesInv, ToldInv, [Next]_vars
  PROVE  TypeInv' /\ StackInv' /\ ScopesInv' /\ ToldInv'
  <1>1. ASSUME NEW c \in Calls, PushCaller(c)
        PROVE  TypeInv' /\ StackInv' /\ ScopesInv' /\ ToldInv'
    <2>1. /\ Current(c) /\ pc[c] = "entered"
          /\ UNCHANGED <<stack, scopes>>
          /\ pc' = [pc EXCEPT ![c] = "running"]
          /\ told' = <<Newest(scopes)>> \o told
      BY <1>1 DEF PushCaller
    <2>2. TypeInv' /\ StackInv' /\ ScopesInv' /\ ~Unpushed'
      BY <2>1, StageKeeps
    <2>3. scopes # <<>> /\ Unpushed
      BY <2>1, Newest1 DEF Unpushed, Current
    <2>4. told = Tail(scopes) /\ Newest(scopes) = Head(scopes)
      BY <2>3 DEF ToldInv, Newest
    <2>5. told' = scopes
      BY <2>1, <2>3, <2>4, Popped DEF TypeInv
    <2> QED
      BY <2>1, <2>2, <2>5 DEF ToldInv
  <1>2. ASSUME NEW c \in Calls, CallOut(c) \/ Resume(c) \/ HandlerReturns(c)
        PROVE  TypeInv' /\ StackInv' /\ ScopesInv' /\ ToldInv'
    <2>1. /\ Current(c) /\ pc[c] # "entered"
          /\ UNCHANGED <<stack, scopes, told>>
          /\ \E to \in {"running", "waiting", "dispatched"} : pc' = [pc EXCEPT ![c] = to]
      BY <1>2 DEF CallOut, Resume, HandlerReturns
    <2>2. TypeInv' /\ StackInv' /\ ScopesInv' /\ ~Unpushed'
      BY <2>1, StageKeeps
    <2>3. told = scopes
      BY <2>1 DEF ToldInv, Unpushed, Current
    <2> QED
      BY <2>1, <2>2, <2>3 DEF ToldInv
  <1>3. CASE (\E c \in Calls : Ask(c)) \/ UNCHANGED vars
    <2>1. UNCHANGED <<stack, pc, scopes, told>>
      BY <1>3 DEF Ask, vars
    <2>2. Unpushed' <=> Unpushed
      BY <2>1 DEF Unpushed
    <2>3. TypeInv' /\ StackInv' /\ ScopesInv'
      BY <2>1 DEF TypeInv, StackInv, ScopesInv
    <2>4. ToldInv'
      BY <2>1, <2>2 DEF ToldInv
    <2> QED
      BY <2>3, <2>4
  <1>4. ASSUME NEW c \in Calls, Deliver(c)
        PROVE  TypeInv' /\ StackInv' /\ ScopesInv' /\ ToldInv'
    BY <1>4, DeliverKeeps
  <1>5. ASSUME NEW c \in Calls, ReturnResult(c)
        PROVE  TypeInv' /\ StackInv' /\ ScopesInv' /\ ToldInv'
    BY <1>5, ReturnKeeps
  <1> QED
    BY <1>1, <1>2, <1>3, <1>4, <1>5 DEF Next, Step

\* The handler that runs is the newest dispatch, and its caller is pushed.
LEMMA KeepsSeenInv ==
  ASSUME TypeInv, ScopesInv, ToldInv, SeenInv, [Next]_vars
  PROVE  SeenInv'
  <1>1. ASSUME NEW c \in Calls, Ask(c)
        PROVE  SeenInv'
    <2>1. told = scopes
      BY <1>1 DEF Ask, Current, ToldInv, Unpushed
    <2>2. scopes # <<>> /\ Head(scopes) = CallerOf[c] /\ CallerOf[c] \in Callers
      BY <1>1, Newest1, CallsAssumption DEF Ask
    <2>3. seen' = [seen EXCEPT ![c] = @ \cup {CallerOf[c]}]
      BY <1>1, <2>1, <2>2 DEF Ask, Newest
    <2> QED
      BY <2>2, <2>3 DEF SeenInv, CallerIsOwn
  <1>2. CASE UNCHANGED seen
    BY <1>2 DEF SeenInv, CallerIsOwn
  <1> QED
    BY <1>1, <1>2 DEF Next, Step, Deliver, CallOut, Resume, PushCaller, HandlerReturns,
                      ReturnResult, vars

\* What a refusal is made of does not look like a success, whatever its method's
\* kind is.
LEMMA RefusalStays ==
  ASSUME NEW c \in Calls, result[c] = "refusal", NEW r \in ReplyTo(c)
  PROVE  r \notin Successes
  <1>1. PICK l \in Listings : \E b \in BOOLEAN : r = Reply(KindOf[c], result[c], l, b)
    BY DEF ReplyTo
  <1>2. r = JsonReply(KindOf[c], "refusal")
    BY <1>1, Zenon DEF Reply
  <1>3. JsonReply(KindOf[c], "refusal") \in {"refusal", "failed LogosResult"}
    BY CallsAssumption DEF JsonReply, Kinds
  <1> QED
    BY <1>2, <1>3 DEF Successes

LEMMA KeepsAnsweredInv ==
  ASSUME TypeInv, AnsweredInv, [Next]_vars
  PROVE  AnsweredInv'
  <1> USE DEF AnsweredInv, RefusalIsNoSuccess
  <1>1. ASSUME NEW c \in Calls, HandlerReturns(c)
        PROVE  AnsweredInv'
    <2>1. PICK r \in Results : result' = [result EXCEPT ![c] = r]
      BY <1>1 DEF HandlerReturns
    <2>2. /\ pc[c] = "running" /\ pc' = [pc EXCEPT ![c] = "dispatched"]
          /\ UNCHANGED answered
      BY <1>1 DEF HandlerReturns
    <2>3. answered[c] = "no result"
      BY <2>2
    <2> QED
      BY <2>1, <2>2, <2>3 DEF TypeInv, Successes
  <1>2. ASSUME NEW c \in Calls, ReturnResult(c)
        PROVE  AnsweredInv'
    <2>1. PICK r \in ReplyTo(c) : answered' = [answered EXCEPT ![c] = r]
      BY <1>2 DEF ReturnResult
    <2>2. pc' = [pc EXCEPT ![c] = "done"] /\ UNCHANGED result
      BY <1>2 DEF ReturnResult
    <2>3. result[c] = "refusal" => r \notin Successes
      BY <2>1, RefusalStays
    <2> QED
      BY <2>1, <2>2, <2>3 DEF TypeInv
  <1>3. ASSUME NEW c \in Calls,
               Deliver(c) \/ PushCaller(c) \/ CallOut(c) \/ Resume(c) \/ Ask(c)
        PROVE  AnsweredInv'
    <2>1. UNCHANGED <<result, answered>>
      BY <1>3 DEF Deliver, PushCaller, CallOut, Resume, Ask
    <2>2. pc' = pc \/ (pc[c] # "done" /\ \E to : pc' = [pc EXCEPT ![c] = to])
      BY <1>3 DEF Deliver, PushCaller, CallOut, Resume, Ask
    <2> QED
      BY <2>1, <2>2 DEF TypeInv
  <1>4. CASE UNCHANGED vars
    BY <1>4 DEF vars
  <1> QED
    BY <1>1, <1>2, <1>3, <1>4 DEF Next, Step

LEMMA NextIInv == IInv /\ [Next]_vars => IInv'
  BY KeepsStacks, KeepsSeenInv, KeepsAnsweredInv DEF IInv

THEOREM InvariantHolds == Spec => []IInv
  BY InitIInv, NextIInv, PTL DEF Spec
-----------------------------------------------------------------------------
\* To whatever depth calls of other callers nest above it, a handler is told who
\* made its own.
THEOREM OwnCallerIsTold == Spec => []CallerIsOwn
  <1>1. IInv => CallerIsOwn
    BY DEF IInv, SeenInv
  <1> QED
    BY <1>1, InvariantHolds, PTL

\* A refused call is reported as no success, of whatever kind its method is.
THEOREM RefusalsAreTold == Spec => []RefusalIsNoSuccess
  <1>1. IInv => RefusalIsNoSuccess
    BY DEF IInv, AnsweredInv
  <1> QED
    BY <1>1, InvariantHolds, PTL
-----------------------------------------------------------------------------
(***************************************************************************)
(* Dispatches unwind.  DeliveredIsAnswered is a liveness property and      *)
(* stays with TLC; what it rests on is that no dispatch drops off the      *)
(* stack unanswered, and that the newest one can always go on.             *)
(***************************************************************************)

\* A dispatch in progress is on the stack, and one that is over was answered.
ProgressInv ==
  \A c \in Calls :
    /\ pc[c] \notin {"new", "done"} => \E i \in 1..Len(stack) : stack[i] = c
    /\ pc[c] = "done" => answered[c] # "no result"

\* Whatever a dispatch returned, there is a reply to it.
LEMMA ThereIsAReply ==
  ASSUME NEW c \in Calls, result[c] \in Results \cup {"none"}, NEW r \in ReplyTo(c)
  PROVE  r # "no result"
  <1>1. PICK l \in Listings, b \in BOOLEAN : r = Reply(KindOf[c], result[c], l, b)
    BY DEF ReplyTo
  <1>2. NullReply(l, b) \in {"refusal", "empty"}
    BY Zenon DEF NullReply
  <1>3. JsonReply(KindOf[c], result[c]) # "no result"
    BY CallsAssumption DEF JsonReply, Kinds, Results
  <1>4. r = NullReply(l, b) \/ r = "empty" \/ r = JsonReply(KindOf[c], result[c])
    BY <1>1, Zenon DEF Reply
  <1> QED
    BY <1>2, <1>3, <1>4

LEMMA KeepsProgressInv ==
  ASSUME TypeInv, ScopesInv, AnsweredInv, ProgressInv, [Next]_vars
  PROVE  ProgressInv'
  <1>1. ASSUME NEW c \in Calls, Deliver(c)
        PROVE  ProgressInv'
    <2>1. /\ stack' = <<c>> \o stack /\ pc' = [pc EXCEPT ![c] = "entered"]
          /\ UNCHANGED answered
      BY <1>1 DEF Deliver
    <2>2. /\ Len(stack) \in Nat /\ Len(stack') = Len(stack) + 1 /\ stack'[1] = c
          /\ \A i \in 2..(Len(stack) + 1) : stack'[i] = stack[i - 1]
      BY <2>1, Pushed DEF TypeInv
    <2>3. \A i \in 1..Len(stack) : i + 1 \in 1..Len(stack') /\ stack'[i + 1] = stack[i]
      BY <2>2
    <2>4. 1 \in 1..Len(stack')
      BY <2>2
    <2>5. ASSUME NEW d \in Calls, pc'[d] \notin {"new", "done"}
          PROVE  \E i \in 1..Len(stack') : stack'[i] = d
      <3>1. CASE d = c
        BY <2>2, <2>4, <3>1
      <3>2. CASE d # c
        <4>1. PICK i \in 1..Len(stack) : stack[i] = d
          BY <2>1, <2>5, <3>2 DEF ProgressInv, TypeInv
        <4> QED
          BY <2>3, <4>1
      <3> QED
        BY <3>1, <3>2
    <2>6. \A d \in Calls : pc'[d] = "done" => answered'[d] # "no result"
      BY <2>1 DEF ProgressInv, TypeInv
    <2> QED
      BY <2>5, <2>6 DEF ProgressInv
  <1>2. ASSUME NEW c \in Calls, ReturnResult(c)
        PROVE  ProgressInv'
    <2>1. PICK r \in ReplyTo(c) : answered' = [answered EXCEPT ![c] = r]
      BY <1>2 DEF ReturnResult
    <2>2. /\ stack' = Tail(stack) /\ pc' = [pc EXCEPT ![c] = "done"] /\ Current(c)
      BY <1>2 DEF ReturnResult
    <2>3. r # "no result"
      BY <2>1, ThereIsAReply DEF AnsweredInv
    <2>4. /\ Len(stack) \in Nat \ {0} /\ stack[1] = c /\ stack # <<>>
      BY <2>2, Newest1
    <2>5. /\ Len(stack') = Len(stack) - 1
          /\ \A i \in 1..(Len(stack) - 1) : stack'[i] = stack[i + 1]
      BY <2>2, <2>4, Popped DEF TypeInv
    <2>6. ASSUME NEW d \in Calls, d # c, pc[d] \notin {"new", "done"}
          PROVE  \E i \in 1..Len(stack') : stack'[i] = d
      <3>1. PICK i \in 1..Len(stack) : stack[i] = d
        BY <2>6 DEF ProgressInv
      <3>2. i - 1 \in 1..(Len(stack) - 1) /\ (i - 1) + 1 = i
        BY <2>4, <2>6, <3>1
      <3> QED
        BY <2>5, <3>1, <3>2
    <2> QED
      BY <2>1, <2>2, <2>3, <2>6 DEF ProgressInv, TypeInv, AnsweredInv
  <1>3. ASSUME NEW c \in Calls, PushCaller(c) \/ CallOut(c) \/ Resume(c) \/ HandlerReturns(c)
        PROVE  ProgressInv'
    <2>1. /\ pc[c] \notin {"new", "done"} /\ UNCHANGED <<stack, answered>>
          /\ \E to \in {"running", "waiting", "dispatched"} : pc' = [pc EXCEPT ![c] = to]
      BY <1>3 DEF PushCaller, CallOut, Resume, HandlerReturns
    <2> QED
      BY <2>1 DEF ProgressInv, TypeInv
  <1>4. CASE (\E c \in Calls : Ask(c)) \/ UNCHANGED vars
    <2>1. UNCHANGED <<stack, pc, answered>>
      BY <1>4 DEF Ask, vars
    <2> QED
      BY <2>1 DEF ProgressInv
  <1> QED
    BY <1>1, <1>2, <1>3, <1>4 DEF Next, Step

\* What is delivered is in progress until it has been answered.
THEOREM NoDispatchIsLost == Spec => []ProgressInv
  <1>1. Init => ProgressInv
    BY DEF Init, ProgressInv
  <1>2. IInv => TypeInv /\ ScopesInv /\ AnsweredInv
    BY DEF IInv
  <1> QED
    BY <1>1, <1>2, KeepsProgressInv, InvariantHolds, PTL DEF Spec

\* A dispatch in progress is the newest, which by the guards of its actions can go
\* on, or has called out and waits for the newest.
NoStandstill ==
  \A c \in Calls : pc[c] \notin {"new", "done"} =>
    \E d \in Calls :
      /\ Current(d)
      /\ pc[d] \in {"entered", "running", "waiting", "dispatched"}
      /\ d = c \/ pc[c] = "waiting"

\* Dispatches, nested to any depth, never wait for each other in a circle.
THEOREM NestingNeverStandsStill == Spec => []NoStandstill
  <1>1. IInv /\ ProgressInv => NoStandstill
    <2> SUFFICES ASSUME IInv, ProgressInv, NEW c \in Calls, pc[c] \notin {"new", "done"}
                 PROVE  \E d \in Calls :
                          /\ Current(d)
                          /\ pc[d] \in {"entered", "running", "waiting", "dispatched"}
                          /\ d = c \/ pc[c] = "waiting"
      BY DEF NoStandstill
    <2>0. TypeInv /\ StackInv
      BY DEF IInv
    <2>1. PICK i \in 1..Len(stack) : stack[i] = c
      BY DEF ProgressInv
    <2>2. stack # <<>>
      BY <2>1, EmptySeq
    <2>3. Len(stack) \in Nat \ {0} /\ Head(stack) = stack[1] /\ Head(stack) \in Calls
      BY <2>0, <2>2, Popped DEF TypeInv
    <2>4. pc[Head(stack)] \in {"entered", "running", "waiting", "dispatched"}
      BY <2>0, <2>3 DEF TypeInv, StackInv
    <2>5. i = 1 \/ pc[c] = "waiting"
      BY <2>0, <2>1, <2>3 DEF StackInv
    <2> QED
      BY <2>1, <2>2, <2>3, <2>4, <2>5 DEF Current
  <1> QED
    BY <1>1, InvariantHolds, NoDispatchIsLost, PTL
=============================================================================
