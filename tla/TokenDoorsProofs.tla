-------------------------- MODULE TokenDoorsProofs --------------------------
(***************************************************************************)
(* The safety properties of TokenDoors, for any number of modules and of   *)
(* tokens.                                                                 *)
(*                                                                         *)
(* Every token in a store was granted to the pair of modules the store     *)
(* files it under; the token being granted is the newest one of its pair,  *)
(* so a store's token for a caller only ever becomes newer.                *)
(***************************************************************************)
EXTENDS TokenDoors, TLAPS

Steps == {"none", "push", "granted", "failed"}
Store == [Modules -> [Modules -> Nat]]

TypeInv ==
  /\ protocol \in [Modules -> {7, 8}]
  /\ inbound \in Store /\ implIn \in Store /\ implOut \in Store
  /\ minted \in 0..MaxTokens
  /\ issued \in [Tokens -> Pairs \cup {<<>>}]
  /\ grant \in [Pairs -> [token : Nat, step : Steps]]

\* Token t has been granted by now, to p.
GrantedTo(t, p) == t \in 1..minted /\ issued[t] = p

\* What a store holds was granted to the pair it is filed under; an image
\* without an inbound door keeps the tokens of both directions in one store.
HeldInv ==
  \A m, c \in Modules :
    /\ inbound[m][c] # None => GrantedTo(inbound[m][c], <<c, m>>)
    /\ implIn[m][c] # None => GrantedTo(implIn[m][c], <<c, m>>)
    /\ implOut[m][c] # None =>
         \/ GrantedTo(implOut[m][c], <<m, c>>)
         \/ protocol[m] = 7 /\ GrantedTo(implOut[m][c], <<c, m>>)

\* The callee's images hold t, or a newer token of the pair.
InBothImages(p, t) ==
  /\ inbound[p[2]][p[1]] >= t
  /\ protocol[p[2]] = 8 => implIn[p[2]][p[1]] >= t

\* The token being granted is its pair's newest.
GrantInv ==
  \A p \in Pairs : grant[p].step # "none" =>
    /\ GrantedTo(grant[p].token, p)
    /\ \A t \in 1..minted : issued[t] = p => t <= grant[p].token
    /\ grant[p].step = "granted" => InBothImages(p, grant[p].token)

\* A token that its owner presents has arrived.
HandedInv ==
  \A p \in Pairs : GrantedTo(implOut[p[1]][p[2]], p)
                     => InBothImages(p, implOut[p[1]][p[2]])

\* Calls bear tokens that have been granted.
AcceptedInv == \A call \in accepted : GrantedTo(call.token, call.pair)

RejectedInv ==
  \A call \in rejected :
    /\ call.pair \in Pairs
    /\ protocol[call.pair[1]] = 8 =>
         /\ GrantedTo(call.token, call.pair)
         /\ call.token < inbound[call.pair[2]][call.pair[1]]

IInv ==
  /\ TypeInv
  /\ HeldInv
  /\ GrantInv
  /\ HandedInv
  /\ AcceptedInv
  /\ RejectedInv
-----------------------------------------------------------------------------
LEMMA PairParts ==
  ASSUME NEW p \in Pairs
  PROVE  p[1] \in Modules /\ p[2] \in Modules /\ p[1] # p[2] /\ p = <<p[1], p[2]>>
  BY DEF Pairs

\* A store into which a token is put.
With(s, m, c, t) == [s EXCEPT ![m][c] = t]

LEMMA StaysStore ==
  ASSUME NEW s \in Store, NEW m \in Modules, NEW c \in Modules, NEW t \in Nat
  PROVE  With(s, m, c, t) \in Store
  BY DEF Store, With

LEMMA InitIInv == Init => IInv
  <1> SUFFICES ASSUME Init
               PROVE  IInv
    OBVIOUS
  <1> USE MaxTokensAssumption DEF Init, None
  <1>1. TypeInv
    BY DEF TypeInv, Store, Steps, Idle
  <1>2. HeldInv /\ GrantInv /\ AcceptedInv /\ RejectedInv
    BY DEF HeldInv, GrantInv, AcceptedInv, RejectedInv, Idle
  <1>3. ASSUME NEW p \in Pairs
        PROVE  ~GrantedTo(implOut[p[1]][p[2]], p)
    BY PairParts DEF GrantedTo
  <1> QED
    BY <1>1, <1>2, <1>3 DEF IInv, HandedInv

\* init's steps, and all that only reads the stores.
NoStore == UNCHANGED <<protocol, stores, grants>>

LEMMA KeepsTypeInv ==
  ASSUME TypeInv, [Next]_vars
  PROVE  TypeInv'
  <1> USE MaxTokensAssumption
  <1>0. inbound \in Store /\ implIn \in Store /\ implOut \in Store
    BY DEF TypeInv
  <1>1. CASE NoStore
    BY <1>1 DEF NoStore, stores, grants, TypeInv
  <1>2. CASE \/ \E m \in Modules : ProviderInit(m) \/ SeedAnchor(m) \/ ForwardContext(m)
             \/ \E p \in Pairs : CallAccepted(p)
             \/ UNCHANGED vars
    <2>1. NoStore
      BY <1>2 DEF ProviderInit, SeedAnchor, ForwardContext, CallAccepted, vars, NoStore,
                  initial
    <2> QED
      BY <1>1, <2>1
  <1>3. ASSUME NEW p \in Pairs, RequestModule(p)
        PROVE  TypeInv'
    <2>1. minted + 1 \in Nat
      BY DEF TypeInv
    <2> QED
      BY <1>3, <2>1 DEF RequestModule, stores, initial, Tokens, Steps, TypeInv
  <1>4. ASSUME NEW p \in Pairs, InformModuleToken(p)
        PROVE  TypeInv'
    <2> PICK implOk \in BOOLEAN :
            /\ SaveInboundToken(p[2], p[1], grant[p].token)
            /\ AcceptInImage(p[2], p[1], grant[p].token, implOk)
            /\ grant' = [grant EXCEPT ![p].step =
                           IF InformAnswer(p[2], implOk) THEN "granted" ELSE "failed"]
      BY <1>4 DEF InformModuleToken
    <2>1. grant[p].token \in Nat /\ p[1] \in Modules /\ p[2] \in Modules
      BY PairParts DEF TypeInv
    <2>2. inbound' \in Store
      BY <1>0, <2>1 DEF SaveInboundToken, Store
    <2>3. implIn' = implIn \/ implIn' = With(implIn, p[2], p[1], grant[p].token)
      BY Zenon DEF AcceptInImage, With
    <2>4. implOut' = implOut \/ implOut' = With(implOut, p[2], p[1], grant[p].token)
      BY Zenon DEF AcceptInImage, With
    <2>5. implIn' \in Store
      BY <1>0, <2>1, <2>3, StaysStore
    <2>6. implOut' \in Store
      BY <1>0, <2>1, <2>4, StaysStore
    <2>7. grant' \in [Pairs -> [token : Nat, step : Steps]]
      BY DEF Steps, TypeInv
    <2> QED
      BY <1>4, <2>2, <2>5, <2>6, <2>7 DEF InformModuleToken, initial, TypeInv
  <1>5. ASSUME NEW p \in Pairs, Answer(p) \/ CallRejected(p) \/ Forget(p)
        PROVE  TypeInv'
    <2>1. grant[p].token \in Nat /\ p[1] \in Modules /\ p[2] \in Modules
      BY PairParts DEF TypeInv
    <2>2. \E t \in Nat : implOut' = With(implOut, p[1], p[2], t) \/ implOut' = implOut
      BY <1>5, <2>1 DEF Answer, CallRejected, Forget, None, With
    <2> PICK t \in Nat : implOut' = With(implOut, p[1], p[2], t) \/ implOut' = implOut
      BY <2>2
    <2>3. implOut' \in Store
      BY <1>0, <2>1, StaysStore
    <2>4. grant' = grant \/ grant' = [grant EXCEPT ![p] = Idle]
      BY <1>5 DEF Answer, CallRejected, Forget, grants
    <2>5. grant' \in [Pairs -> [token : Nat, step : Steps]]
      BY <2>4 DEF Idle, Steps, None, TypeInv
    <2> QED
      BY <1>5, <2>3, <2>5 DEF Answer, CallRejected, Forget, initial, grants,
                             TypeInv
  <1> QED
    BY <1>2, <1>3, <1>4, <1>5 DEF Next
-----------------------------------------------------------------------------
\* What a delivery leaves in the stores of the callee.
LEMMA Delivery ==
  ASSUME TypeInv, NEW p \in Pairs, InformModuleToken(p)
  PROVE  /\ grant[p].step = "push"
         /\ UNCHANGED <<protocol, minted, issued, accepted, rejected>>
         /\ \A m, c \in Modules :
              /\ inbound'[m][c] = inbound[m][c]
                   \/ (m = p[2] /\ c = p[1] /\ inbound'[m][c] = grant[p].token)
              /\ implIn'[m][c] = implIn[m][c]
                   \/ (m = p[2] /\ c = p[1] /\ implIn'[m][c] = grant[p].token)
              /\ implOut'[m][c] = implOut[m][c]
                   \/ (m = p[2] /\ c = p[1] /\ implOut'[m][c] = grant[p].token
                        /\ protocol[m] = 7)
         /\ \A q \in Pairs : grant'[q].token = grant[q].token
         /\ \A q \in Pairs : q # p => grant'[q] = grant[q]
         /\ grant'[p].step \in {"granted", "failed"}
         /\ grant'[p].step = "granted" =>
              /\ inbound'[p[2]][p[1]] = grant[p].token
              /\ protocol[p[2]] = 8 => implIn'[p[2]][p[1]] = grant[p].token
  <1> PICK implOk \in BOOLEAN :
          /\ SaveInboundToken(p[2], p[1], grant[p].token)
          /\ AcceptInImage(p[2], p[1], grant[p].token, implOk)
          /\ grant' = [grant EXCEPT ![p].step =
                         IF InformAnswer(p[2], implOk) THEN "granted" ELSE "failed"]
    BY DEF InformModuleToken
  <1>1. grant[p].token \in Nat /\ p[1] \in Modules /\ p[2] \in Modules
    BY PairParts DEF TypeInv
  <1>2. /\ grant[p].step = "push"
        /\ UNCHANGED <<protocol, minted, issued, accepted, rejected>>
    BY DEF InformModuleToken, initial, calls
  <1> DEFINE t  == grant[p].token
             ok == grant'[p].step = "granted"
  <1>7. /\ \A q \in Pairs : grant'[q].token = grant[q].token
        /\ \A q \in Pairs : q # p => grant'[q] = grant[q]
        /\ grant'[p].step = IF InformAnswer(p[2], implOk) THEN "granted" ELSE "failed"
    BY DEF TypeInv
  <1>8. ok => HostDoorOpen(p[2]) /\ implOk = TRUE
    <2>1. CASE InformAnswer(p[2], implOk)
      BY <2>1, Zenon DEF InformAnswer
    <2>2. CASE ~InformAnswer(p[2], implOk)
      BY <1>7, <2>2
    <2> QED
      BY <2>1, <2>2
  <1>9. /\ inbound' \in {inbound, With(inbound, p[2], p[1], t)}
        /\ ok => inbound' = With(inbound, p[2], p[1], t)
    BY <1>8, Zenon DEF SaveInboundToken, With
  <1>10. /\ implIn' \in {implIn, With(implIn, p[2], p[1], t)}
         /\ ok /\ protocol[p[2]] = 8 => implIn' = With(implIn, p[2], p[1], t)
         /\ \/ implOut' = implOut
            \/ implOut' = With(implOut, p[2], p[1], t) /\ protocol[p[2]] # 8
    BY <1>8, Zenon DEF AcceptInImage, With
  <1>11. protocol[p[2]] # 8 => protocol[p[2]] = 7
    BY <1>1 DEF TypeInv
  <1>12. /\ inbound \in Store /\ implIn \in Store /\ implOut \in Store
         /\ t \in Nat /\ p[1] \in Modules /\ p[2] \in Modules
    BY <1>1 DEF TypeInv
  <1> HIDE DEF t
  <1>3. /\ \A m, c \in Modules :
             inbound'[m][c] = inbound[m][c]
               \/ (m = p[2] /\ c = p[1] /\ inbound'[m][c] = t)
        /\ ok => inbound'[p[2]][p[1]] = t
    BY <1>9, <1>12 DEF Store, With
  <1>4. /\ \A m, c \in Modules :
             implIn'[m][c] = implIn[m][c]
               \/ (m = p[2] /\ c = p[1] /\ implIn'[m][c] = t)
        /\ ok /\ protocol[p[2]] = 8 => implIn'[p[2]][p[1]] = t
    BY <1>10, <1>12 DEF Store, With
  <1>6. \A m, c \in Modules :
          implOut'[m][c] = implOut[m][c]
            \/ (m = p[2] /\ c = p[1] /\ implOut'[m][c] = t /\ protocol[m] = 7)
    BY <1>10, <1>11, <1>12 DEF Store, With
  <1> QED
    BY <1>2, <1>3, <1>4, <1>6, <1>7 DEF t

\* The outbound store of one module alone changes: it is handed its token, or
\* loses one.
LEMMA Handover ==
  ASSUME TypeInv, NEW p \in Pairs, Answer(p) \/ CallRejected(p) \/ Forget(p)
  PROVE  /\ UNCHANGED <<protocol, inbound, implIn, minted, issued, accepted>>
         /\ \A m, c \in Modules :
              \/ implOut'[m][c] = implOut[m][c]
              \/ implOut'[m][c] = None
              \/ /\ m = p[1] /\ c = p[2]
                 /\ grant[p].step = "granted" /\ implOut'[m][c] = grant[p].token
         /\ \A q \in Pairs : grant'[q] = grant[q] \/ grant'[q].step = "none"
  <1>1. grant[p].token \in Nat /\ p[1] \in Modules /\ p[2] \in Modules
    BY PairParts DEF TypeInv
  <1>2. /\ UNCHANGED <<protocol, inbound, implIn, minted, issued, accepted>>
        /\ grant' = grant \/ grant' = [grant EXCEPT ![p] = Idle]
    BY DEF Answer, CallRejected, Forget, initial, grants, calls
  <1>3. \/ implOut' = implOut
        \/ implOut' = With(implOut, p[1], p[2], None)
        \/ /\ grant[p].step = "granted"
           /\ implOut' = With(implOut, p[1], p[2], grant[p].token)
    BY DEF Answer, CallRejected, Forget, With
  <1>4. None \in Nat /\ implOut \in Store
    BY DEF None, TypeInv
  <1>5. \A m, c \in Modules :
          \/ implOut'[m][c] = implOut[m][c]
          \/ implOut'[m][c] = None
          \/ /\ m = p[1] /\ c = p[2]
             /\ grant[p].step = "granted" /\ implOut'[m][c] = grant[p].token
    BY <1>1, <1>3, <1>4 DEF Store, With
  <1>6. \A q \in Pairs : grant'[q] = grant[q] \/ grant'[q].step = "none"
    BY <1>2 DEF TypeInv, Idle
  <1> QED
    BY <1>2, <1>5, <1>6

\* A new token is minted: those granted before stay whose they were.
LEMMA Minting ==
  ASSUME TypeInv, NEW p \in Pairs, RequestModule(p)
  PROVE  /\ UNCHANGED <<protocol, inbound, implIn, implOut, accepted, rejected>>
         /\ minted' = minted + 1
         /\ issued'[minted + 1] = p
         /\ \A t \in 1..minted : t \in 1..minted' /\ issued'[t] = issued[t]
         /\ grant'[p].token = minted + 1 /\ grant'[p].step = "push"
         /\ \A q \in Pairs : q # p => grant'[q] = grant[q]
  <1>1. minted + 1 \in Tokens
    BY MaxTokensAssumption DEF RequestModule, TypeInv, Tokens
  <1> QED
    BY <1>1, MaxTokensAssumption DEF RequestModule, TypeInv, initial, stores, calls, Tokens
-----------------------------------------------------------------------------
\* The rest of the invariant, when nothing it is about changes.
Same == UNCHANGED <<protocol, stores, grants, rejected>>

LEMMA KeepsSame ==
  ASSUME HeldInv, GrantInv, HandedInv, RejectedInv, Same
  PROVE  HeldInv' /\ GrantInv' /\ HandedInv' /\ RejectedInv'
  <1> USE DEF Same, stores, grants, GrantedTo, InBothImages
  <1>1. HeldInv'
    BY DEF HeldInv
  <1>2. GrantInv'
    BY DEF GrantInv
  <1>3. HandedInv'
    BY DEF HandedInv
  <1>4. RejectedInv'
    BY DEF RejectedInv
  <1> QED
    BY <1>1, <1>2, <1>3, <1>4

LEMMA MintingKeeps ==
  ASSUME IInv, NEW p \in Pairs, RequestModule(p)
  PROVE  HeldInv' /\ GrantInv' /\ HandedInv' /\ AcceptedInv' /\ RejectedInv'
  <1>1. \A t, q : GrantedTo(t, q) => GrantedTo(t, q)'
    BY Minting DEF IInv, GrantedTo
  <1>2. \A q \in Pairs : \A t : InBothImages(q, t)' <=> InBothImages(q, t)
    BY Minting DEF IInv, InBothImages
  <1>3. HeldInv'
    <2> SUFFICES ASSUME NEW m \in Modules, NEW c \in Modules
                 PROVE  (/\ inbound[m][c] # None => GrantedTo(inbound[m][c], <<c, m>>)
                         /\ implIn[m][c] # None => GrantedTo(implIn[m][c], <<c, m>>)
                         /\ implOut[m][c] # None =>
                              \/ GrantedTo(implOut[m][c], <<m, c>>)
                              \/ protocol[m] = 7
                                 /\ GrantedTo(implOut[m][c], <<c, m>>))'
      BY DEF HeldInv
    <2>1. UNCHANGED <<protocol, inbound, implIn, implOut>>
      BY Minting DEF IInv
    <2>2. \A t, q : GrantedTo(t, q) => t \in 1..minted' /\ issued'[t] = q
      BY Minting DEF IInv, GrantedTo
    <2>3. /\ inbound[m][c] # None => GrantedTo(inbound[m][c], <<c, m>>)
          /\ implIn[m][c] # None => GrantedTo(implIn[m][c], <<c, m>>)
          /\ implOut[m][c] # None =>
               \/ GrantedTo(implOut[m][c], <<m, c>>)
               \/ protocol[m] = 7 /\ GrantedTo(implOut[m][c], <<c, m>>)
      BY DEF IInv, HeldInv
    <2> QED
      BY <2>1, <2>2, <2>3 DEF GrantedTo, None
  <1>4. GrantInv'
    <2> SUFFICES ASSUME NEW q \in Pairs, grant'[q].step # "none"
                 PROVE  /\ GrantedTo(grant[q].token, q)'
                        /\ \A t \in 1..minted' : issued'[t] = q => t <= grant'[q].token
                        /\ grant'[q].step = "granted" => InBothImages(q, grant[q].token)'
      BY DEF GrantInv
    <2>1. CASE q = p
      BY <2>1, Minting DEF IInv, GrantedTo, TypeInv
    <2>2. CASE q # p
      BY <1>1, <1>2, <2>2, Minting DEF IInv, GrantInv, TypeInv
    <2> QED
      BY <2>1, <2>2
  <1>5. HandedInv'
    <2> SUFFICES ASSUME NEW q \in Pairs, GrantedTo(implOut[q[1]][q[2]], q)'
                 PROVE  InBothImages(q, implOut[q[1]][q[2]])'
      BY DEF HandedInv
    <2> DEFINE t == implOut[q[1]][q[2]]
    <2>0. q[1] \in Modules /\ q[2] \in Modules
      BY PairParts
    <2>1. implOut' = implOut
      BY Minting DEF IInv
    <2>1a. UNCHANGED t /\ t \in Nat
      BY <2>0, <2>1 DEF IInv, TypeInv, Store
    <2>2. t # None
      BY <2>1a, <2>1 DEF GrantedTo, None
    <2>3. t \in 1..minted
      BY <2>0, <2>2 DEF IInv, HeldInv, GrantedTo
    <2>4. GrantedTo(t, q)
      BY <2>1, <2>3, Minting DEF IInv, GrantedTo
    <2> QED
      BY <1>2, <2>1, <2>4 DEF IInv, HandedInv
  <1>6. AcceptedInv' /\ RejectedInv'
    BY <1>1, Minting DEF IInv, AcceptedInv, RejectedInv
  <1> QED
    BY <1>3, <1>4, <1>5, <1>6

\* What a delivery puts into a store is newer than what it replaces there.
LEMMA DeliveryRenews ==
  ASSUME IInv, NEW p \in Pairs, InformModuleToken(p),
         NEW m \in Modules, NEW c \in Modules
  PROVE  /\ inbound[m][c] \in Nat /\ inbound'[m][c] \in Nat
         /\ implIn[m][c] \in Nat /\ implIn'[m][c] \in Nat
         /\ inbound'[m][c] >= inbound[m][c]
         /\ implIn'[m][c] >= implIn[m][c]
  <1>1. TypeInv /\ HeldInv /\ GrantInv
    BY DEF IInv
  <1>2. /\ inbound[m][c] \in Nat
        /\ implIn[m][c] \in Nat
        /\ grant[p].token \in Nat
    BY <1>1 DEF TypeInv, Store
  <1>3. ASSUME NEW v \in Nat, v # None => GrantedTo(v, p)
        PROVE  v <= grant[p].token
    BY <1>1, <1>2, <1>3, Delivery DEF GrantInv, GrantedTo, None
  <1>4. CASE m = p[2] /\ c = p[1]
    <2>1. <<c, m>> = p
      BY <1>4, PairParts
    <2>2. inbound[m][c] <= grant[p].token /\ implIn[m][c] <= grant[p].token
      BY <1>1, <1>2, <1>3, <2>1 DEF HeldInv
    <2> QED
      BY <1>1, <1>2, <2>2, Delivery
  <1>5. CASE ~(m = p[2] /\ c = p[1])
    BY <1>1, <1>2, <1>5, Delivery
  <1> QED
    BY <1>4, <1>5

LEMMA DeliveryKeeps ==
  ASSUME IInv, NEW p \in Pairs, InformModuleToken(p)
  PROVE  HeldInv' /\ GrantInv' /\ HandedInv' /\ AcceptedInv' /\ RejectedInv'
  <1> DEFINE t == grant[p].token
  <1>0. TypeInv /\ HeldInv /\ GrantInv /\ HandedInv /\ AcceptedInv /\ RejectedInv
    BY DEF IInv
  <1>1. GrantedTo(t, p) /\ t \in Nat
    BY <1>0, Delivery DEF GrantInv, TypeInv
  <1>2. UNCHANGED <<protocol, minted, issued, accepted, rejected>>
    BY <1>0, Delivery
  <1>3. ASSUME NEW q \in Pairs, NEW u \in Nat, InBothImages(q, u)
        PROVE  InBothImages(q, u)'
    <2>1. q[1] \in Modules /\ q[2] \in Modules
      BY PairParts
    <2>2. inbound'[q[2]][q[1]] >= u
      BY <1>3, <2>1, DeliveryRenews DEF InBothImages
    <2>3. protocol[q[2]] = 8 => implIn'[q[2]][q[1]] >= u
      BY <1>3, <2>1, DeliveryRenews DEF InBothImages
    <2> QED
      BY <1>2, <2>2, <2>3 DEF InBothImages
  <1>4. HeldInv'
    <2> SUFFICES ASSUME NEW m \in Modules, NEW c \in Modules
                 PROVE  (/\ inbound[m][c] # None => GrantedTo(inbound[m][c], <<c, m>>)
                         /\ implIn[m][c] # None => GrantedTo(implIn[m][c], <<c, m>>)
                         /\ implOut[m][c] # None =>
                              \/ GrantedTo(implOut[m][c], <<m, c>>)
                              \/ protocol[m] = 7
                                 /\ GrantedTo(implOut[m][c], <<c, m>>))'
      BY DEF HeldInv
    <2>1. m = p[2] /\ c = p[1] => <<c, m>> = p
      BY PairParts
    <2>2. /\ inbound[m][c] # None => GrantedTo(inbound[m][c], <<c, m>>)
          /\ implIn[m][c] # None => GrantedTo(implIn[m][c], <<c, m>>)
          /\ implOut[m][c] # None =>
               \/ GrantedTo(implOut[m][c], <<m, c>>)
               \/ protocol[m] = 7 /\ GrantedTo(implOut[m][c], <<c, m>>)
      BY <1>0 DEF HeldInv
    <2>3. /\ inbound'[m][c] = inbound[m][c]
               \/ (<<c, m>> = p /\ inbound'[m][c] = t)
          /\ implIn'[m][c] = implIn[m][c]
               \/ (<<c, m>> = p /\ implIn'[m][c] = t)
          /\ implOut'[m][c] = implOut[m][c]
               \/ (<<c, m>> = p /\ implOut'[m][c] = t /\ protocol[m] = 7)
      BY <1>0, <2>1, Delivery
    <2> HIDE DEF t
    <2>4. inbound'[m][c] # None => GrantedTo(inbound[m][c], <<c, m>>)'
      BY <1>1, <1>2, <2>2, <2>3 DEF GrantedTo
    <2>5. implIn'[m][c] # None => GrantedTo(implIn[m][c], <<c, m>>)'
      BY <1>1, <1>2, <2>2, <2>3 DEF GrantedTo
    <2>6. implOut'[m][c] # None =>
            \/ GrantedTo(implOut[m][c], <<m, c>>)'
            \/ protocol[m] = 7 /\ GrantedTo(implOut[m][c], <<c, m>>)'
      BY <1>1, <1>2, <2>2, <2>3 DEF GrantedTo
    <2> QED
      BY <1>2, <2>4, <2>5, <2>6 DEF None
  <1>5. GrantInv'
    <2> SUFFICES ASSUME NEW q \in Pairs, grant'[q].step # "none"
                 PROVE  /\ GrantedTo(grant[q].token, q)'
                        /\ \A u \in 1..minted' : issued'[u] = q => u <= grant'[q].token
                        /\ grant'[q].step = "granted" => InBothImages(q, grant[q].token)'
      BY DEF GrantInv
    <2>1. grant[q].step # "none" /\ grant'[q].token = grant[q].token
      BY <1>0, Delivery
    <2>2. /\ GrantedTo(grant[q].token, q)'
          /\ \A u \in 1..minted' : issued'[u] = q => u <= grant'[q].token
      BY <1>0, <1>2, <2>1 DEF GrantInv, GrantedTo
    <2>3. CASE q = p
      <3>1. p[1] \in Modules /\ p[2] \in Modules
        BY PairParts
      <3> QED
        BY <1>0, <1>1, <1>2, <2>1, <2>2, <2>3, Delivery DEF InBothImages
    <2>4. CASE q # p
      <3>1. grant'[q] = grant[q] /\ grant[q].token \in Nat
        BY <1>0, <2>4, Delivery DEF TypeInv
      <3>2. grant'[q].step = "granted" => InBothImages(q, grant[q].token)
        BY <1>0, <2>1, <3>1 DEF GrantInv
      <3>3. InBothImages(q, grant[q].token)' <=>
              /\ inbound'[q[2]][q[1]] >= grant[q].token
              /\ protocol'[q[2]] = 8 => implIn'[q[2]][q[1]] >= grant[q].token
        BY <3>1 DEF InBothImages
      <3>4. InBothImages(q, grant[q].token) =>
              /\ inbound'[q[2]][q[1]] >= grant[q].token
              /\ protocol'[q[2]] = 8 => implIn'[q[2]][q[1]] >= grant[q].token
        BY <1>3, <3>1 DEF InBothImages
      <3> QED
        BY <2>2, <3>2, <3>3, <3>4
    <2> QED
      BY <2>3, <2>4
  <1>6. HandedInv'
    <2> SUFFICES ASSUME NEW q \in Pairs, GrantedTo(implOut[q[1]][q[2]], q)'
                 PROVE  InBothImages(q, implOut[q[1]][q[2]])'
      BY DEF HandedInv
    <2>1. q[1] \in Modules /\ q[2] \in Modules /\ q[1] # q[2] /\ q = <<q[1], q[2]>>
      BY PairParts
    <2> DEFINE u == implOut[q[1]][q[2]]
    <2>2. u \in Nat
      BY <1>0, <2>1 DEF TypeInv, Store
    <2>3. CASE u' = u
      <3>1. GrantedTo(u, q)
        BY <1>2, <2>3 DEF GrantedTo
      <3>2. InBothImages(q, u)
        BY <1>0, <3>1 DEF HandedInv
      <3>3. /\ inbound'[q[2]][q[1]] >= u
            /\ protocol'[q[2]] = 8 => implIn'[q[2]][q[1]] >= u
        BY <1>3, <2>2, <3>2 DEF InBothImages
      <3> QED
        BY <2>3, <3>3 DEF InBothImages
    <2>4. CASE u' = t /\ q[1] = p[2]
      BY <1>1, <1>2, <2>1, <2>4, PairParts DEF GrantedTo
    <2> QED
      BY <1>0, <2>1, <2>3, <2>4, Delivery
  <1>7. AcceptedInv'
    BY <1>0, <1>2 DEF AcceptedInv, GrantedTo
  <1>8. RejectedInv'
    <2> SUFFICES ASSUME NEW call \in rejected
                 PROVE  /\ call.pair \in Pairs
                        /\ protocol[call.pair[1]] = 8 =>
                             /\ GrantedTo(call.token, call.pair)
                             /\ call.token < inbound'[call.pair[2]][call.pair[1]]
      BY <1>2 DEF RejectedInv, GrantedTo
    <2>1. call.pair[1] \in Modules /\ call.pair[2] \in Modules /\ call.pair \in Pairs
      BY <1>0, PairParts DEF RejectedInv
    <2>2. protocol[call.pair[1]] = 8 =>
            /\ GrantedTo(call.token, call.pair)
            /\ call.token < inbound[call.pair[2]][call.pair[1]]
      BY <1>0 DEF RejectedInv
    <2>3. GrantedTo(call.token, call.pair) => call.token \in Nat
      BY DEF GrantedTo
    <2>4. /\ inbound'[call.pair[2]][call.pair[1]] >= inbound[call.pair[2]][call.pair[1]]
          /\ inbound'[call.pair[2]][call.pair[1]] \in Nat
          /\ inbound[call.pair[2]][call.pair[1]] \in Nat
      BY <2>1, DeliveryRenews
    <2> QED
      BY <2>1, <2>2, <2>3, <2>4
  <1> QED
    BY <1>4, <1>5, <1>6, <1>7, <1>8

LEMMA HandoverKeeps ==
  ASSUME IInv, NEW p \in Pairs, Answer(p) \/ CallRejected(p) \/ Forget(p)
  PROVE  HeldInv' /\ GrantInv' /\ HandedInv' /\ AcceptedInv' /\ RejectedInv'
  <1>0. TypeInv /\ HeldInv /\ GrantInv /\ HandedInv /\ AcceptedInv /\ RejectedInv
    BY DEF IInv
  <1>1. UNCHANGED <<protocol, inbound, implIn, minted, issued, accepted>>
    BY <1>0, Handover
  <1>2. p[1] \in Modules /\ p[2] \in Modules /\ p = <<p[1], p[2]>>
    BY PairParts
  <1>3. grant[p].step = "granted" =>
          GrantedTo(grant[p].token, p) /\ InBothImages(p, grant[p].token)
    BY <1>0 DEF GrantInv
  <1>4. HeldInv'
    <2> SUFFICES ASSUME NEW m \in Modules, NEW c \in Modules, implOut'[m][c] # None
                 PROVE  \/ GrantedTo(implOut[m][c], <<m, c>>)'
                        \/ protocol[m] = 7 /\ GrantedTo(implOut[m][c], <<c, m>>)'
      BY <1>0, <1>1 DEF HeldInv, GrantedTo
    <2>1. CASE implOut'[m][c] = implOut[m][c]
      BY <1>0, <1>1, <2>1 DEF HeldInv, GrantedTo
    <2>2. CASE /\ m = p[1] /\ c = p[2]
               /\ grant[p].step = "granted" /\ implOut'[m][c] = grant[p].token
      BY <1>1, <1>2, <1>3, <2>2 DEF GrantedTo
    <2> QED
      BY <1>0, <2>1, <2>2, Handover
  <1>5. GrantInv'
    <2>1. \A q \in Pairs : grant'[q] = grant[q] \/ grant'[q].step = "none"
      BY <1>0, Handover
    <2> QED
      BY <1>0, <1>1, <2>1 DEF GrantInv, GrantedTo, InBothImages
  <1>6. HandedInv'
    <2> SUFFICES ASSUME NEW q \in Pairs, GrantedTo(implOut[q[1]][q[2]], q)'
                 PROVE  InBothImages(q, implOut[q[1]][q[2]])'
      BY DEF HandedInv
    <2>1. q[1] \in Modules /\ q[2] \in Modules /\ q = <<q[1], q[2]>>
      BY PairParts
    <2>2. CASE implOut'[q[1]][q[2]] = implOut[q[1]][q[2]]
      BY <1>0, <1>1, <2>2 DEF HandedInv, GrantedTo, InBothImages
    <2>3. CASE implOut'[q[1]][q[2]] = None
      BY <1>0, <1>1, <2>3 DEF GrantedTo, None, TypeInv
    <2>4. CASE /\ q[1] = p[1] /\ q[2] = p[2]
               /\ grant[p].step = "granted" /\ implOut'[q[1]][q[2]] = grant[p].token
      BY <1>1, <1>2, <1>3, <2>1, <2>4 DEF InBothImages
    <2> QED
      BY <1>0, <2>1, <2>2, <2>3, <2>4, Handover
  <1>7. AcceptedInv'
    BY <1>0, <1>1 DEF AcceptedInv, GrantedTo
  <1>8. RejectedInv'
    <2>1. CASE UNCHANGED rejected
      BY <1>0, <1>1, <2>1 DEF RejectedInv, GrantedTo
    <2>2. CASE CallRejected(p)
      <3> DEFINE t == implOut[p[1]][p[2]]
                 call == [token |-> t, pair |-> p]
      <3>1. t # None /\ inbound[p[2]][p[1]] # t
        BY <1>2, <2>2 DEF CallRejected
      <3>2. t \in Nat /\ inbound[p[2]][p[1]] \in Nat
        BY <1>0, <1>2 DEF TypeInv, Store
      <3>3. protocol[p[1]] = 8 => GrantedTo(t, p)
        <4>1. GrantedTo(t, <<p[1], p[2]>>) \/ protocol[p[1]] = 7
          BY <1>0, <1>2, <3>1 DEF HeldInv
        <4> QED
          BY <1>2, <4>1
      <3>4. protocol[p[1]] = 8 => t < inbound[p[2]][p[1]]
        BY <1>0, <3>1, <3>2, <3>3 DEF HandedInv, InBothImages
      <3>5. rejected' = rejected \cup {call}
        BY <2>2 DEF CallRejected
      <3> SUFFICES ASSUME NEW k \in rejected'
                   PROVE  /\ k.pair \in Pairs
                          /\ protocol'[k.pair[1]] = 8 =>
                               /\ k.token \in 1..minted' /\ issued'[k.token] = k.pair
                               /\ k.token < inbound'[k.pair[2]][k.pair[1]]
        BY DEF RejectedInv, GrantedTo
      <3>6. CASE k \in rejected
        BY <1>0, <1>1, <3>6 DEF RejectedInv, GrantedTo
      <3>7. CASE k = call
        <4>1. k.token = t /\ k.pair = p
          BY <3>7
        <4> HIDE DEF t, call
        <4> QED
          BY <1>1, <3>3, <3>4, <4>1 DEF GrantedTo
      <3> QED
        BY <3>5, <3>6, <3>7
    <2> QED
      BY <2>1, <2>2 DEF Answer, Forget, calls
  <1> QED
    BY <1>4, <1>5, <1>6, <1>7, <1>8

LEMMA NextIInv == IInv /\ [Next]_vars => IInv'
  <1> SUFFICES ASSUME IInv, [Next]_vars
               PROVE  IInv'
    OBVIOUS
  <1>1. TypeInv'
    BY KeepsTypeInv DEF IInv
  <1>2. CASE \/ \E m \in Modules : ProviderInit(m) \/ SeedAnchor(m) \/ ForwardContext(m)
             \/ UNCHANGED vars
    <2>1. Same /\ UNCHANGED accepted
      BY <1>2 DEF ProviderInit, SeedAnchor, ForwardContext, vars, Same, initial, calls
    <2>2. AcceptedInv'
      BY <2>1 DEF IInv, AcceptedInv, GrantedTo, Same, grants
    <2> QED
      BY <1>1, <2>1, <2>2, KeepsSame DEF IInv
  <1>3. ASSUME NEW p \in Pairs, CallAccepted(p)
        PROVE  IInv'
    <2>1. Same
      BY <1>3 DEF CallAccepted, Same, initial, calls
    <2> PICK c \in Modules :
            /\ inbound[p[2]][c] = implOut[p[1]][p[2]]
            /\ accepted' = accepted \cup {[token |-> implOut[p[1]][p[2]],
                                           pair |-> <<c, p[2]>>]}
      BY <1>3 DEF CallAccepted
    <2>2. GrantedTo(implOut[p[1]][p[2]], <<c, p[2]>>)
      BY <1>3, PairParts DEF CallAccepted, IInv, HeldInv
    <2>3. AcceptedInv'
      BY <2>1, <2>2 DEF IInv, AcceptedInv, GrantedTo, Same, grants
    <2> QED
      BY <1>1, <2>1, <2>3, KeepsSame DEF IInv
  <1>4. ASSUME NEW p \in Pairs, RequestModule(p)
        PROVE  IInv'
    BY <1>1, <1>4, MintingKeeps DEF IInv
  <1>5. ASSUME NEW p \in Pairs, InformModuleToken(p)
        PROVE  IInv'
    BY <1>1, <1>5, DeliveryKeeps DEF IInv
  <1>6. ASSUME NEW p \in Pairs, Answer(p) \/ CallRejected(p) \/ Forget(p)
        PROVE  IInv'
    BY <1>1, <1>6, HandoverKeeps DEF IInv
  <1> QED
    BY <1>2, <1>3, <1>4, <1>5, <1>6 DEF Next

THEOREM InvariantHolds == Spec => []IInv
  BY InitIInv, NextIInv, PTL DEF Spec
-----------------------------------------------------------------------------
\* However many modules grant to and call each other, no call is accepted on
\* account of a grant to another pair or in the other direction.
THEOREM GrantsAreOneWay == Spec => []AcceptedAsGranted
  <1>1. IInv => AcceptedAsGranted
    BY DEF IInv, AcceptedInv, AcceptedAsGranted, GrantedTo
  <1> QED
    BY <1>1, InvariantHolds, PTL

\* What a module with an inbound door is rejected for was its own, and is
\* superseded in its callee's store.
THEOREM RejectedIsSuperseded == Spec => []RejectedWasSuperseded
  <1>1. IInv => RejectedWasSuperseded
    BY DEF IInv, RejectedInv, RejectedWasSuperseded, GrantedTo
  <1> QED
    BY <1>1, InvariantHolds, PTL

\* A token that its owner can present has reached both images of its callee.
THEOREM BothImagesAreServed == Spec => []HandedIsInBothImages
  <1>1. IInv => HandedIsInBothImages
    <2> SUFFICES ASSUME IInv, NEW p \in Pairs, implOut[p[1]][p[2]] # None,
                        issued[implOut[p[1]][p[2]]] = p
                 PROVE  InBothImages(p, implOut[p[1]][p[2]])
      BY DEF HandedIsInBothImages, InBothImages
    <2>1. GrantedTo(implOut[p[1]][p[2]], p)
      BY PairParts DEF IInv, HeldInv, GrantedTo
    <2> QED
      BY <2>1 DEF IInv, HandedInv
  <1> QED
    BY <1>1, InvariantHolds, PTL
=============================================================================
