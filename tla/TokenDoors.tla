----------------------------- MODULE TokenDoors -----------------------------
(***************************************************************************)
(* The two directions and the two images of a module's tokens: init and    *)
(* informModuleToken of cpp/logos_provider_object.cpp, and onInit and      *)
(* informModuleToken of qt-host-generator/lidl_gen_cdylib_glue.cpp.        *)
(*                                                                         *)
(* A generated plugin links its own copy of logos-protocol: the host's     *)
(* TokenManager, against which calls to the module are authorized, and the *)
(* module image's own, from which its calls are made, are different        *)
(* objects.  capability_module grants from -> to by minting a token,       *)
(* pushing it to `to` and handing it to `from`.  Modules grant and call in *)
(* both directions, at once.                                               *)
(*                                                                         *)
(* Tokens are minted UUIDs, numbered in the order in which they are        *)
(* minted.  capability_module, ModuleProxy's authorization and the         *)
(* clients' retry are external.                                            *)
(***************************************************************************)
EXTENDS Naturals

CONSTANTS
  Modules,   \* modules generated from LIDL
  MaxTokens  \* bound on the tokens minted

ASSUME MaxTokensAssumption == MaxTokens \in Nat

None == 0

Tokens == 1..MaxTokens
Pairs  == {p \in Modules \X Modules : p[1] # p[2]}

VARIABLES
  protocol,  \* protocol[m]: the minor version m was generated against
  pc,        \* how far m's init has come
  anchor,    \* the module image holds m's own host-issued token
  stamped,   \* the host stamped an auth token on m's LogosAPI
  inbound,   \* host's store in m's process: inbound[m][c], c's token
  implIn,    \* the module image's inbound store
  implOut,   \* the module image's outbound store, by target
  minted,    \* tokens minted so far
  issued,    \* issued[t]: the pair <<from, to>> that t was granted to
  grant,     \* grant[p]: the token being granted to the pair, and how far
  accepted,  \* calls accepted: the token, and the pair ModuleProxy saw
  rejected   \* calls rejected: the token, and the pair

stores  == <<inbound, implIn, implOut>>
initial == <<protocol, stamped>>
grants  == <<minted, issued, grant>>
calls   == <<accepted, rejected>>
vars == <<initial, pc, anchor, stores, grants, calls>>

Idle == [token |-> None, step |-> "none"]

Init ==
  /\ protocol \in [Modules -> {7, 8}]
  /\ stamped \in [Modules -> BOOLEAN]
  /\ pc = [m \in Modules |-> "new"]
  /\ anchor = [m \in Modules |-> FALSE]
  /\ inbound = [m \in Modules |-> [c \in Modules |-> None]]
  /\ implIn = [m \in Modules |-> [c \in Modules |-> None]]
  /\ implOut = [m \in Modules |-> [c \in Modules |-> None]]
  /\ minted = 0
  /\ issued = [t \in Tokens |-> <<>>]
  /\ grant = [p \in Pairs |-> Idle]
  /\ accepted = {}
  /\ rejected = {}
-----------------------------------------------------------------------------
\* LogosProviderBase::init keeps the LogosAPI and enters onInit.
ProviderInit(m) ==
  /\ pc[m] = "new"
  /\ pc' = [pc EXCEPT ![m] = "token"]
  /\ UNCHANGED <<initial, anchor, stores, grants, calls>>

\* Token first: under the bootstrap keys, through the outbound door.  (The host
\* services, between this and the context, are ModuleLoad's.)
SeedAnchor(m) ==
  /\ pc[m] = "token"
  /\ anchor' = [anchor EXCEPT ![m] = stamped[m]]
  /\ pc' = [pc EXCEPT ![m] = "context"]
  /\ UNCHANGED <<initial, stores, grants, calls>>

\* Context last: from here on the module's own code runs and calls out.
ForwardContext(m) ==
  /\ pc[m] = "context"
  /\ pc' = [pc EXCEPT ![m] = "ready"]
  /\ UNCHANGED <<initial, anchor, stores, grants, calls>>
-----------------------------------------------------------------------------
\* The host's store, which ModuleProxy scans; there is none to reach before
\* init.
HostDoorOpen(m) == pc[m] # "new"

\* Slip: the token is saved under the module's own name.
SaveUnderOwnName(m, c, t) ==
  inbound' = IF HostDoorOpen(m) THEN [inbound EXCEPT ![m][m] = t] ELSE inbound

SaveInboundToken(m, c, t) ==
  inbound' = IF HostDoorOpen(m) THEN [inbound EXCEPT ![m][c] = t] ELSE inbound

\* Slip: what a caller will present goes through the door of what the module
\* presents itself.
AcceptOutbound(m, c, t, ok) ==
  /\ implOut' = IF ok THEN [implOut EXCEPT ![m][c] = t] ELSE implOut
  /\ UNCHANGED implIn

\* The module's image, which has an inbound door since protocol 0.8.
AcceptInImage(m, c, t, ok) ==
  IF protocol[m] = 8
  THEN /\ implIn' = IF ok THEN [implIn EXCEPT ![m][c] = t] ELSE implIn
       /\ UNCHANGED implOut
  ELSE /\ implOut' = IF ok THEN [implOut EXCEPT ![m][c] = t] ELSE implOut
       /\ UNCHANGED implIn

\* Slip: one of the two images is enough.
EitherAnswer(m, implOk) == HostDoorOpen(m) \/ implOk

\* What informModuleToken answers.
InformAnswer(m, implOk) == HostDoorOpen(m) /\ implOk

\* capability_module pushes the token it grants to its callee.
InformModuleToken(p) ==
  /\ grant[p].step = "push"
  /\ \E implOk \in BOOLEAN :
       /\ SaveInboundToken(p[2], p[1], grant[p].token)
       /\ AcceptInImage(p[2], p[1], grant[p].token, implOk)
       /\ grant' = [grant EXCEPT ![p].step =
                      IF InformAnswer(p[2], implOk) THEN "granted" ELSE "failed"]
  /\ UNCHANGED <<initial, pc, anchor, minted, issued, calls>>
-----------------------------------------------------------------------------
\* A module that has no token for a target asks capability_module for one.
RequestModule(p) ==
  /\ pc[p[1]] = "ready"
  /\ anchor[p[1]]
  /\ implOut[p[1]][p[2]] = None
  /\ grant[p] = Idle
  /\ minted < MaxTokens
  /\ minted' = minted + 1
  /\ issued' = [issued EXCEPT ![minted + 1] = p]
  /\ grant' = [grant EXCEPT ![p] = [token |-> minted + 1, step |-> "push"]]
  /\ UNCHANGED <<initial, pc, anchor, stores, calls>>

\* It is answered with the token, or with a failure.
Answer(p) ==
  /\ grant[p].step \in {"granted", "failed"}
  /\ implOut' = IF grant[p].step = "granted"
                THEN [implOut EXCEPT ![p[1]][p[2]] = grant[p].token]
                ELSE implOut
  /\ grant' = [grant EXCEPT ![p] = Idle]
  /\ UNCHANGED <<initial, pc, anchor, inbound, implIn, minted, issued,
                 calls>>

\* A call presents the token held for its target; ModuleProxy accepts it as the
\* caller under whose name its store has it.
CallAccepted(p) ==
  LET t == implOut[p[1]][p[2]] IN
  /\ pc[p[1]] = "ready"
  /\ t # None
  /\ \E c \in Modules :
       /\ inbound[p[2]][c] = t
       /\ accepted' = accepted \cup {[token |-> t, pair |-> <<c, p[2]>>]}
  /\ UNCHANGED <<initial, pc, anchor, stores, grants, rejected>>

\* Rejected: the client drops the token and asks for another.
CallRejected(p) ==
  LET t == implOut[p[1]][p[2]] IN
  /\ pc[p[1]] = "ready"
  /\ t # None
  /\ \A c \in Modules : inbound[p[2]][c] # t
  /\ rejected' = rejected \cup {[token |-> t, pair |-> p]}
  /\ implOut' = [implOut EXCEPT ![p[1]][p[2]] = None]
  /\ UNCHANGED <<initial, pc, anchor, inbound, implIn, grants, accepted>>

\* The module's store forgets a token (its owner resets or removes it).
Forget(p) ==
  /\ implOut[p[1]][p[2]] # None
  /\ implOut' = [implOut EXCEPT ![p[1]][p[2]] = None]
  /\ UNCHANGED <<initial, pc, anchor, inbound, implIn, grants, calls>>
-----------------------------------------------------------------------------
Next ==
  \/ \E m \in Modules : \/ ProviderInit(m)
                        \/ SeedAnchor(m)
                        \/ ForwardContext(m)
  \/ \E p \in Pairs : \/ RequestModule(p)
                      \/ InformModuleToken(p)
                      \/ Answer(p)
                      \/ CallAccepted(p)
                      \/ CallRejected(p)
                      \/ Forget(p)

Spec == Init /\ [][Next]_vars
-----------------------------------------------------------------------------
\* A grant is one-way: a call is accepted only with a token that was granted to
\* the very pair ModuleProxy takes it for, and never on account of a grant in
\* the opposite direction.
AcceptedAsGranted == \A call \in accepted : issued[call.token] = call.pair

\* A module never presents a peer the token that the peer presents to it, and
\* is not rejected for it: what is rejected was granted to it and superseded.
RejectedWasSuperseded ==
  \A call \in rejected :
    protocol[call.pair[1]] = 8
      => /\ issued[call.token] = call.pair
         /\ call.token < inbound[call.pair[2]][call.pair[1]]

\* A caller is handed a token only if both of its callee's images have it, or
\* have a newer one, also when the push failed in one of them.
HandedIsInBothImages ==
  \A p \in Pairs :
    LET t == implOut[p[1]][p[2]] IN
    t # None /\ issued[t] = p
      => /\ inbound[p[2]][p[1]] >= t
         /\ protocol[p[2]] = 8 => implIn[p[2]][p[1]] >= t
=============================================================================
