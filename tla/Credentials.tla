---------------------------- MODULE Credentials ----------------------------
(***************************************************************************)
(* What the admission of a consumer promises, without the calls that bring *)
(* it about (cpp/logos_consumer.h): a credential goes on record at         *)
(* capability_module for one consumer; only the one on record is handed to *)
(* the caller, which is when the consumer starts to present it; a rotation *)
(* takes the old one away first; and a co-process carries what its parent  *)
(* was handed.                                                             *)
(***************************************************************************)
CONSTANTS
  Consumers,
  Credential,
  Nothing      \* no credential

VARIABLES
  accepted,  \* accepted[c]: every credential ever on record for c
  onRecord,  \* onRecord[c]: the one that is
  handed,    \* handed[c]: credentials the host's caller was given
  held,      \* held[c]: what the consumer presents
  carried    \* carried[c]: what its co-process presents

vars == <<accepted, onRecord, handed, held, carried>>

Init ==
  /\ accepted = [c \in Consumers |-> {}]
  /\ onRecord = [c \in Consumers |-> Nothing]
  /\ handed = [c \in Consumers |-> {}]
  /\ held = [c \in Consumers |-> Nothing]
  /\ carried = [c \in Consumers |-> Nothing]

Record(c) ==
  /\ \E k \in Credential :
       /\ \A d \in Consumers \ {c} : k \notin accepted[d]
       /\ accepted' = [accepted EXCEPT ![c] = @ \cup {k}]
       /\ onRecord' = [onRecord EXCEPT ![c] = k]
  /\ UNCHANGED <<handed, held, carried>>

HandOut(c) ==
  /\ onRecord[c] # Nothing
  /\ handed' = [handed EXCEPT ![c] = @ \cup {onRecord[c]}]
  /\ held' = [held EXCEPT ![c] = onRecord[c]]
  /\ UNCHANGED <<accepted, onRecord, carried>>

\* A rotation has a successor on record before it takes the credential away.
TakeAway(c) ==
  /\ onRecord[c] # held[c]
  /\ held' = [held EXCEPT ![c] = Nothing]
  /\ UNCHANGED <<accepted, onRecord, handed, carried>>

Carry(c) ==
  /\ \E k \in handed[c] \cup {Nothing} : carried' = [carried EXCEPT ![c] = k]
  /\ UNCHANGED <<accepted, onRecord, handed, held>>

Next == \E c \in Consumers : Record(c) \/ HandOut(c) \/ TakeAway(c) \/ Carry(c)

Spec == Init /\ [][Next]_vars
=============================================================================
