------------------------------- MODULE Fabric -------------------------------
(***************************************************************************)
(* The in-process message fabric (fabric/src/lib.rs): one inbox for each   *)
(* agent, sends gated by a capability, and the check that a message may be *)
(* given to a model at all.  A message keeps what that check reads: the    *)
(* vector space it is in, whether it is marked as a translation, and its   *)
(* payload, which says whether it is the raw escape hatch.                 *)
(***************************************************************************)
EXTENDS Sequences

Message(space, translate, payload) ==
    [space |-> space, translate |-> translate, payload |-> payload]

\* deliver: the queue of the recipient grows at its end.
Deliver(inboxes, to, m) == [inboxes EXCEPT ![to] = Append(@, m)]

\* recv: a queue is emptied from its front, and an empty one is an error.
HasMail(inboxes, id) == inboxes[id] # <<>>
NextMail(inboxes, id) == Head(inboxes[id])
Received(inboxes, id) == [inboxes EXCEPT ![id] = Tail(@)]

\* fidelity: raw payloads are unaligned, equal spaces lose nothing, and any
\* other payload has to be translated first.
Fidelity(m, space) ==
    CASE m.payload.raw -> "Unaligned"
      [] ~m.payload.raw /\ m.space = space -> "Lossless"
      [] OTHER -> "NeedsTranslation"

\* inv3_guard: no implicit injection across vector spaces.
Injectable(m, space) == Fidelity(m, space) # "NeedsTranslation" \/ m.translate

=============================================================================
