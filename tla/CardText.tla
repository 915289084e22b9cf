------------------------------- MODULE CardText -------------------------------
(***************************************************************************)
(* The text of a card: structured requests to the AI provider with their   *)
(* bounded retries (ai/openai_compatible.py), the fail-closed validation   *)
(* (ai/validator.py) and the deterministic draft that replaces a rejected  *)
(* answer (insights/generator.py).                                         *)
(*                                                                         *)
(* A provider's replies are a sequence, one for each post: the name of a   *)
(* failure or an object.  A draft is [numbers, causal, words, owner,       *)
(* actions, evidence]; a packet is [numbers, driver, evidence], its driver *)
(* the wording of the likeliest driver: [numbers, causal, words], with the *)
(* number of words it makes the copy have.                                 *)
(***************************************************************************)
EXTENDS Naturals, FiniteSets, Sequences, SequencesExt, FiniteSetsExt

CONSTANTS
    TransportRetries, ValidationRetries,
    NoReply,        \* a timeout, no connection, 408, 429 or 5xx
    Refused,        \* another status that is no success
    Malformed,      \* no JSON, no object, or outside the schema
    Playbook,       \* [owner, actions]: what a card of the topic may recommend
    MaximumWords

\* _post_with_retry from the k-th reply on: the reply it ends with.
Post(replies, k) ==
    LET tried == {i \in k .. k + TransportRetries :
                    \A j \in k .. i - 1 : replies[j] = NoReply}
    IN  [reply |-> replies[Max(tried)], next |-> Max(tried) + 1]

\* Only invalid objects are asked for again; an ungrounded one only if the
\* request says so.
Repairable(reply, valid, retrySemantic) ==
    /\ reply \notin {NoReply, Refused}
    /\ reply = Malformed \/ (reply \notin valid /\ retrySemantic)

\* The replies that the requests end with, if each has to be repaired.
Posts(replies) ==
    LET post[v \in 0 .. ValidationRetries] ==
            IF v = 0 THEN Post(replies, 1) ELSE Post(replies, post[v - 1].next)
    IN  post

\* _request_structured: "valid" are the objects that pass the semantic check.
Request(replies, valid, retrySemantic) ==
    LET post == Posts(replies)
        last == Max({v \in 0 .. ValidationRetries :
                        \A w \in 0 .. v - 1 : Repairable(post[w].reply, valid, retrySemantic)})
    IN  [reply |-> post[last].reply, accepted |-> post[last].reply \in valid,
         posts |-> post[last].next - 1]

-----------------------------------------------------------------------------
(* validate_classification: an object is [span, primary, brandSpan,          *)
(* sentiment, score, relevant, other], the spans whether they are in the     *)
(* text or None; a request is [fixed, social, candidates].                   *)

ValidClassification(object, request) ==
    /\ object.span
    /\ request.fixed # "none" => object.primary = request.fixed
    /\ IF object.primary = "none" THEN object.brandSpan = "none"
       ELSE /\ object.brandSpan = "text" \/ (request.fixed # "none" /\ object.brandSpan = "none")
            /\ request.social /\ request.fixed = "none"
                => object.primary \in request.candidates
    /\ ~(object.sentiment = "negative" /\ object.score = "positive")
    /\ ~(object.sentiment = "positive" /\ object.score = "negative")
    /\ object.relevant \/ object.other

-----------------------------------------------------------------------------
(* Cards. *)

\* Broken variant: evidence is not compared with the packet.
AnyEvidence(draft, packet) ==
    /\ draft.owner = Playbook.owner /\ draft.actions \subseteq Playbook.actions
    /\ ~draft.causal /\ draft.words <= MaximumWords
    /\ draft.numbers \subseteq packet.numbers
ValidDraft(draft, packet) ==
    /\ draft.owner = Playbook.owner
    /\ draft.actions \subseteq Playbook.actions /\ Cardinality(draft.actions) <= 2
    /\ IsInjective(draft.evidence) /\ ToSet(draft.evidence) \subseteq ToSet(packet.evidence)
    /\ ~draft.causal /\ draft.words <= MaximumWords
    /\ draft.numbers \subseteq packet.numbers

\* The wording of the driver is a customer's reason, a store or a region: its
\* numbers are no facts of the packet.
DeterministicDraft(packet) ==
    [numbers |-> packet.numbers \cup packet.driver.numbers, causal |-> packet.driver.causal,
     words |-> packet.driver.words, owner |-> Playbook.owner, actions |-> Playbook.actions,
     evidence |-> SubSeq(packet.evidence, 1, IF Len(packet.evidence) < 3
                                             THEN Len(packet.evidence) ELSE 3)]

\* generate_insight_card: the draft is checked again whoever wrote it.
WriteCard(packet, replies, drafts) ==
    LET request == Request(replies, {d \in drafts : ValidDraft(d, packet)}, TRUE)
        draft == IF request.accepted THEN request.reply ELSE DeterministicDraft(packet)
    IN  [written |-> ValidDraft(draft, packet), draft |-> draft,
         mode |-> IF request.accepted THEN "ai_validated" ELSE "deterministic",
         posts |-> request.posts]
=============================================================================
