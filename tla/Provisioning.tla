---- MODULE Provisioning ----
(***************************************************************************)
(* The negotiation of a device policy as a question with its answer: what  *)
(* Exchange offers is a question, what the client makes of it (Policies)   *)
(* the answer.                                                             *)
(***************************************************************************)
EXTENDS Questions, Policies

CONSTANT
    OfferedPolicies     \* the policies that Exchange may offer

Texts == Int \union {Empty, Malformed}

ASSUME PoliciesAreFields ==
    /\ Empty \notin Int /\ Malformed \notin Int /\ Empty # Malformed
    /\ \A policy \in OfferedPolicies : policy \in [DOMAIN policy -> Texts]

PolicyQuestions == {[is |-> "policy", policy |-> policy] : policy \in OfferedPolicies}

AskPolicy ==
    /\ question.is = "policy"
    /\ \E first \in {"policy", "error", "wipe"}, second \in {"confirmed", "refused", "lost"} :
        /\ question' = [is |-> "provision", policy |-> question.policy,
                        told |-> Acknowledged(first, question.policy)]
        /\ answer' = Provision(first, question.policy, second)

PolicyInit == question \in PolicyQuestions /\ answer = Nothing
PolicySpec == PolicyInit /\ [][AskPolicy]_<<question, answer>>

----
\* A policy that comes into force has been accepted, asks nothing of the device
\* that the client cannot do or does not understand, and limits what is fetched
\* to what it allows.  There is one exception: bodies are always fetched as plain
\* text, but the limit of plain text is kept only where HTML is not allowed.
PoliciesAreHonoured ==
    question.is = "provision" =>
        LET policy == question.policy
            states(field, values) == field \in DOMAIN policy /\ policy[field] \in values
            permits(field, values) == field \in DOMAIN policy => policy[field] \in values
            limit(field) ==
                IF field \in DOMAIN policy /\ policy[field] \notin {Empty, -1} THEN {policy[field]} ELSE {}
            decision == answer.decision
        IN  /\ answer.is = "negotiated" =>
                /\ question.told = {"accepted"}
                /\ DOMAIN policy \subseteq Known /\ \A field \in DOMAIN policy : policy[field] # Malformed
                /\ \A field \in Booleans \union Bodies : permits(field, Int)
                /\ \A field \in Strict : permits(field, {0})
                /\ \A field \in Restricted : permits(field, {1})
                /\ \A field \in Lists : permits(field, {0, Empty})
                /\ permits("AllowBluetooth", {2, Empty})
                /\ states("AttachmentsEnabled", {0}) => ~decision.attachmentsEnabled
                /\ \A size \in limit("MaxAttachmentSize") : decision.maxAttachment <= size
                /\ \A size \in limit("MaxEmailHTMLBodyTruncationSize") :
                       ~states("AllowHTMLEmail", {0}) => decision.bodyLimit <= size
                /\ \A size \in limit("MaxEmailBodyTruncationSize") :
                       states("AllowHTMLEmail", {0}) => decision.bodyLimit <= size
                /\ \A age \in limit("MaxEmailAgeFilter") \ {0} : decision.mailFilter <= age
                /\ \A age \in limit("MaxCalendarAgeFilter") \ {0} : decision.calendarFilter <= age
                /\ decision.maxAttachment \in 0 .. MaxAttachment /\ decision.bodyLimit \in 0 .. MaxBody
                /\ decision.mailFilter \in 1 .. 5 /\ decision.calendarFilter \in 4 .. 6
                /\ policy = <<>> => decision.bodyLimit = MaxBody /\ decision.maxAttachment = MaxAttachment
            /\ answer.is = "unsupported" => question.told = {"rejected"}
            /\ answer.is = "wiped" => question.told = {}
====
