---- MODULE Policies ----
(***************************************************************************)
(* Device policies (crates/eas/src/protocol/policy.rs, client.rs           *)
(* provision): which policies the client acknowledges, and the limits it   *)
(* then keeps.                                                             *)
(*                                                                         *)
(* A policy is a function from the fields it states to their values: an    *)
(* integer, Empty, or Malformed for any text that is no integer.           *)
(***************************************************************************)
EXTENDS Integers

CONSTANTS Empty, Malformed

----
(* The fields, by what they ask for *)

Strict == {
    "DevicePasswordEnabled", "RequireDeviceEncryption", "RequireStorageCardEncryption",
    "RequireSignedSMIMEMessages", "RequireEncryptedSMIMEMessages", "RequireManualSyncWhenRoaming"}

Restricted == {
    "AllowBrowser", "AllowCamera", "AllowConsumerEmail", "AllowDesktopSync", "AllowInternetSharing",
    "AllowIrDA", "AllowPOPIMAPEmail", "AllowRemoteDesktop", "AllowStorageCard", "AllowTextMessaging",
    "AllowUnsignedApplications", "AllowUnsignedInstallationPackages", "AllowWiFi"}

Booleans == Strict \union Restricted \union {
    "AllowHTMLEmail", "AllowSimpleDevicePassword", "AllowSMIMESoftCerts",
    "AlphanumericDevicePasswordRequired", "AttachmentsEnabled", "PasswordRecoveryEnabled"}

Lists == {"ApprovedApplicationList", "UnapprovedInROMApplicationList"}

\* They matter only with a device password or S/MIME, which are refused.
Numbers == {
    "DevicePasswordExpiration", "DevicePasswordHistory", "MaxDevicePasswordFailedAttempts",
    "MaxInactivityTimeDeviceLock", "MinDevicePasswordComplexCharacters", "MinDevicePasswordLength",
    "RequireEncryptionSMIMEAlgorithm", "RequireSignedSMIMEAlgorithm"}

Bodies == {"MaxEmailBodyTruncationSize", "MaxEmailHTMLBodyTruncationSize"}

Choices ==
    [AllowBluetooth |-> {0, 1, 2}, AllowSMIMEEncryptionAlgorithmNegotiation |-> {0, 1, 2},
     MaxEmailAgeFilter |-> 0 .. 5, MaxCalendarAgeFilter |-> {0, 4, 5, 6, 7}]

Known == Booleans \union Lists \union Numbers \union Bodies \union DOMAIN Choices \union {"MaxAttachmentSize"}

----
(* What a value says *)

\* integer: the values a field may have, empty ones apart.
Valid(field, value) ==
    /\ value \notin {Empty, Malformed}
    /\ CASE field \in Booleans -> value \in {0, 1}
         [] field \in DOMAIN Choices -> value \in Choices[field]
         [] field \in Bodies -> value >= -1
         [] OTHER -> value >= 0

WellFormed(policy, field) ==
    Valid(field, policy[field]) \/ (policy[field] = Empty /\ field \notin Booleans \union Bodies)

\* Mutant: a size that is not stated is taken for zero.
ZeroUnlessStated(policy, field, default) ==
    IF field \in DOMAIN policy /\ Valid(field, policy[field]) THEN policy[field] ELSE 0

\* A value that is missing or makes no sense stands for the default.
Value(policy, field, default) ==
    IF field \in DOMAIN policy /\ Valid(field, policy[field]) THEN policy[field] ELSE default

----
(* evaluate_policy *)

Demands(policy, field) ==
    \/ field \in Strict /\ Value(policy, field, 0) # 0
    \/ field \in Restricted /\ Value(policy, field, 1) = 0
    \/ field = "AllowBluetooth" /\ Value(policy, field, 2) < 2
    \/ field \in Lists /\ Value(policy, field, 0) > 0

Supported(policy) ==
    \A field \in DOMAIN policy : field \in Known /\ WellFormed(policy, field) /\ ~Demands(policy, field)

MaxAttachment == 25 * 1024 * 1024
MaxBody == 50000

Smallest(a, b) == IF a < b THEN a ELSE b

Evaluate(policy) ==
    LET html == Value(policy, "AllowHTMLEmail", 1) = 1
        body == Value(policy, IF html THEN "MaxEmailHTMLBodyTruncationSize" ELSE "MaxEmailBodyTruncationSize", -1)
        mail == Value(policy, "MaxEmailAgeFilter", 0)
        calendar == Value(policy, "MaxCalendarAgeFilter", 0)
    IN  [supported |-> Supported(policy),
         attachmentsEnabled |-> Value(policy, "AttachmentsEnabled", 1) = 1,
         maxAttachment |-> Smallest(Value(policy, "MaxAttachmentSize", MaxAttachment), MaxAttachment),
         bodyLimit |-> IF body = -1 THEN MaxBody ELSE Smallest(body, MaxBody),
         mailFilter |-> IF mail = 0 THEN 5 ELSE mail,
         calendarFilter |-> IF calendar = 0 THEN 6 ELSE Smallest(calendar, 6)]

----
(* provision: two phases, the first of which may order a wipe *)

Failed == [is |-> "failed"]

\* What Exchange answers first, and to the acknowledgement.
Provision(first, policy, second) ==
    LET decision == Evaluate(policy)
    IN  IF first = "wipe" THEN [is |-> "wiped"]
        ELSE IF first = "error" \/ second = "lost" THEN Failed
        ELSE IF ~decision.supported THEN [is |-> "unsupported"]
        ELSE IF second = "refused" THEN Failed
        ELSE [is |-> "negotiated", decision |-> decision]

\* What the client tells Exchange of the policy before that answer.
Acknowledged(first, policy) ==
    IF first # "policy" THEN {} ELSE {IF Supported(policy) THEN "accepted" ELSE "rejected"}
====
