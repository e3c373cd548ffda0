-------------------------- MODULE AdmissionResult --------------------------
(***************************************************************************)
(* The three-valued verdict of core/admission.rs and its conjunction.  The *)
(* missing-parent list is a set (the code keeps it sorted and free of      *)
(* duplicates).                                                            *)
(***************************************************************************)
EXTENDS Naturals

\* RejectReason, in the order its derived Ord compares by.
DidMismatch         == 1
Deactivated         == 2
GenesisOpNotAllowed == 3
SignerNotAuthorised == 4
StaleRotation       == 5
Revoked             == 6
BadSignature        == 7
TooLarge            == 8
RejectReasons       == DidMismatch .. TooLarge

NoReason == 0

Valid           == [kind |-> "Valid",   reason |-> NoReason, missing |-> {}]
Invalid(reason) == [kind |-> "Invalid", reason |-> reason,   missing |-> {}]
Unknown(hashes) == [kind |-> "Unknown", reason |-> NoReason, missing |-> hashes]

\* AdmissionResult::is_resolved, is_stable
IsResolved(v) == v.kind # "Unknown"

\* The verdicts over a set of delta hashes.
Results(hashes) ==
  {Valid} \cup {Invalid(r) : r \in RejectReasons}
          \cup {Unknown(m) : m \in SUBSET hashes}

\* AdmissionResult::meet: of two refusals the least reason, of two undecided
\* verdicts all that is missing.
Meet(a, b) ==
  IF a.kind = "Invalid" /\ b.kind = "Invalid"
    THEN Invalid(IF b.reason < a.reason THEN b.reason ELSE a.reason)
  ELSE IF a.kind = "Invalid" THEN a
  ELSE IF b.kind = "Invalid" THEN b
  ELSE IF a.kind = "Unknown" \/ b.kind = "Unknown"
    THEN Unknown(a.missing \cup b.missing)
  ELSE Valid
=============================================================================
