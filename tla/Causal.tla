------------------------------- MODULE Causal -------------------------------
(***************************************************************************)
(* core/causal.rs: the authorisation of a delta, decided against its own   *)
(* causal past.  The content L[h] of a delta has the fields `op` and       *)
(* `parents`; an operation has a `type`, and an `id` where it names a      *)
(* verification method or a service endpoint.                              *)
(***************************************************************************)
EXTENDS DeltaDag, AdmissionResult

Adds(op, id)    == op.type = "AddVM" /\ op.id = id
Revokes(op, id) == op.type = "RevokeVM" /\ op.id = id
Deactivates(op) == op.type = "Deactivate"

\* DeltaDag::has_authorising_delta, has_revoking_delta, has_deactivate_delta
HasAuthorisingDelta(L, held, id) == \E h \in held : Adds(L[h].op, id)
HasRevokingDelta(L, held, id)    == \E h \in held : Revokes(L[h].op, id)
HasDeactivateDelta(L, held)      == \E h \in held : Deactivates(L[h].op)

\* The verdict on a delta with no parents: only the first delta of a DAG.
VerifyRoot(held, op, signer) ==
  IF held # {} THEN Invalid(SignerNotAuthorised)
  ELSE IF op.type # "AddVM" THEN Invalid(GenesisOpNotAllowed)
  ELSE IF op.id # signer THEN Invalid(SignerNotAuthorised)
  ELSE Valid

\* The decision with the search for a revocation left out.
DecideWithoutRevocation(L, past, missing, signer) ==
  IF HasDeactivateDelta(L, past) THEN Invalid(Deactivated)
  ELSE IF missing # {} THEN Unknown(missing)
  ELSE IF ~ HasAuthorisingDelta(L, past, signer) THEN Invalid(SignerNotAuthorised)
  ELSE Valid

\* The decision that does not wait for the rest of the past.
DecideWithoutWaiting(L, past, missing, signer) ==
  IF HasRevokingDelta(L, past, signer) THEN Invalid(Revoked)
  ELSE IF HasDeactivateDelta(L, past) THEN Invalid(Deactivated)
  ELSE IF ~ HasAuthorisingDelta(L, past, signer) THEN Invalid(SignerNotAuthorised)
  ELSE Valid

\* The facts scan_closure collects, in the order verify_causal consults them:
\* a revocation or a deactivation in the present part of the past decides at
\* once, otherwise an incomplete past decides nothing.
Decide(L, past, missing, signer) ==
  IF HasRevokingDelta(L, past, signer) THEN Invalid(Revoked)
  ELSE IF HasDeactivateDelta(L, past) THEN Invalid(Deactivated)
  ELSE IF missing # {} THEN Unknown(missing)
  ELSE IF ~ HasAuthorisingDelta(L, past, signer) THEN Invalid(SignerNotAuthorised)
  ELSE Valid

\* verify_causal against everything held instead of the causal past.
VerifyAgainstHeld(L, held, op, parents, signer) ==
  IF parents = {} THEN VerifyRoot(held, op, signer)
  ELSE Decide(L, held, Missing(L, held, parents), signer)

\* verify_causal of a delta with this operation, parents and signing key id.
VerifyCausal(L, held, op, parents, signer) ==
  IF parents = {} THEN VerifyRoot(held, op, signer)
  ELSE LET visited == Visited(L, held, parents, {})
       IN  Decide(L, visited \cap held, visited \ held, signer)
=============================================================================
