--------------------------- MODULE MCEvidenceStore ---------------------------
(* A command request and its failed result, as the provider writes them. *)
EXTENDS EvidenceStore

MCKinds == <<"exec", "result">>
=============================================================================
