---------------------------- MODULE MCHostTrust ----------------------------
(* Small instances of HostTrust for TLC. All the attempts connect to one   *)
(* endpoint, where they share prompts or conflict; the proofs cover any    *)
(* number of endpoints.                                                    *)
EXTENDS HostTrust

OneEndpoint == [s \in Sessions |-> CHOOSE e \in Endpoints : TRUE]
=============================================================================
