---------------------------- MODULE MCPhiBuilder ----------------------------
(***************************************************************************)
(* The two algorithms inside the generation of the phi constraints, each   *)
(* on all of its inputs while the other one has nothing to do: every       *)
(* vector of good writes, and every pattern of calls among three reads.    *)
(***************************************************************************)
EXTENDS PhiBuilder, GoodWritesFilter

CONSTANTS r1, r2, r3

NoCalls == roots = <<>> /\ \A r \in Reads : calls[r] = <<>>
NoGoodWrites == good = <<>> /\ mhb = {} /\ \A e \in Events : read <= e

PartsInit ==
    \/ PhiInit /\ NoCalls /\ FilterInit
    \/ FilterInit /\ NoGoodWrites /\ PhiInit

PartsNext ==
    \/ FilterNext /\ UNCHANGED phiVars
    \/ loop = "done" /\ PhiNext /\ UNCHANGED filterVars

PartsVars == <<phiVars, filterVars>>
PartsSpec == PartsInit /\ [][PartsNext]_PartsVars /\ WF_PartsVars(PartsNext)
=============================================================================
