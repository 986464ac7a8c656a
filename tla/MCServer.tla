------------------------------ MODULE MCServer ------------------------------
(***************************************************************************)
(* The bookkeeping of a server, for TLC: its audit log (AuditLog), the     *)
(* registry of nodes (NodeRegistry), changes of files that await           *)
(* confirmation (PendingConfig), the exits it dials (ExitDials) and its    *)
(* masks (MaskTransition, MaskCatalog, CatalogPush). The parts share no    *)
(* variable, so a behaviour of the whole is one behaviour of each; TLC     *)
(* explores those in which one part, chosen at the start, moves.           *)
(***************************************************************************)
EXTENDS AuditLog, NodeRegistry, PendingConfig, ExitDials

VARIABLES part, mask, maskPending, waited, slot, maskTask, policyDue, cmask,
          confirmed, sent, sleep, up, down, lost, repushed, masks,
          compromised, expired, known, mark, rotationSweep, reg, marks, adds,
          store, adding, version, versionSent, pushTask, wire, last, list,
          pushLost

maskVars == <<mask, maskPending, waited, slot, maskTask, policyDue, cmask,
              confirmed, sent, sleep, up, down, lost, repushed>>
catalogVars == <<masks, compromised, expired, known, mark, rotationSweep, reg,
                 marks, adds>>
pushVars == <<store, adding, version, versionSent, pushTask, wire, last, list,
              pushLost>>
whole == <<part, vars, registryVars, configVars, dialsVars, maskVars,
           catalogVars, pushVars>>

(* Two requests at once change exits twice while the loops run; one        *)
(* request at a time changes them often enough to drop an exit and dial it *)
(* again; and one at a time with the packets of a client.                  *)
TwoRequests == Control /\ changes' <= 2
OneRequest == Control /\ task'["w2"] = AtRest
OneWithPackets == DialsNext /\ task'["w2"] = AtRest /\ changes' <= 2

(* Two nodes, a file nobody interferes with                                *)
Nodes == INSTANCE NodeRegistry WITH
  AutoAdd <- {"daemon"}, NodeIds <- {"a", "b"}, Keys <- {"k1"}, MaxDamage <- 0

(* Preference and policy compete; any one packet may be lost               *)
Mask == INSTANCE MaskTransition WITH
  pending <- maskPending, task <- maskTask, Boot <- "boot", Own <- "own",
  Policy <- "policy", Stateful <- {"own"}, CatalogLayout <- {},
  Tasks <- {"t1", "t2"}, PolicyOn <- TRUE,
  Losable <- {"preference", "keepalive", "update"}, MaxLosses <- 1,
  MaxDelay <- 2, MaxFlight <- 3

(* A mask the server did not have arrives while detectors and sweep run    *)
Rotation == INSTANCE MaskCatalog WITH
  sweep <- rotationSweep, Loaded <- {"m1", "m2"}, Added <- {"m3"},
  Sweeping <- TRUE, MaxMarks <- 6, MaxAdds <- 1

(* Masks that are in rotation arrive again, within an hour                 *)
Again == INSTANCE MaskCatalog WITH
  sweep <- rotationSweep, Loaded <- {"m1", "m2"}, Added <- {"m1", "m3"},
  Sweeping <- FALSE, MaxMarks <- 4, MaxAdds <- 2

(* Two keepalives at once, two masks added, one list may be lost           *)
Push == INSTANCE CatalogPush WITH
  task <- pushTask, lost <- pushLost, Masks <- {"m1", "m2"},
  Tasks <- {"t1", "t2"}, MaxLosses <- 1, MaxFlight <- 3

WholeInit ==
  /\ part \in {"audit", "trust", "nodes", "config", "exits", "redial",
                  "forward", "mask", "rotation", "again", "push"}
  /\ Init
  /\ part # "audit" => files[1].lines = <<>>
  /\ IF part = "nodes" THEN Nodes!RegistryInit ELSE RegistryInit
  /\ ConfigInit
  /\ DialsInit
  /\ Mask!Init
  /\ IF part = "again" THEN Again!Init ELSE Rotation!Init
  /\ Push!Init

WholeNext ==
  /\ UNCHANGED part
  /\ \/ part = "audit" /\ Next
        /\ UNCHANGED <<registryVars, configVars, dialsVars, maskVars,
                       catalogVars, pushVars>>
     \/ part = "trust" /\ RegistryNext
        /\ UNCHANGED <<vars, configVars, dialsVars, maskVars, catalogVars,
                       pushVars>>
     \/ part = "nodes" /\ Nodes!RegistryNext
        /\ UNCHANGED <<vars, configVars, dialsVars, maskVars, catalogVars,
                       pushVars>>
     \/ part = "config" /\ ConfigNext
        /\ UNCHANGED <<vars, registryVars, dialsVars, maskVars, catalogVars,
                       pushVars>>
     \/ part = "exits" /\ TwoRequests
        /\ UNCHANGED <<vars, registryVars, configVars, maskVars, catalogVars,
                       pushVars>>
     \/ part = "redial" /\ OneRequest
        /\ UNCHANGED <<vars, registryVars, configVars, maskVars, catalogVars,
                       pushVars>>
     \/ part = "forward" /\ OneWithPackets
        /\ UNCHANGED <<vars, registryVars, configVars, maskVars, catalogVars,
                       pushVars>>
     \/ part = "mask" /\ Mask!Next
        /\ UNCHANGED <<vars, registryVars, configVars, dialsVars, catalogVars,
                       pushVars>>
     \/ part = "rotation" /\ Rotation!Next
        /\ UNCHANGED <<vars, registryVars, configVars, dialsVars, maskVars,
                       pushVars>>
     \/ part = "again" /\ Again!Next
        /\ UNCHANGED <<vars, registryVars, configVars, dialsVars, maskVars,
                       pushVars>>
     \/ part = "push" /\ Push!Next
        /\ UNCHANGED <<vars, registryVars, configVars, dialsVars, maskVars,
                       catalogVars>>

WholeSpec == WholeInit /\ [][WholeNext]_whole

-----------------------------------------------------------------------------
(* A client is not sent again the variant it was already moved to; there   *)
(* is always a mask in rotation; a mask is in one of the two maps of the   *)
(* catalog and not in both; and once the version recorded for a client is  *)
(* that of the store, the last list it was sent is the whole store         *)
(* (try_claim_mask_preference_slot, mark_compromised_with_fallback,        *)
(* register_mask, the keepalive handler).                                  *)
MasksSound ==
  /\ part = "mask" => Mask!TypeOK /\ Mask!NeverRepushes
  /\ part = "rotation" => Rotation!NeverDeaf
  /\ part = "again" => Again!NeverBoth /\ Again!NeverForgotten
  /\ part = "push" => Push!UpToDate
=============================================================================
