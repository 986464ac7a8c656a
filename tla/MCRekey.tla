------------------------------ MODULE MCRekey -------------------------------
(***************************************************************************)
(* The rekey for TLC. Constants are the code's times in ticks of the two-  *)
(* second sweep, rounded up. Two instances over the same variables: rekeys *)
(* by time with faults enough to make the gateway give up, and rekeys by   *)
(* traffic, which may follow each other at once, with fewer faults than a  *)
(* KeyRotate has transmissions.                                            *)
(***************************************************************************)
EXTENDS Rekey

VARIABLES part

whole == <<part, vars>>

(* Rekeys by traffic                                                       *)
Busy == INSTANCE Rekey WITH
  HeavyTraffic <- TRUE, MaxFaults <- 2

WholeInit ==
  /\ part \in {"by time", "by traffic"}
  /\ Init

WholeNext ==
  /\ UNCHANGED part
  /\ \/ part = "by time" /\ Next
     \/ part = "by traffic" /\ Busy!Next

(* Fairness: as in the components, for the part that moves.                *)
WholeFairness ==
  /\ WF_vars(part = "by traffic" /\ Busy!Tick)
  /\ WF_vars(part = "by traffic" /\ Busy!SendKeyRotate)
  /\ WF_vars(part = "by traffic" /\ Busy!EncryptControl)
  /\ WF_vars(part = "by traffic"
       /\ (Busy!CompleteSwitch \/ Busy!CompleteResend))
  /\ WF_vars(part = "by traffic" /\ Busy!Arrival)

WholeSpec == WholeInit /\ [][WholeNext]_whole /\ WholeFairness

-----------------------------------------------------------------------------
(* Rekeys by time: the gateway only ever commits session keys that the     *)
(* client derived too, whichever copy of the client's answer               *)
(* commit_session_rekey consumes and whatever is lost (control_handler.rs, *)
(* KeyRotate).                                                             *)
Agree == part = "by time" => KeysConverge

(* Rekeys by traffic: each side can always read what the other sends. The  *)
(* upload keys change only after the commit and within the grace for the   *)
(* old keys, the new keys are in place when the commit is, and the old     *)
(* ones are kept until then (promote_pending_upload_keys,                  *)
(* receive_and_write_packet).                                              *)
Readable ==
  part = "by traffic" => TypeOK /\ UplinkReadable /\ DownlinkReadable

(* A rekey that the gateway starts by traffic is committed, and the        *)
(* client's upload path reaches the committed keys, whatever is lost       *)
(* within the bound (rekey_retransmits_due, the client's resends).         *)
Completes == part = "by traffic" => RekeyCompletes
=============================================================================
