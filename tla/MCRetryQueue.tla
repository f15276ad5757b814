---------------------------- MODULE MCRetryQueue ----------------------------
(* Instances of RetryQueue for TLC. *)
EXTENDS RetryQueue

CONSTANTS Instants, SignalSet, LinkSet, AdmissionSet

MCBatches ==
  [now: Instants, link: LinkSet, signal: SignalSet, admission: AdmissionSet]
=============================================================================
