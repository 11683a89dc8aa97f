---------------------------- MODULE MCImapPoller ----------------------------
(* Instances of ImapPoller for TLC.                                         *)
EXTENDS ImapPoller
=============================================================================
