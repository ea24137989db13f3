------------------------------ MODULE MCRelay -------------------------------
(***************************************************************************)
(* An instance of Relay and Envelope for TLC: both backends, three         *)
(* recipients with two mailboxes between them, up to three attachments,    *)
(* and lines of three characters.                                          *)
(***************************************************************************)
EXTENDS Envelope, TLC

CONSTANTS m1, m2

AllMailboxes == {m1, m2}

AnyMailbox == Permutations(AllMailboxes)
=============================================================================
