------------------------------ MODULE MCOutbox ------------------------------
(***************************************************************************)
(* Two alerts for a chat room, which is paced; or the first for a mailbox   *)
(* and the second for the chat room.                                        *)
(***************************************************************************)
EXTENDS Outbox

CONSTANTS Chat, Mail, t1, t2

MCTwo == {<<Chat, 1>>, <<Chat, 2>>}
MCEach == {<<Mail, 1>>, <<Chat, 2>>}
=============================================================================
