----------------------------- MODULE MCChatSync -----------------------------
(* A room of five events of which the server keeps two, the member's joining *)
(* the second of them, and a page whose handler can be waiting for two       *)
(* frames at a time.                                                         *)
EXTENDS ChatSync, TLC

Waiting == Permutations(Tasks)
=============================================================================
