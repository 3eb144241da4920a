--------------------------- MODULE MCChatClient -----------------------------
(* One client, two names, at most two accounts, and one group.              *)
EXTENDS ChatClient, TLC

CONSTANTS n1, n2, g1
=============================================================================
