----------------------------- MODULE MC_Client ------------------------------
(* Packets for Client; a part of one reads as a size that wraps.           *)
EXTENDS Client

MCErrorPacket == <<3, 3, 3, 3>>
MCChatEvents == {<<1>>, <<2>>}
=============================================================================
