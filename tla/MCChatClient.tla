---------------------------- MODULE MCChatClient ----------------------------
(* Instances of ChatClient for TLC.                                        *)
EXTENDS ChatClient, TLC
CONSTANTS s1, s2, s3

SockSymmetry == Permutations(Socks)
=============================================================================
