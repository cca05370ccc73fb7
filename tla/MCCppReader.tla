---------------------------- MODULE MCCppReader ----------------------------
(* Three packets with bodies of no, one and three bytes behind headers of    *)
(* two, so that every cut falls inside a header, between the two or inside a *)
(* body of some packet.                                                      *)
EXTENDS CppReader, CppPackets

\* The codecs keep no state; they are checked once, where the reader starts.

(* What xfirelib's packets are written and read as, and how much fits into   *)
(* them (see CppPackets).                                                    *)
SpeaksTheProtocol == CppInit => CppWritesTheProtocol /\ CppPacketsFit /\ CppReadsTheServer
=============================================================================
