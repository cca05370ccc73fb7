--------------------------- MODULE MCGfireReader ---------------------------
(* Two logins, three packets in all, with no body or one of three bytes      *)
(* behind headers of two, and one packet of another account in pieces.       *)
EXTENDS GfireReader, GfirePackets

\* The codecs keep no state; they are checked once, where the reader starts.

(* What gfire writes is what protocol.md describes (see GfirePackets).       *)
WritesTheProtocol == GfireInit => GfireWritesTheProtocol

(* What gfire reads is what the server sent (see GfirePackets).              *)
ReadsTheServer == GfireInit => GfireReadsTheServer
=============================================================================
