---------------------------- MODULE MCJavaReader ----------------------------
(* Three packets with bodies of no, one and two bytes behind headers of two: *)
(* a read may come up short anywhere, and the reader then takes any two      *)
(* bytes of a packet for a header.                                           *)
EXTENDS JavaReader, JavaPackets

\* The codecs keep no state; they are checked once, where the reader starts.

(* What the Java library's packets are written and read as (see JavaPackets). *)
SpeaksTheProtocol ==
  JavaInit /\ need = (CHOOSE n \in BodySizes : TRUE) => JavaSpeaksTheProtocol
=============================================================================
