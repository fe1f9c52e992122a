------------------------------ MODULE UdpPayload ------------------------------
(***************************************************************************)
(* How a packet is read: DpdkPacketHandler::extract_udp_payload and the    *)
(* pipeline's udp_dst_port both walk from the Ethernet header, over an     *)
(* optional VLAN tag and an IP header of variable length, to UDP.          *)
(*                                                                         *)
(* A packet is its length and the header fields found at the offsets that  *)
(* walk reaches; what a field past the end holds is arbitrary.  Lengths    *)
(* are 16 bits wide in the packet and wider in the sums, as in the code.   *)
(***************************************************************************)
EXTENDS Integers

Modulus16 == 65536

Word16 == 0 .. Modulus16 - 1

EtherTypes == {"IPv4", "VLAN", "other"}

Packet == [len      : Word16,
           type     : EtherTypes,      \* bytes 12..13
           inner    : EtherTypes,      \* bytes 16..17, behind a VLAN tag
           version  : 0 .. 15,         \* of the IP header
           ihl      : 0 .. 15,         \* IP header length in words
           protocol : {"UDP", "other"},
           udpLen   : Word16,
           dstPort  : Word16]

\* All that the lengths of a packet have to be: what else it holds, and
\* whether they are true, is left open.
HasLengths(p) == p.len \in Word16 /\ p.udpLen \in Word16 /\ p.ihl \in 0 .. 15

-----------------------------------------------------------------------------
Tagged(p) == p.type = "VLAN"

Offset(p) == IF Tagged(p) THEN 18 ELSE 14

EtherType(p) == IF Tagged(p) THEN p.inner ELSE p.type

UdpOffset(p) == Offset(p) + 4 * p.ihl

\* The early returns of extract_udp_payload, in their order.
HasEthernet(p) == p.len >= 14

HasEtherType(p) == HasEthernet(p) /\ (Tagged(p) => p.len >= 18)

HasIp(p) == HasEtherType(p) /\ EtherType(p) = "IPv4" /\ p.len >= Offset(p) + 20

HasUdp(p) == HasIp(p) /\ p.version = 4 /\ p.ihl >= 5 /\ p.len >= UdpOffset(p) + 8

ExtractsUnchecked(p) == HasUdp(p) /\ p.protocol = "UDP" /\ p.udpLen >= 8

Extracts(p) ==
  /\ HasUdp(p)
  /\ p.protocol = "UDP"
  /\ p.udpLen >= 8
  /\ p.len >= (UdpOffset(p) + 8) + (p.udpLen - 8)

PayloadOffset(p) == UdpOffset(p) + 8

\* The length returned is cast to 16 bits.
PayloadLen(p) == (p.udpLen - 8) % Modulus16

\* The bytes extract_udp_payload reads on its way, each after the checks
\* that precede it.
ExtractReads(p) ==
  {i \in {12, 13} : HasEthernet(p)}
    \cup {i \in {16, 17} : HasEtherType(p) /\ Tagged(p)}
    \cup {i \in {Offset(p)} : HasIp(p)}
    \cup {i \in {Offset(p) + 9, UdpOffset(p) + 4, UdpOffset(p) + 5} : HasUdp(p)}

-----------------------------------------------------------------------------
\* udp_dst_port walks by itself.  It looks neither at the inner type nor at
\* version or protocol, and takes an IP header of any length.
PortOffset(p) == IF p.len >= 18 /\ Tagged(p) THEN 18 ELSE 14

PortUdpOffset(p) == PortOffset(p) + 4 * p.ihl

PortReadable(p) == p.len >= 14 + 20 + 4 /\ p.len >= PortUdpOffset(p) + 4

UdpDstPort(p) == IF PortReadable(p) THEN p.dstPort ELSE 0

PortReads(p) ==
  {i \in {12, 13, PortOffset(p)} : p.len >= 14 + 20 + 4}
    \cup {i \in {PortUdpOffset(p) + 2, PortUdpOffset(p) + 3} : PortReadable(p)}

-----------------------------------------------------------------------------
(***************************************************************************)
(* Properties of one packet.                                               *)
(***************************************************************************)

(* No byte beyond the packet is read, by the filter or by the extraction,  *)
(* and the payload handed on lies inside the packet, whatever lengths the  *)
(* headers claim.                                                          *)
StaysInside(p) ==
  /\ \A i \in ExtractReads(p) \cup PortReads(p) : i < p.len
  /\ Extracts(p) => PayloadOffset(p) + PayloadLen(p) <= p.len

(* The filter looks at the port of every packet the extraction accepts:    *)
(* none is lost, or let through, because the two walks part.               *)
FilterSeesPort(p) ==
  Extracts(p) => PortReadable(p) /\ PortUdpOffset(p) + 2 = PayloadOffset(p) - 6

(* extract_udp_payload refuses no IPv4 datagram that fits into its packet: *)
(* the partial length checks add nothing to the last one.                  *)
FitsItsPacket(p) ==
  /\ EtherType(p) = "IPv4" /\ p.version = 4 /\ p.ihl >= 5
  /\ p.protocol = "UDP" /\ p.udpLen >= 8
  /\ UdpOffset(p) + p.udpLen <= p.len

RefusesNoValidPacket(p) == FitsItsPacket(p) => Extracts(p)

=============================================================================
