----------------------------- MODULE TunAddress -----------------------------
(***************************************************************************)
(* The addresses of a TUN device set up by -w auto and -w auto:<id>.       *)
(* An address is the last two octets of 169.254.x.y, an IPv6 address the   *)
(* 119 bits taken from the digest and the last bit.                        *)
(***************************************************************************)
EXTENDS Naturals

CONSTANT Digest(_)   \* SHA-256 of an id, the bits that are used

MaxU16 == 65535
U16 == 0 .. MaxU16

\* generate_auto_tun_id: the first two bytes of the digest of host, port,
\* device and network choose one of 254 * 127 pairs.
AutoId(raw) ==
    LET pair == raw % (254 * 127)
        x == (pair \div 127) + 1
        y == (pair % 127) * 2 + 1
    IN  x * 256 + y

Octets(id) == <<id \div 256, id % 256>>

\* The remote address is the next one, in 16 bits.  For id 65535 the sum does
\* not fit: it wraps around, or a build that checks for overflow panics.
LocalAddr(id) == Octets(id)
RemoteAddr(id) == Octets((id + 1) % 65536)
Overflows(id) == id = MaxU16

\* derive_auto_tun_ipv6
LocalAddr6(id) == <<Digest(id), 0>>
RemoteAddr6(id) == <<Digest(id), 1>>

-----------------------------------------------------------------------------
\* Two addresses lie side by side in one of the blocks 169.254.1.x to
\* 169.254.254.x, and neither is the first or the last of it.
Usable(l, r) ==
    /\ l[1] = r[1] /\ l[1] \in 1 .. 254
    /\ l[2] \in 1 .. 253 /\ r[2] = l[2] + 1

\* The second address follows the first, if need be in the next block.
Follows(l, r) ==
    \/ r = <<l[1], l[2] + 1>>
    \/ l[2] = 255 /\ r = <<l[1] + 1, 0>>

\* The two addresses of a generated id can be used.
PairUsable(raw) == Usable(LocalAddr(AutoId(raw)), RemoteAddr(AutoId(raw)))

\* Two generated ids are equal or have no address in common.
PairsDisjoint(raw, other) ==
    LET i == AutoId(raw)
        j == AutoId(other)
    IN  i = j \/ {LocalAddr(i), RemoteAddr(i)} \cap {LocalAddr(j), RemoteAddr(j)} = {}
=============================================================================
