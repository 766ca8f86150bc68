------------------------------- MODULE Bech32 -------------------------------
(***************************************************************************)
(* The address of a key (beezee_signer.py): the bytes of its hash in       *)
(* groups of five bits, with a checksum of six groups.  Numbers stand for  *)
(* the characters of the data part.  The hashes of the public key are not  *)
(* modelled; the payload is given.                                         *)
(*                                                                         *)
(* External: the node's reading of an address.                             *)
(***************************************************************************)
EXTENDS Integers, Sequences

Separator == 49

TwoTo[n \in Nat] == IF n = 0 THEN 1 ELSE 2 * TwoTo[n - 1]

(* A checksum is the set of those of its thirty bits that are one.         *)
Bits(v) == {i \in 0..29 : (v \div TwoTo[i]) % 2 = 1}
Xor(a, b) == (a \ b) \cup (b \ a)

Generator == <<Bits(996825010), Bits(642813549), Bits(513874426), Bits(1027748829), Bits(705979059)>>

(* One value: the checksum moves on by a group, and what falls out of its  *)
(* thirty bits selects the generators to add.                              *)
PolymodStep(checksum, value) ==
  LET selected(i) == IF 24 + i \in checksum THEN Generator[i] ELSE {}
      moved == {i + 5 : i \in checksum \cap 0..24}
  IN Xor(selected(1), Xor(selected(2), Xor(selected(3), Xor(selected(4),
       Xor(selected(5), Xor(moved, Bits(value)))))))

Polymod(values) ==
  LET after[i \in 0..Len(values)] == IF i = 0 THEN Bits(1) ELSE PolymodStep(after[i - 1], values[i])
  IN after[Len(values)]

HrpExpand(hrp) == [i \in 1..Len(hrp) |-> hrp[i] \div 32] \o <<0>>
                    \o [i \in 1..Len(hrp) |-> hrp[i] % 32]

Bit(checksum, i) == IF i \in checksum THEN 1 ELSE 0
Group(checksum, low) ==
  16 * Bit(checksum, low + 4) + 8 * Bit(checksum, low + 3) + 4 * Bit(checksum, low + 2)
    + 2 * Bit(checksum, low + 1) + Bit(checksum, low)

CreateChecksum(hrp, data) ==
  LET polymod == Xor(Polymod(HrpExpand(hrp) \o data \o [i \in 1..6 |-> 0]), Bits(1))
  IN [i \in 1..6 |-> Group(polymod, 5 * (6 - i))]

(* _convertbits from 8 to 5 bits: the accumulator keeps the bits that no   *)
(* group has taken yet, and the last ones are padded.                      *)
TakenGroups(acc, bits) == [k \in 1..(bits \div 5) |-> (acc \div TwoTo[bits - 5 * k]) % 32]
ConvertStep(before, byte) ==
  LET bits == before.bits + 8
      acc == (before.acc * 256 + byte) % 4096
  IN [acc |-> acc, bits |-> bits % 5, out |-> before.out \o TakenGroups(acc, bits)]

ConvertBits(payload) ==
  LET after[i \in 0..Len(payload)] ==
        IF i = 0 THEN [acc |-> 0, bits |-> 0, out |-> <<>>]
        ELSE ConvertStep(after[i - 1], payload[i])
      last == after[Len(payload)]
  IN IF last.bits = 0 THEN last.out
     ELSE Append(last.out, (last.acc * TwoTo[5 - last.bits]) % 32)

Bech32Encode(hrp, payload) ==
  LET data == ConvertBits(payload)
  IN hrp \o <<Separator>> \o data \o CreateChecksum(hrp, data)

(* The bit n of the groups, the highest of the first group at 1, and the   *)
(* byte k of them.                                                         *)
BitAt(groups, n) == (groups[(n - 1) \div 5 + 1] \div TwoTo[4 - ((n - 1) % 5)]) % 2
ByteAt(groups, k) ==
  LET bit(n) == BitAt(groups, 8 * k - 8 + n)
  IN 128 * bit(1) + 64 * bit(2) + 32 * bit(3) + 16 * bit(4) + 8 * bit(5) + 4 * bit(6)
       + 2 * bit(7) + bit(8)

(* The payload in an address that the checksum lets pass.                  *)
Decoded(hrp, address) ==
  LET data == SubSeq(address, Len(hrp) + 2, Len(address))
  IN IF Polymod(HrpExpand(hrp) \o data) # Bits(1) THEN <<>>
     ELSE [k \in 1..((5 * (Len(data) - 6)) \div 8) |-> ByteAt(data, k)]
=============================================================================
