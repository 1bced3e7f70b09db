----------------------------- MODULE RaspikeCrc -----------------------------
(***************************************************************************)
(* The checksum of a v2 frame, CRC-16/CCITT-FALSE, bit by bit as           *)
(* raspike_protocol_com.h computes it: the parameter rp_v2_crc16 of        *)
(* RaspikeLink.                                                            *)
(***************************************************************************)
LOCAL INSTANCE Integers
LOCAL INSTANCE SequencesExt
LOCAL INSTANCE Bitwise

\* One bit of the register: the polynomial is 0x1021.
CrcShift(crc) == IF crc >= 32768 THEN ((crc * 2) % 65536) ^^ 4129 ELSE crc * 2

Crc16(data) ==
  FoldLeft(LAMBDA crc, byte : FoldLeft(LAMBDA c, bit : CrcShift(c),
                                       crc ^^ (byte * 256), <<1, 2, 3, 4, 5, 6, 7, 8>>),
           65535, data)

\* The check value of CRC-16/CCITT-FALSE, of the digits "123456789", is 0x29B1.
ASSUME CrcAssumption == Crc16(<<49, 50, 51, 52, 53, 54, 55, 56, 57>>) = 10673
=============================================================================
