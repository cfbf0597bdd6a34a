----------------------------- MODULE ServerFrame ----------------------------
(***************************************************************************)
(* The frames exchanged with the data server, byte by byte:                *)
(*     68 identity(4) count(2) 68 control length(2) data checksum 16       *)
(* check_data_rx_server() of gprs_com.c judges a frame that was fetched;   *)
(* the handlers of read_para.c build their answers in the same form, with  *)
(* caculate_checksum().  Each byte is two hexadecimal characters there.    *)
(***************************************************************************)
EXTENDS Integers, Sequences, SequencesExt

CONSTANTS
    ByteValues,         \* values of a byte (256)
    StartByte, EndByte, \* 0x68 and 0x16
    Identity,           \* the four bytes derived from the meter's serial number
    MaxLength           \* NUMBER_COMMAND_MAX * 2 + 33

Bytes == 0..(ByteValues - 1)

ASSUME BytesAssumption ==
    /\ ByteValues \in Nat \ {0}
    /\ StartByte \in Bytes /\ EndByte \in Bytes
    /\ Identity \in [1..4 -> Bytes]
    /\ MaxLength \in 0..(ByteValues * ByteValues - 1)

\* caculate_checksum() of hexadecimal characters of even number.
Checksum(bytes) == FoldLeft(LAMBDA sum, b : (sum + b) % ByteValues, 0, bytes)

HeaderLength  == 11
ControlAt     == 9      \* CONTROL_CODE_POS, counted in bytes from 1
LengthAt      == 10     \* LENG_POS, the low byte; the high byte follows

\* What a sender builds.  The bytes of the count are echoed and stand for any.
Frame(control, data) ==
    LET body == <<StartByte>> \o Identity \o <<0, 0, StartByte, control>>
                \o <<Len(data) % ByteValues, Len(data) \div ByteValues>> \o data
    IN  body \o <<Checksum(body), EndByte>>

\* Nothing behind the frame reads as an end byte.
At(bytes, i) == IF i \in DOMAIN bytes THEN bytes[i] ELSE 0

Announced(bytes) == At(bytes, LengthAt) + ByteValues * At(bytes, LengthAt + 1)

\* Mutant: the checksum is not compared.
Accepted_NoSum(bytes) ==
    /\ At(bytes, 1) = StartByte /\ At(bytes, 8) = StartByte
    /\ \A i \in 1..4 : At(bytes, 1 + i) = Identity[i]
    /\ Announced(bytes) <= MaxLength
    /\ At(bytes, HeaderLength + Announced(bytes) + 2) = EndByte

\* check_data_rx_server() returns ok_frame; its caller does not tell the errors
\* apart.
Accepted(bytes) ==
    LET sumAt == HeaderLength + Announced(bytes) + 1 IN
    /\ At(bytes, 1) = StartByte /\ At(bytes, 8) = StartByte
    /\ \A i \in 1..4 : At(bytes, 1 + i) = Identity[i]
    /\ Announced(bytes) <= MaxLength
    /\ At(bytes, sumAt + 1) = EndByte
    /\ Checksum([i \in 1..(sumAt - 1) |-> At(bytes, i)]) = At(bytes, sumAt)

=============================================================================
