--------------------------- MODULE UdpRecordsProps ---------------------------
(* What a UDP device and the records on its blocks promise *)
EXTENDS UdpRecords

\* What recvdata() may do with a datagram d that is whole: store it, make room, or,
\* without memory, keep what it has; a length that wraps is left out
GrowsOrStores(d) ==
  RecvData(d) /\ d.src = "ep" /\ d.magic /\ d.known
  /\ d.body[1] = d.body[2] /\ buflen >= HeaderSize /\ d.body[1] + HeaderSize < LenMod =>
    \/ last' = [v |-> d.v, len |-> d.body[1], n |-> d.body[1]] /\ Len(data') = d.body[1]
    \/ TooLong(d) /\ ~(d.body[1] > buflen' - HeaderSize)
    \/ MemoryMayFail /\ UNCHANGED <<buflen, data, last, scan>>

GrowOrStore == \A d \in Datagrams : GrowsOrStores(d)

\* A datagram that the device sends is stored, or is too long, and then the next
\* of its length is not; where memory runs out the block and the buffer keep what they
\* have.  Nothing is said of a length that makes the size of the buffer wrap, nor of a
\* buffer that has wrapped to less than a header: nothing is heard any more then.
LongOnesFitNextTime == [][GrowOrStore]_vars

\* Byte i of a record's value is byte p of the last datagram, if that has carried one
Carries(val, i, p) == p <= last.n => val[i] = <<last.v, p>>

StampMatches(t) ==
  IF last.len > TsOffset + StampSize
    THEN \A i \in 1 .. StampSize : Carries(t, i, TsOffset + i)
    ELSE \E v \in stamps : t = <<<<v, 0>>>>

RegisterMatches(s) ==
  LET off == Offset["register"]
  IN IF off + WordSize <= last.len
       THEN s.alarm = "no" /\ (\A i \in 1 .. WordSize : Carries(s.val, i, off + i))
                           /\ StampMatches(s.time)
       ELSE s.alarm = "soft"

\* as many elements as begin before the end of the datagram, each from its place
WaveformMatches(s) ==
  LET off == Offset["waveform"]
  IN /\ s.nord <= Nelm
     /\ \A k \in 0 .. Nelm - 1 : k < s.nord <=> off + k * Step < last.len
     /\ \A k \in 0 .. s.nord - 1, i \in 1 .. WordSize :
          Carries(s.val[k + 1], i, off + k * Step + i)
     /\ StampMatches(s.time)

StringMatches(s) ==
  LET off == Offset["string"]
      n == Lesser(last.len, StrSize - 1) - off
  IN /\ s.nord = IF n > 0 THEN n ELSE 0
     /\ \A i \in 1 .. s.nord : Carries(s.val, i, off + i)
     /\ StampMatches(s.time)

\* Once the records that recvdata() has requested are processed, the bytes that the
\* last datagram has carried are shown, each in its place, by as many elements as
\* its length gives, although a string is read without the lock. Not said are the
\* bytes that it did not carry, because it was cut short or because an element
\* reaches behind its end, and a time is that of a later datagram if memory was
\* short in between: there the block is not what processing.rst:46 says it is.
RecordsShowLast ==
  last # None =>
    /\ "register" \in loaded \ scan => RegisterMatches(shown["register"])
    /\ "waveform" \in loaded \ scan => WaveformMatches(shown["waveform"])
    /\ "string" \in loaded \ scan /\ copying = -1 => StringMatches(shown["string"])

\* Each register of a send block keeps what its record has set, although all of
\* them rewrite the same word, until one with an overlapping mask or a string
\* record overwrites it.
SettingsHold ==
  \A o \in Outs : lastSet[o] # 0 => Fits(0, WordSize, sdata) /\ ReadBack(o) = {lastSet[o]}
=============================================================================
