\* Bytes of four values, and every prefix of every message. A run ends when
\* the message has been delivered or refused.
SPECIFICATION Spec
CONSTANTS
  ByteValues = 4
  WaveLength = 2
  Contents <- MCContents
  Value <- MCValue
INVARIANTS
  TypeOK
  RoundTrip
  ShortIsRefused
  HeadIsWhole
  OldSenderUnderstood
CHECK_DEADLOCK FALSE
