----------------------------- MODULE Serializer -----------------------------
(***************************************************************************)
(* The binary format of the MQTT messages:                                 *)
(* src/bionic_cat_mqtt_msgs/include/serializer.hpp. A node writes a        *)
(* message field by field into a buffer, the broker carries the payload,   *)
(* and another node, perhaps built from an older or a newer version of the *)
(* header, reads it field by field.                                        *)
(*                                                                         *)
(* A message is the sequence of the values of its fields; the count of a   *)
(* vector is a field, and says which fields follow it. A byte is a number  *)
(* below ByteValues (256 in the code): the widths of the integers, their   *)
(* signs and the marker -1 are the code's, only the range of a byte may be *)
(* smaller. A float is its bits. A count fits its 32 bits, the memory      *)
(* suffices, and no addition of offsets overflows.                         *)
(***************************************************************************)
EXTENDS Integers, Sequences

CONSTANTS
  ByteValues,       (* Values of a byte.                                   *)
  WaveLength,       (* Samples of a waveform of VitalVisData: 256 in the   *)
                    (* code.                                               *)
  Contents,         (* What messages may say.                              *)
  Value(_, _, _)    (* Value(c, f, i): what a message with contents c says *)
                    (* in its i-th field, f.                               *)

ASSUME SerializerAssumption ==
  /\ ByteValues \in Nat \ {0} /\ ByteValues % 2 = 0
  /\ WaveLength \in Nat

VARIABLES
  kind,      (* The type of the message.                                   *)
  content,   (* What it says.                                              *)
  phase,     (* "writing", "reading", "delivered" or "refused"             *)
  sent,      (* The values written.                                        *)
  payload,   (* Their bytes.                                               *)
  trail,     (* What was still to be written and how long the payload was  *)
             (* before each value, and now: [fields, off].                 *)
  data,      (* The bytes that arrived.                                    *)
  due,       (* The fields still to be read.                               *)
  off,       (* The bytes that have been read.                             *)
  received   (* The values they held.                                      *)

writer == << sent, payload, trail >>
reader == << due, off, received >>
vars   == << kind, content, phase, writer, data, reader >>

Byte == 0 .. ByteValues - 1

-----------------------------------------------------------------------------
(* Fields: scalars, named for their types, and fields with a part in what  *)
(* follows. Those in AddedFields came with a later version of the format.  *)

Width == [u8 |-> 1, bool |-> 1, i16 |-> 2, u16 |-> 2, i32 |-> 4, u32 |-> 4,
          f32 |-> 4, i64 |-> 8, u64 |-> 8, string |-> 4]

Types       == DOMAIN Width
SignedTypes == {"i16", "i32", "i64"}
Vectors     == {"parameters", "faces", "paths", "motors", "steps", "step_motors"}

(* A mutant: a number that is missing keeps its default, too. *)
AddedNumbers == {"duration_ms", "idle_time_ms", "loop", "steps", "step_motors", "u8", "f32"}

(* A mutant: the parameters of the old format may be missing, too. *)
AddedParameters == {"duration_ms", "idle_time_ms", "loop", "steps", "step_motors", "parameters"}

AddedFields == {"duration_ms", "idle_time_ms", "loop", "steps", "step_motors"}
Fields      == Types \cup Vectors \cup AddedFields

Type(f) ==
  CASE f \in Types -> f
    [] f = "loop"  -> "bool"
    [] OTHER       -> "i32"

Times(n, type) == [i \in 1 .. n |-> type]

Motor     == << "i32", "u8", "parameters" >>
Step      == << "string", "duration_ms", "idle_time_ms", "loop", "step_motors" >>
Extension == << "duration_ms", "idle_time_ms", "loop", "steps" >>

Group(vector) ==
  CASE vector = "parameters"               -> << "f32" >>
    [] vector = "faces"                    -> Times(5, "f32")
    [] vector = "paths"                    -> << "string" >>
    [] vector \in {"motors", "step_motors"} -> Motor
    [] vector = "steps"                    -> Step

Copies(n, group) == [i \in 1 .. n * Len(group) |-> group[((i - 1) % Len(group)) + 1]]

(* The fields that come because field f holds v: a count brings so many    *)
(* groups, and -1 in the place of the motors the parameters of the old     *)
(* format.                                                                 *)
Follow(f, v) ==
  CASE f = "motors" /\ v = -1     -> << "parameters" >>
    [] f \in Vectors /\ v > 0     -> Copies(v, Group(f))
    [] OTHER                      -> << >>

Header              == << "string", "string", "i64" >>
VitalData           == Header \o Times(3, "i32") \o Times(4, "f32")
EmotionDetResult    == Header \o << "string", "string", "f32" >>
                              \o Times(7, "string") \o Times(7, "f32")
EmotionIntention    == Header \o << "string", "f32", "string" >>
ButtonStatusEvent   == Header \o << "i32", "i32" >>
VitalVisData        == Header \o Times(WaveLength, "f32") \o Times(WaveLength, "f32")
Heartbeat           == Header \o << "u8", "u8", "u32" >>
MotorControl        == Header \o Times(8, "i16") \o << "u8" >>
TempControl         == Header \o << "u8" >>
PowerControl        == Header \o << "u8", "u32" >>
RawTouchStatus      == Header \o << "u8", "u8", "u32" >>
RawTouchEvent       == Header \o << "u8", "u8", "u32", "u32", "u32" >>
TouchStatus         == Header \o << "u8" >> \o Times(4, "u8") \o Times(4, "u64")
                              \o Times(4, "u64") \o Times(4, "i32")
MotorStatus         == Header \o Times(8, "i16") \o Times(3, "u8")
TempStatus          == Header \o << "u8", "u8" >>
ImuStatus           == Header \o << "u8" >> \o Times(4, "f32") \o Times(3, "f32")
                              \o Times(3, "f32")
SysStatus           == Header \o Times(3, "u8")
VisualFeature       == Header \o << "i32", "faces" >> \o Times(7, "f32") \o << "f32", "f32" >>
EyeballDisplay      == Header \o << "i32", "f32", "paths", "bool" >>
AudioPlay           == Header \o << "string", "f32", "f32", "bool" >>
LedControl          == Header \o << "u8", "u8", "u8", "f32" >>
AdtsStreamControl   == Header \o << "bool", "u32", "u8", "u32", "u8" >>
AdtsStreamData      == Header \o << "u32", "u64", "u16", "string" >>
SystemStatInfo      == Header \o Times(3, "f32") \o << "f32" >>
SoundLocalization   == Header \o Times(3, "f32") \o Times(4, "f32")
ActionGroup         == Header \o << "string", "f32", "bool", "motors" >> \o Extension

Layouts ==
  [VitalData |-> VitalData, EmotionDetResult |-> EmotionDetResult,
   EmotionIntention |-> EmotionIntention, ButtonStatusEvent |-> ButtonStatusEvent,
   VitalVisData |-> VitalVisData, Heartbeat |-> Heartbeat, MotorControl |-> MotorControl,
   TempControl |-> TempControl, PowerControl |-> PowerControl,
   RawTouchStatus |-> RawTouchStatus, RawTouchEvent |-> RawTouchEvent,
   TouchStatus |-> TouchStatus, MotorStatus |-> MotorStatus, TempStatus |-> TempStatus,
   ImuStatus |-> ImuStatus, SysStatus |-> SysStatus, VisualFeature |-> VisualFeature,
   EyeballDisplay |-> EyeballDisplay, AudioPlay |-> AudioPlay, LedControl |-> LedControl,
   AdtsStreamControl |-> AdtsStreamControl, AdtsStreamData |-> AdtsStreamData,
   SystemStatInfo |-> SystemStatInfo, SoundLocalization |-> SoundLocalization,
   ActionGroup |-> ActionGroup]


Kinds == DOMAIN Layouts

-----------------------------------------------------------------------------
(* Writing. *)

Span2 == ByteValues * ByteValues
Span4 == Span2 * Span2
Span8 == Span4 * Span4

(* How many values fit a width. *)
Span(width) ==
  CASE width = 1 -> ByteValues [] width = 2 -> Span2 [] width = 4 -> Span4 [] width = 8 -> Span8

Lowest(type) == IF type \in SignedTypes THEN -(Span(Width[type]) \div 2) ELSE 0

Highest(type) ==
  CASE type = "bool"         -> 1
    [] type \in SignedTypes -> (Span(Width[type]) \div 2) - 1
    [] OTHER                -> Span(Width[type]) - 1

Numbers(type) == Lowest(type) .. Highest(type)

(* What field f of a message may hold. A command without motors has the    *)
(* marker -1 in the place of their count.                                  *)
Holds(f, v) ==
  CASE f = "string"                 -> v \in Seq(Byte) /\ Len(v) < Span4
    [] f = "motors"                 -> v \in Numbers("i32") /\ (v = -1 \/ v > 0)
    [] f \in Vectors \ {"motors"}   -> v \in Numbers("i32") /\ v >= 0
    [] OTHER                        -> v \in Numbers(Type(f))

(* The low bytes of v, highest first, as shifts and masks leave them. *)
Bytes1(v) == << v % ByteValues >>
Bytes2(v) == Bytes1(v \div ByteValues) \o Bytes1(v)
Bytes4(v) == Bytes2(v \div Span2) \o Bytes2(v)
Bytes8(v) == Bytes4(v \div Span4) \o Bytes4(v)

BigEndian(width, v) ==
  CASE width = 1 -> Bytes1(v) [] width = 2 -> Bytes2(v)
    [] width = 4 -> Bytes4(v) [] width = 8 -> Bytes8(v)

Encoding(type, v) ==
  IF type = "string" THEN Bytes4(Len(v)) \o v ELSE BigEndian(Width[type], v)

ToWrite == trail[Len(trail)].fields

-----------------------------------------------------------------------------
(* Reading. *)

Unsigned1(bytes, at) == bytes[at + 1]
Unsigned2(bytes, at) == Unsigned1(bytes, at) * ByteValues + Unsigned1(bytes, at + 1)
Unsigned4(bytes, at) == Unsigned2(bytes, at) * Span2 + Unsigned2(bytes, at + 2)
Unsigned8(bytes, at) == Unsigned4(bytes, at) * Span4 + Unsigned4(bytes, at + 4)

Unsigned(width, bytes, at) ==
  CASE width = 1 -> Unsigned1(bytes, at) [] width = 2 -> Unsigned2(bytes, at)
    [] width = 4 -> Unsigned4(bytes, at) [] width = 8 -> Unsigned8(bytes, at)

(* A mutant: the sign is lost. *)
CastUnsigned(type, u) == IF type = "bool" /\ u # 0 THEN 1 ELSE u

(* A signed type is read as unsigned and cast. A bool is any byte but 0;   *)
(* enumerations are plain bytes.                                           *)
Cast(type, u) ==
  LET span == Span(Width[type])
  IN  CASE type = "bool"                                -> IF u = 0 THEN 0 ELSE 1
        [] type \in SignedTypes /\ u >= span \div 2 -> u - span
        [] OTHER                                        -> u

(* The bytes that a value takes. *)
Size(type, bytes, at) ==
  Width[type] + (IF type = "string" THEN Unsigned4(bytes, at) ELSE 0)

(* Whether they are there: a string throws where its length is cut off, or *)
(* its characters.                                                         *)
Fits(type, bytes, at) ==
  /\ at + Width[type] <= Len(bytes)
  /\ at + Size(type, bytes, at) <= Len(bytes)

Decoding(type, bytes, at) ==
  IF type = "string" THEN SubSeq(bytes, at + 5, at + 4 + Unsigned4(bytes, at))
  ELSE Cast(type, Unsigned(Width[type], bytes, at))

(* Counts that no vector can have: resizing to them throws. *)
BadCount(f, v) ==
  \/ f \in {"parameters", "faces", "paths"} /\ v < 0
  \/ f = "motors" /\ v < -1

(* A mutant: loop is FALSE unless a sender says otherwise. *)
DefaultOff(f) == 0

(* The value of a field that is not there: loop is TRUE, the rest is 0. *)
Default(f) == IF f = "loop" THEN 1 ELSE 0

-----------------------------------------------------------------------------
Init ==
  /\ kind \in Kinds
  /\ content \in Contents
  /\ phase = "writing"
  /\ sent = << >>
  /\ payload = << >>
  /\ trail = << [fields |-> Layouts[kind], off |-> 0] >>
  /\ data = << >>
  /\ due = Layouts[kind]
  /\ off = 0
  /\ received = << >>

(* The next field of the message goes into the buffer. *)
Write(v) ==
  /\ phase = "writing"
  /\ ToWrite # << >>
  /\ Holds(Head(ToWrite), v)
  /\ sent' = Append(sent, v)
  /\ payload' = payload \o Encoding(Type(Head(ToWrite)), v)
  /\ trail' = Append(trail, [fields |-> Follow(Head(ToWrite), v) \o Tail(ToWrite),
                             off    |-> Len(payload')])
  /\ UNCHANGED << kind, content, phase, data, reader >>

(* The payload arrives as bytes. *)
Arrive(bytes) ==
  /\ phase = "writing"
  /\ phase' = "reading"
  /\ data' = bytes
  /\ UNCHANGED << kind, content, writer, reader >>

(* All is written; an older version of the header ends where the fields *)
(* added later begin.                                                   *)
Publish == ToWrite \in {<< >>, Extension} /\ Arrive(payload)

(* A sender that writes fewer fields, or a payload that lost its end. *)
PublishShort(n) ==
  /\ ToWrite \in {<< >>, Extension}
  /\ n < Len(payload)
  /\ Arrive(SubSeq(payload, 1, n))

(* A sender of a version that has more fields. *)
PublishLong(byte) == ToWrite = << >> /\ Arrive(Append(payload, byte))

(* Whether field f can be read now: its bytes are there, and a count is one *)
(* that a vector can have.                                                  *)
Readable(f) ==
  /\ Fits(Type(f), data, off)
  /\ ~BadCount(f, Decoding(Type(f), data, off))

(* Whether it is a field of a later version, and not there. *)
Missing(f) == f \in AddedFields /\ ~Fits(Type(f), data, off)

Read ==
  /\ phase = "reading"
  /\ due # << >> /\ Readable(Head(due))
  /\ LET f == Head(due)
         v == Decoding(Type(f), data, off)
     IN  /\ due' = Follow(f, v) \o Tail(due)
         /\ off' = off + Size(Type(f), data, off)
         /\ received' = Append(received, v)
  /\ UNCHANGED << kind, content, phase, writer, data >>

(* A mutant: a missing field is passed over. *)
SkipPast ==
  /\ phase = "reading"
  /\ due # << >> /\ Missing(Head(due))
  /\ due' = Tail(due)
  /\ off' = off + Width[Type(Head(due))]
  /\ received' = Append(received, Default(Head(due)))
  /\ UNCHANGED << kind, content, phase, writer, data >>

(* The field keeps its default. *)
Skip ==
  /\ phase = "reading"
  /\ due # << >> /\ Missing(Head(due))
  /\ due' = Tail(due)
  /\ received' = Append(received, Default(Head(due)))
  /\ UNCHANGED << kind, content, phase, writer, data, off >>

(* The bytes end too early, or a count is negative. *)
Throw ==
  /\ phase = "reading"
  /\ due # << >> /\ ~Readable(Head(due)) /\ ~Missing(Head(due))
  /\ phase' = "refused"
  /\ UNCHANGED << kind, content, writer, data, reader >>

(* It returns the message; bytes that are left over do not matter. *)
Return ==
  /\ phase = "reading"
  /\ due = << >>
  /\ phase' = "delivered"
  /\ UNCHANGED << kind, content, writer, data, reader >>

Next ==
  \/ ToWrite # << >> /\ Write(Value(content, Head(ToWrite), Len(trail)))
  \/ Publish
  \/ \E n \in 0 .. Len(payload) - 1 : PublishShort(n)
  \/ \E byte \in Byte : PublishLong(byte)
  \/ Read
  \/ Skip
  \/ Throw
  \/ Return

Spec == Init /\ [][Next]_vars

-----------------------------------------------------------------------------
(* Every variable has values of its type, and no byte past the end of the *)
(* payload is read (serializer.hpp: the deserialize functions).            *)
TypeOK ==
  /\ kind \in Kinds
  /\ phase \in {"writing", "reading", "delivered", "refused"}
  /\ payload \in Seq(Byte) /\ data \in Seq(Byte)
  /\ trail \in Seq([fields : Seq(Fields), off : 0 .. Len(payload)])
  /\ Len(trail) = Len(sent) + 1
  /\ due \in Seq(Fields)
  /\ off \in 0 .. Len(data)

Ended == phase \in {"delivered", "refused"}
Whole == Len(data) >= Len(payload)

(* Every message arrives as it was sent: each field with its value and its *)
(* sign, at every edge of its range, whatever strings and vectors precede  *)
(* it, and whatever bytes a newer sender adds at the end.                  *)
RoundTrip ==
  Ended /\ Whole /\ ToWrite = << >> => phase = "delivered" /\ received = sent

(* "All decode functions throw std::runtime_error when data is             *)
(* insufficient" (serializer.hpp): a message of a fixed layout that lost   *)
(* any part of its end is refused, never delivered in part.                *)
ShortIsRefused ==
  Ended /\ ~Whole /\ kind # "ActionGroup" => phase = "refused"

(* A command for the motors may lose the fields added later, but what it   *)
(* decodes to names the action, the motors and their parameters as sent: a *)
(* half-read motor is never driven.                                        *)
HeadIsWhole ==
  phase = "delivered" /\ ~Whole /\ kind = "ActionGroup" =>
    \E n \in 0 .. Len(sent) :
      /\ trail[n + 1].fields = Extension
      /\ n <= Len(received)
      /\ \A i \in 1 .. n : received[i] = sent[i]

(* "若数据不足则保持默认值": a command of a sender that knows none of the  *)
(* added fields is understood, with their defaults.                        *)
OldSenderUnderstood ==
  Ended /\ Whole /\ ToWrite = Extension =>
    phase = "delivered" /\ received = sent \o << 0, 0, 1, 0 >>

=============================================================================
