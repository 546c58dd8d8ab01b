--------------------------------- MODULE Wire ---------------------------------
(***************************************************************************)
(* The message codec (messages.py) and what the receive loop makes of a    *)
(* frame (app.py): a named message with its fields becomes a 29-bit        *)
(* identifier and payload bytes on the bus, and an event with a name and a *)
(* payload at the receiver.  The names come from tables that a message-map *)
(* file may override at start; the senders' specifications keep the        *)
(* numbers they were built with.                                           *)
(***************************************************************************)
EXTENDS Naturals, Sequences, SequencesExt

CONSTANTS
  Override      \* entries an override file may hold: [name, cls, mid]

ASSUME WireAssumption == Override \subseteq [name : STRING, cls : {1, 3, 5, 6}, mid : Nat]

VARIABLES
  numbers,      \* the receiver's *_MID_ASSIGNMENTS, in order
  frame,        \* the frame on the bus with what it was made from, or none
  heard,        \* the event being dispatched with what it was made from, or none
  learned       \* numbers the learner counted

wireVars == <<numbers, frame, heard, learned>>

-----------------------------------------------------------------------------
(* The tables *)

Row(name, cls, mid, payload) ==
  [name |-> name, cls |-> cls, mid |-> mid, payload |-> payload]

Dd == <<"dd", 32>>
SrcDd == <<"src_dd", 32>>
EtField == <<"et", 8>>
Cf == <<"cf", 8>>
CredentialFields == << Dd, <<"spl", 4>>, <<"dpl", 8>>, <<"prn", 12>>, Cf >>

\* MESSAGE_SPECS
Spec5 == <<
  Row("SC_STARTUP", 5, 256, << Dd >>),
  Row("DEVICE_STARTUP", 5, 258, << Dd, EtField, Cf >>),
  Row("DEVICE_DD", 5, 260, << Dd, EtField, Cf >>),
  Row("SC_COORDINATOR", 5, 262, CredentialFields),
  Row("SC_DECLARATION", 5, 264, CredentialFields),
  Row("SC_QUERY", 5, 266, <<>>),
  Row("SC_TOKEN_PASS", 5, 268, <<>>),
  Row("SC_READY_TO_TAKE_OVER", 5, 270, <<>>),
  Row("SC_ASSIGNMENT", 5, 272, << EtField, <<"subnet", 2>>, Cf, Dd >>),
  Row("DEVICE_ASSIGNMENT_ACK", 5, 274, << EtField, Dd >>),
  Row("SC_CONFIGURATION_FINISHED", 5, 276, <<>>),
  Row("SC_CHANGE_STATE", 5, 278, << Cf >>),
  Row("DEVICE_STATUS", 5, 280, <<>>),
  Row("DEVICE_WAITING_FOR_RESET", 5, 282, <<>>),
  Row("DEVICE_RESET", 5, 284, <<>>),
  Row("DEVICE_UI_G_ENABLE_ACK", 5, 286, << EtField >>) >>

Spec3 == <<
  Row("aSC_HEARTBEAT", 3, 1, << Dd >>),
  Row("CONFIGURATION_ALARM", 3, 2, << <<"alarm_no", 10>>, SrcDd, <<"set_clear", 1>> >>),
  Row("DEVICE_SOFT_DISABLE_ALARM", 3, 3, << <<"alrm_device_dd", 32>> >>),
  Row("DEVICE_COMMUNICATIONS_PROBLEM_ALARM", 3, 4, << SrcDd >>),
  Row("DEVICE_ALARM_REPORT", 3, 5,
      << <<"alarm_no", 10>>, <<"set_clear", 1>>, <<"priority", 2>>, SrcDd >>),
  Row("INCOMPLETE_SYSTEM_ALARM", 3, 6, << SrcDd >>),
  Row("MISSING_DEVICE_ALARM", 3, 6, << <<"alarm_no", 10>>, <<"missing_et", 8>>, SrcDd >>) >>

Spec1And6 == <<
  Row("UI_G_HARD_DISABLE_CMD", 1, 1, << EtField >>),
  Row("UI_G_HARD_ENABLE_CMD", 1, 2, << EtField >>),
  Row("DIAG_QUERY", 6, 1, <<>>),
  Row("DIAG_RESPONSE", 6, 2, << EtField, <<"dd10", 10>> >>) >>

Specs == Spec5 \o Spec3 \o Spec1And6

\* The bit fields of an identifier after its class: name, width, lowest bit
Layout(cls) ==
  CASE cls = 1 -> << <<"mid", 8, 18>>, <<"tp", 1, 17>>, <<"et", 9, 8>>,
                     <<"uiid", 4, 4>>, <<"ss", 2, 2>>, <<"ds", 2, 0>> >>
    [] cls = 3 -> << <<"al", 1, 24>>, <<"mid", 12, 12>>, <<"as_all", 1, 11>>,
                     <<"src_et", 9, 2>>, <<"ss", 2, 0>> >>
    [] cls = 5 -> << <<"mid", 12, 14>>, <<"tp", 1, 13>>, <<"et", 9, 4>>,
                     <<"ss", 2, 2>>, <<"ds", 2, 0>> >>
    [] cls = 6 -> << <<"mid", 10, 16>>, <<"dd10", 10, 6>>, <<"sds", 2, 4>>,
                     <<"uiid", 4, 0>> >>

\* What encode_msg hands a builder, if it takes it: dd10 and sds are not among
\* them and stay zero.
Addressing == {"ds", "ss", "et", "as_all", "uiid", "al", "tp", "src_et"}

\* What _rx_forward adds to an event from the identifier
Extra == {"et", "ss", "ds", "uiid", "as_all", "al", "src_et"}

Names(fields) == {fields[i][1] : i \in DOMAIN fields}

-----------------------------------------------------------------------------
(* Encoding and decoding *)

\* build_class1_id and its siblings; encode_msg cuts every address to a byte.
Identifier(spec, addr) ==
  LET bits(f) == CASE f[1] = "mid"       -> spec.mid
                   [] f[1] \in Addressing -> addr[f[1]] % 256
                   [] OTHER               -> 0
  IN FoldSeq(LAMBDA f, id : id + (bits(f) % 2^f[2]) * 2^f[3],
             spec.cls * 2^26, Layout(spec.cls))

\* decode_id
Class(id) == id \div 2^26
Part(id, f) == (id \div 2^f[3]) % 2^f[2]
Field(id, name) ==
  LET f == SelectSeq(Layout(Class(id)), LAMBDA g : g[1] = name)[1] IN Part(id, f)

\* The lowest width bits of a value, highest first; bits above 30 are clear in
\* every value used.
Bits(value, width) ==
  [i \in 1..width |-> IF width - i > 30 THEN 0 ELSE (value \div 2^(width - i)) % 2]

Value(bits) == FoldLeft(LAMBDA v, b : 2 * v + b, 0, bits)

Packed(payload, fields) ==
  FoldLeft(LAMBDA data, f : data \o Bits(fields[f[1]], f[2]), <<>>, payload)

Padding(n) == [i \in 1..((8 - (n % 8)) % 8) |-> 0]

Padded(data) == data \o Padding(Len(data))

Encoded(spec, fields, addr) ==
  [id |-> Identifier(spec, addr), data |-> Padded(Packed(spec.payload, fields))]

\* Mutant: the addresses of the identifier replace the fields of that name.
PreferringAddress(fields, extra) ==
  [n \in DOMAIN fields \cup DOMAIN extra |-> IF n \in DOMAIN extra THEN extra[n] ELSE fields[n]]

\* setdefault: a field of the payload hides an address of that name.
PreferringPayload(fields, extra) ==
  [n \in DOMAIN fields \cup DOMAIN extra |-> IF n \in DOMAIN fields THEN fields[n] ELSE extra[n]]

\* The lookup tables invert the assignments: of two names of one number the
\* later one stays.
NameOf(cls, mid) ==
  LET rows == SelectSeq(numbers, LAMBDA r : r.cls = cls /\ r.mid = mid)
  IN IF rows = <<>> THEN "?" ELSE Last(rows).name

SpecsOf(name, cls) == SelectSeq(Specs, LAMBDA s : s.name = name /\ s.cls = cls)

\* decode_msg: the fields that the data is long enough for
Unpacked(payload, data) ==
  LET end(i) == FoldLeft(LAMBDA n, f : n + f[2], 0, SubSeq(payload, 1, i))
      whole  == {i \in DOMAIN payload : end(i) <= Len(data)}
  IN [n \in {payload[i][1] : i \in whole} |->
        LET i == CHOOSE j \in whole : payload[j][1] = n
        IN Value(SubSeq(data, end(i) - payload[i][2] + 1, end(i)))]

Decoded(f) ==
  LET cls    == Class(f.id)
      name   == NameOf(cls, Field(f.id, "mid"))
      specs  == SpecsOf(name, cls)
      extras == [n \in Extra \cap Names(Layout(cls)) |-> Field(f.id, n)]
  IN [name |-> name,
      data |-> PreferringPayload(IF specs = <<>> THEN <<>>
                                 ELSE Unpacked(specs[1].payload, f.data), extras)]

-----------------------------------------------------------------------------
(* The bus *)

None == [none |-> TRUE]

\* Values that fill the fields: all zero, all ones, or a different one in each
\* field; a dd has its top bit clear.
Fill(k, i, width) ==
  CASE k = "zeros" -> 0
    [] k = "ones"  -> IF width > 30 THEN 2^30 + (2^30 - 1) ELSE 2^width - 1
    [] k = "each"  -> (37 * i) % 2^(IF width > 30 THEN 30 ELSE width)
Pattern == {"zeros", "ones", "each"}

FieldsOf(spec, k) ==
  [n \in Names(spec.payload) |->
     LET i == CHOOSE j \in DOMAIN spec.payload : spec.payload[j][1] = n
     IN Fill(k, i, spec.payload[i][2])]

AddressOf(k) == [n \in Addressing |->
  CASE k = "zeros" -> 0
    [] k = "ones"  -> IF n \in {"et", "src_et"} THEN 255
                      ELSE IF n \in {"ds", "ss"} THEN 3
                      ELSE IF n = "uiid" THEN 15 ELSE 1
    [] k = "each"  -> IF n \in {"et", "src_et"} THEN 112
                      ELSE IF n \in {"ds", "tp"} THEN 1
                      ELSE IF n = "ss" THEN 2 ELSE IF n = "uiid" THEN 5 ELSE 0]

\* set_message_map: a name that is known keeps its place, a new one is last.
SetMessageMap(o) ==
  /\ numbers' = IF \E i \in DOMAIN numbers : numbers[i].name = o.name
                  THEN [i \in DOMAIN numbers |->
                          IF numbers[i].name = o.name THEN o ELSE numbers[i]]
                  ELSE Append(numbers, o)
  /\ UNCHANGED <<frame, heard, learned>>

\* queue_send and _drain_tx
Transmit(spec, fields, addr) ==
  /\ frame = None /\ heard = None
  /\ frame' = [spec |-> spec, fields |-> fields, addr |-> addr,
               can  |-> Encoded(spec, fields, addr)]
  /\ UNCHANGED <<numbers, heard, learned>>

\* MessageNameLearner.observe: numbers without a name
Observed(name, id) ==
  IF name # "?" THEN learned ELSE learned \cup {<<Class(id), Field(id, "mid")>>}

\* _rx_forward: decode, let the learner see it, dispatch.
ReceiveFrame ==
  /\ frame # None
  /\ LET event == Decoded(frame.can)
     IN /\ heard' = [sent |-> frame, event |-> event]
        /\ learned' = Observed(event.name, frame.can.id)
  /\ frame' = None
  /\ UNCHANGED numbers

\* The machines have taken the event.
Dispatched ==
  /\ heard # None
  /\ heard' = None
  /\ UNCHANGED <<numbers, frame, learned>>

WireInit ==
  /\ numbers = [i \in DOMAIN Specs |->
                  [name |-> Specs[i].name, cls |-> Specs[i].cls, mid |-> Specs[i].mid]]
  /\ frame = None
  /\ heard = None
  /\ learned = {}

WireNext ==
  \/ /\ heard = None /\ frame = None
     /\ \E o \in Override : SetMessageMap(o)
  \/ \E i \in DOMAIN Specs, k, l \in Pattern :
       Transmit(Specs[i], FieldsOf(Specs[i], k), AddressOf(l))
  \/ ReceiveFrame \/ Dispatched

WireSpec == WireInit /\ [][WireNext]_wireVars

-----------------------------------------------------------------------------
(* Properties *)

\* The override leaves this message alone: its name and its number.
Untouched(spec) ==
  \A i \in DOMAIN numbers :
    (numbers[i].cls = spec.cls /\ numbers[i].mid = spec.mid) => numbers[i].name = spec.name

Known(spec) == \E i \in DOMAIN numbers :
  numbers[i].cls = spec.cls /\ numbers[i].mid = spec.mid

\* A message whose number is its own arrives under its name, with every field as
\* it was filled in, and with the addresses its class carries where no field
\* hides them; so a handler reads the type a device acknowledges and not the one
\* in the identifier.  One whose number the receiver's tables lack is learned.
HeardAsSent ==
  heard # None =>
    LET spec == heard.sent.spec
        data == heard.event.data
    IN /\ Untouched(spec) /\ Known(spec) =>
            /\ heard.event.name = spec.name
            /\ \A n \in Names(spec.payload) : data[n] = heard.sent.fields[n]
            /\ \A n \in (Names(Layout(spec.cls)) \cap Extra) \ Names(spec.payload) :
                 data[n] = heard.sent.addr[n]
       /\ ~Known(spec) => heard.event.name = "?" /\ <<spec.cls, spec.mid>> \in learned
=============================================================================
