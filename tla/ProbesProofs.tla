---------------------------- MODULE ProbesProofs -----------------------------
(***************************************************************************)
(* Every handled event tells what its call did, for every set of calls and  *)
(* strings, every number of argument slots and every size of the ring       *)
(* buffers: the C and the Go structures agree on where their fields begin,  *)
(* and each record is read once, in order.                                  *)
(***************************************************************************)
EXTENDS Probes, NatFacts, TLAPS

-----------------------------------------------------------------------------
(* Where fields begin. *)

Names == {"pid", "uid", "comm", "filename", "args", "is_ipv6", "ipv6_addr",
          "padding", "dst_addr", "dst_port"}

FieldType == [name : Names, size : Nat, align : Nat \ {0}]

LEMMA RoundUpType ==
    ASSUME NEW n \in Nat, NEW align \in Nat \ {0}
    PROVE  RoundUp(n, align) \in Nat
<1>1. (n + align - 1) \div align \in Nat
  OBVIOUS
<1> QED
  BY <1>1 DEF RoundUp

(* Offsets(fields) satisfies the equation that defines it. *)
LEMMA OffsetsEquation ==
    ASSUME NEW fields \in Seq(FieldType)
    PROVE  /\ DOMAIN Offsets(fields) = 1..Len(fields)
           /\ \A i \in 1..Len(fields) : Offsets(fields)[i] =
                  IF i = 1 THEN 0
                  ELSE RoundUp(Offsets(fields)[i - 1] + fields[i - 1].size,
                               fields[i].align)
<1> DEFINE P(h) == h = [i \in 1..Len(fields) |->
                           IF i = 1 THEN 0
                           ELSE RoundUp(h[i - 1] + fields[i - 1].size,
                                        fields[i].align)]
           step == [i \in (1 + 1)..Len(fields) |->
                       [x \in Nat |-> RoundUp(x + fields[i - 1].size,
                                              fields[i].align)]]
<1>1. \E g : P(g)
  <2>1. ASSUME NEW i \in (1 + 1)..Len(fields), NEW x \in Nat
        PROVE  RoundUp(x + fields[i - 1].size, fields[i].align) \in Nat
    <3>1. fields[i - 1] \in FieldType /\ fields[i] \in FieldType
      OBVIOUS
    <3>2. fields[i - 1].size \in Nat /\ fields[i].align \in Nat \ {0}
      BY <3>1 DEF FieldType
    <3>3. x + fields[i - 1].size \in Nat
      BY <3>2
    <3> QED
      BY <3>2, <3>3, RoundUpType
  <2>2. step \in [(1 + 1)..Len(fields) -> [Nat -> Nat]]
    BY <2>1
  <2> HIDE DEF step
  <2>3. PICK g \in [1..Len(fields) -> Nat] : \A i \in 1..Len(fields) :
            g[i] = IF i = 1 THEN 0 ELSE step[i][g[i - 1]]
    <3>1. 1 \in Nat /\ Len(fields) \in Nat /\ 0 \in Nat
      OBVIOUS
    <3>2. step \in Steps(1, Len(fields), Nat)
      BY <2>2 DEF Steps
    <3>3. \E g \in [1..Len(fields) -> Nat] : Iterates(g, 1, Len(fields), 0, step)
      BY <3>1, <3>2, RecursionExists
    <3> QED
      BY <3>3 DEF Iterates
  <2>4. ASSUME NEW i \in 1..Len(fields), i # 1
        PROVE  step[i][g[i - 1]] = RoundUp(g[i - 1] + fields[i - 1].size,
                                           fields[i].align)
    <3>1. i \in (1 + 1)..Len(fields) /\ g[i - 1] \in Nat
      BY <2>3, <2>4
    <3> QED
      BY <3>1 DEF step
  <2>5. P(g)
    BY <2>3, <2>4
  <2> QED
    BY <2>5
<1>2. Offsets(fields) = CHOOSE h : P(h)
  BY DEF Offsets
<1> HIDE DEF P
<1>3. P(Offsets(fields))
  BY <1>1, <1>2
<1> QED
  BY <1>3 DEF P

LEMMA FieldParts ==
    ASSUME NEW name, NEW size, NEW align
    PROVE  /\ Field(name, size, align).name = name
           /\ Field(name, size, align).size = size
           /\ Field(name, size, align).align = align
  BY DEF Field

LEMMA Concat ==
    ASSUME NEW s \in Seq(FieldType), NEW t \in Seq(FieldType)
    PROVE  /\ s \o t \in Seq(FieldType) /\ Len(s \o t) = Len(s) + Len(t)
           /\ \A i \in 1..Len(s) : (s \o t)[i] = s[i]
           /\ \A i \in 1..Len(t) : (s \o t)[Len(s) + i] = t[i]
  OBVIOUS

LEMMA Tuples ==
    ASSUME NEW S, NEW a \in S, NEW b \in S, NEW c \in S, NEW d \in S, NEW e \in S
    PROVE  /\ <<a>> \in Seq(S) /\ <<a, b>> \in Seq(S) /\ <<a, b, c>> \in Seq(S)
           /\ <<a, b, c, d>> \in Seq(S) /\ <<a, b, c, d, e>> \in Seq(S)
  OBVIOUS

(* The fields of the six structures, one by one. *)
LEMMA Headers ==
    /\ Header \in Seq(FieldType) /\ Len(Header) = 3
    /\ Header[1] = Field("pid", 4, 4) /\ Header[2] = Field("uid", 4, 4)
    /\ Header[3] = Field("comm", 16, 1)
    /\ goHeader \in Seq(FieldType) /\ Len(goHeader) = 3
    /\ goHeader[1] = Field("pid", 4, 1) /\ goHeader[2] = Field("uid", 4, 1)
    /\ goHeader[3] = Field("comm", 16, 1)
<1>1. /\ Field("pid", 4, 4) \in FieldType /\ Field("uid", 4, 4) \in FieldType
      /\ Field("comm", 16, 1) \in FieldType
      /\ Field("pid", 4, 1) \in FieldType /\ Field("uid", 4, 1) \in FieldType
  BY DEF Field, FieldType, Names
<1>2. Header \in Seq(FieldType) /\ goHeader \in Seq(FieldType)
  BY <1>1, Tuples DEF Header, goHeader, Packed
<1> QED
  BY <1>2 DEF Header, goHeader, Packed

(* A structure is its header and the fields behind it. *)
LEMMA Behind ==
    ASSUME NEW header \in Seq(FieldType), Len(header) = 3,
           NEW rest \in Seq(FieldType)
    PROVE  /\ header \o rest \in Seq(FieldType)
           /\ Len(header \o rest) = 3 + Len(rest)
           /\ (header \o rest)[1] = header[1] /\ (header \o rest)[2] = header[2]
           /\ (header \o rest)[3] = header[3]
           /\ \A i \in 1..Len(rest) : (header \o rest)[3 + i] = rest[i]
<1>1. /\ header \o rest \in Seq(FieldType)
      /\ Len(header \o rest) = Len(header) + Len(rest)
      /\ \A i \in 1..Len(header) : (header \o rest)[i] = header[i]
      /\ \A i \in 1..Len(rest) : (header \o rest)[Len(header) + i] = rest[i]
  BY Concat, Zenon
<1>2. (header \o rest)[1] = header[1] /\ (header \o rest)[2] = header[2]
      /\ (header \o rest)[3] = header[3]
  BY <1>1
<1>3. \A i \in 1..Len(rest) : (header \o rest)[3 + i] = rest[i]
  BY <1>1
<1> QED
  BY <1>1, <1>2, <1>3

LEMMA FileFields ==
    /\ struct_event \in Seq(FieldType) /\ Len(struct_event) = 5
    /\ execEvent \in Seq(FieldType) /\ Len(execEvent) = 5
    /\ struct_open_event \in Seq(FieldType) /\ Len(struct_open_event) = 4
    /\ openEvent \in Seq(FieldType) /\ Len(openEvent) = 4
    /\ \A f \in {struct_event, struct_open_event} :
           /\ f[1] = Field("pid", 4, 4) /\ f[2] = Field("uid", 4, 4)
           /\ f[3] = Field("comm", 16, 1) /\ f[4] = Field("filename", 256, 1)
    /\ \A f \in {execEvent, openEvent} :
           /\ f[1] = Field("pid", 4, 1) /\ f[2] = Field("uid", 4, 1)
           /\ f[3] = Field("comm", 16, 1) /\ f[4] = Field("filename", 256, 1)
    /\ \A f \in {struct_event, execEvent} :
           f[5] = Field("args", 64 * NUM_ARG_SLOTS, 1)
<1> DEFINE file == Field("filename", 256, 1)
           args == Field("args", 64 * NUM_ARG_SLOTS, 1)
<1>1. 64 * NUM_ARG_SLOTS \in Nat
  BY ProbesAssumption
<1>2. file \in FieldType /\ args \in FieldType
  BY <1>1 DEF Field, FieldType, Names
<1>3. /\ struct_event = Header \o <<file, args>> /\ struct_open_event = Header \o <<file>>
      /\ execEvent = goHeader \o <<file, args>> /\ openEvent = goHeader \o <<file>>
  BY DEF struct_event, struct_open_event, execEvent, openEvent, Packed
<1> HIDE DEF file, args
<1>4. <<file>> \in Seq(FieldType) /\ <<file, args>> \in Seq(FieldType)
  BY <1>2, Tuples
<1>5. /\ struct_event \in Seq(FieldType) /\ Len(struct_event) = 5
      /\ struct_event[1] = Header[1] /\ struct_event[2] = Header[2]
      /\ struct_event[3] = Header[3]
      /\ struct_event[4] = file /\ struct_event[5] = args
  BY <1>3, <1>4, Headers, Behind
<1>6. /\ execEvent \in Seq(FieldType) /\ Len(execEvent) = 5
      /\ execEvent[1] = goHeader[1] /\ execEvent[2] = goHeader[2]
      /\ execEvent[3] = goHeader[3]
      /\ execEvent[4] = file /\ execEvent[5] = args
  BY <1>3, <1>4, Headers, Behind
<1>7. /\ struct_open_event \in Seq(FieldType) /\ Len(struct_open_event) = 4
      /\ struct_open_event[1] = Header[1] /\ struct_open_event[2] = Header[2]
      /\ struct_open_event[3] = Header[3] /\ struct_open_event[4] = file
  BY <1>3, <1>4, Headers, Behind
<1>8. /\ openEvent \in Seq(FieldType) /\ Len(openEvent) = 4
      /\ openEvent[1] = goHeader[1] /\ openEvent[2] = goHeader[2]
      /\ openEvent[3] = goHeader[3] /\ openEvent[4] = file
  BY <1>3, <1>4, Headers, Behind
<1> QED
  BY <1>5, <1>6, <1>7, <1>8, Headers DEF file, args

LEMMA ConnectFields ==
    /\ \A f \in {struct_connect_event} :
           /\ f \in Seq(FieldType) /\ Len(f) = 7
           /\ f[1] = Field("pid", 4, 4) /\ f[2] = Field("uid", 4, 4)
           /\ f[3] = Field("comm", 16, 1) /\ f[4] = Field("is_ipv6", 1, 1)
           /\ f[5] = Field("ipv6_addr", 16, 1) /\ f[6] = Field("dst_addr", 4, 4)
           /\ f[7] = Field("dst_port", 2, 2)
    /\ \A f \in {connectEvent} :
           /\ f \in Seq(FieldType) /\ Len(f) = 8
           /\ f[1] = Field("pid", 4, 1) /\ f[2] = Field("uid", 4, 1)
           /\ f[3] = Field("comm", 16, 1) /\ f[4] = Field("is_ipv6", 1, 1)
           /\ f[5] = Field("ipv6_addr", 16, 1) /\ f[6] = Field("padding", 3, 1)
           /\ f[7] = Field("dst_addr", 4, 1) /\ f[8] = Field("dst_port", 2, 1)
<1> DEFINE a == Field("is_ipv6", 1, 1)
           b == Field("ipv6_addr", 16, 1)
           d == Field("dst_addr", 4, 4)
           e == Field("dst_port", 2, 2)
           gap == Field("padding", 3, 1)
           god == Field("dst_addr", 4, 1)
           goe == Field("dst_port", 2, 1)
<1>1. /\ a \in FieldType /\ b \in FieldType /\ d \in FieldType /\ e \in FieldType
      /\ gap \in FieldType /\ god \in FieldType /\ goe \in FieldType
  BY DEF Field, FieldType, Names
<1>2. /\ struct_connect_event = Header \o <<a, b, d, e>>
      /\ connectEvent = goHeader \o <<a, b, gap, god, goe>>
  BY DEF struct_connect_event, connectEvent, Packed
<1> HIDE DEF a, b, d, e, gap, god, goe
<1>3. <<a, b, d, e>> \in Seq(FieldType) /\ <<a, b, gap, god, goe>> \in Seq(FieldType)
  BY <1>1, Tuples
<1>4. LET c == struct_connect_event
      IN  /\ c \in Seq(FieldType) /\ Len(c) = 7
          /\ c[1] = Header[1] /\ c[2] = Header[2] /\ c[3] = Header[3]
          /\ c[4] = a /\ c[5] = b /\ c[6] = d /\ c[7] = e
  <2>1. PICK rest \in Seq(FieldType) : rest = <<a, b, d, e>>
    BY <1>3
  <2>2. /\ Len(rest) = 4 /\ rest[1] = a /\ rest[2] = b /\ rest[3] = d /\ rest[4] = e
    BY <2>1
  <2>3. Header \in Seq(FieldType) /\ Len(Header) = 3
    BY Headers
  <2>4. struct_connect_event = Header \o rest
    BY <1>2, <2>1
  <2>5. /\ struct_connect_event \in Seq(FieldType) /\ Len(struct_connect_event) = 3 + Len(rest)
        /\ struct_connect_event[1] = Header[1] /\ struct_connect_event[2] = Header[2] /\ struct_connect_event[3] = Header[3]
        /\ \A i \in 1..Len(rest) : struct_connect_event[3 + i] = rest[i]
    BY <2>3, <2>4, Behind, Zenon
  <2>6. \A i \in 1..4 : struct_connect_event[3 + i] = rest[i]
    BY <2>2, <2>5
  <2>7. /\ struct_connect_event[4] = rest[1] /\ struct_connect_event[5] = rest[2]
        /\ struct_connect_event[6] = rest[3] /\ struct_connect_event[7] = rest[4]
    BY <2>6
  <2> QED
    BY <2>2, <2>5, <2>7
<1>5. LET go == connectEvent
      IN  /\ go \in Seq(FieldType) /\ Len(go) = 8
          /\ go[1] = goHeader[1] /\ go[2] = goHeader[2] /\ go[3] = goHeader[3]
          /\ go[4] = a /\ go[5] = b /\ go[6] = gap /\ go[7] = god /\ go[8] = goe
  <2>1. PICK rest \in Seq(FieldType) : rest = <<a, b, gap, god, goe>>
    BY <1>3
  <2>2. /\ Len(rest) = 5 /\ rest[1] = a /\ rest[2] = b /\ rest[3] = gap
        /\ rest[4] = god /\ rest[5] = goe
    BY <2>1
  <2>3. goHeader \in Seq(FieldType) /\ Len(goHeader) = 3
    BY Headers
  <2>4. connectEvent = goHeader \o rest
    BY <1>2, <2>1
  <2>5. /\ connectEvent \in Seq(FieldType) /\ Len(connectEvent) = 3 + Len(rest)
        /\ connectEvent[1] = goHeader[1] /\ connectEvent[2] = goHeader[2] /\ connectEvent[3] = goHeader[3]
        /\ \A i \in 1..Len(rest) : connectEvent[3 + i] = rest[i]
    BY <2>3, <2>4, Behind, Zenon
  <2>6. \A i \in 1..5 : connectEvent[3 + i] = rest[i]
    BY <2>2, <2>5
  <2>7. /\ connectEvent[4] = rest[1] /\ connectEvent[5] = rest[2]
        /\ connectEvent[6] = rest[3] /\ connectEvent[7] = rest[4]
        /\ connectEvent[8] = rest[5]
    BY <2>6
  <2> QED
    BY <2>2, <2>5, <2>7
<1> QED
  BY <1>4, <1>5, Headers DEF a, b, d, e, gap, god, goe

LEMMA Rounding ==
    /\ RoundUp(4, 4) = 4 /\ RoundUp(8, 1) = 8 /\ RoundUp(24, 1) = 24
    /\ RoundUp(280, 1) = 280 /\ RoundUp(25, 1) = 25 /\ RoundUp(41, 4) = 44
    /\ RoundUp(41, 1) = 41 /\ RoundUp(44, 1) = 44 /\ RoundUp(48, 2) = 48
    /\ RoundUp(48, 1) = 48 /\ RoundUp(4, 1) = 4
  BY DEF RoundUp

LEMMA FileOffsets ==
    ASSUME NEW f \in {struct_event, execEvent, struct_open_event, openEvent}
    PROVE  /\ Offsets(f)[1] = 0 /\ Offsets(f)[2] = 4 /\ Offsets(f)[3] = 8
           /\ Offsets(f)[4] = 24
           /\ f \in {struct_event, execEvent} => Offsets(f)[5] = 280
<1>1. f \in Seq(FieldType) /\ Len(f) \in {4, 5}
  BY FileFields
<1>2. /\ f[1].size = 4 /\ f[2].size = 4 /\ f[3].size = 16 /\ f[4].size = 256
      /\ f[2].align \in {1, 4} /\ f[3].align = 1 /\ f[4].align = 1
  <2>1. CASE f \in {struct_event, struct_open_event}
    BY <2>1, FileFields, FieldParts
  <2>2. CASE f \in {execEvent, openEvent}
    BY <2>2, FileFields, FieldParts
  <2> QED
    BY <2>1, <2>2
<1>3. f \in {struct_event, execEvent} => Len(f) = 5 /\ f[5].align = 1
  BY FileFields, FieldParts
<1> DEFINE off == Offsets(f)
<1>4. \A i \in 1..Len(f) : off[i] =
          IF i = 1 THEN 0 ELSE RoundUp(off[i - 1] + f[i - 1].size, f[i].align)
  BY <1>1, OffsetsEquation
<1> HIDE DEF off
<1>5. /\ off[1] = 0 /\ off[2] = RoundUp(off[1] + 4, f[2].align)
      /\ off[3] = RoundUp(off[2] + 4, 1) /\ off[4] = RoundUp(off[3] + 16, 1)
  BY <1>1, <1>2, <1>4
<1>6. f \in {struct_event, execEvent} => off[5] = RoundUp(off[4] + 256, 1)
  BY <1>2, <1>3, <1>4
<1> QED
  BY <1>2, <1>5, <1>6, Rounding DEF off

LEMMA ConnectOffsets ==
    ASSUME NEW f, f = struct_connect_event
    PROVE  /\ Offsets(f)[1] = 0 /\ Offsets(f)[2] = 4 /\ Offsets(f)[3] = 8
           /\ Offsets(f)[4] = 24 /\ Offsets(f)[5] = 25 /\ Offsets(f)[6] = 44
           /\ Offsets(f)[7] = 48
<1>1. f \in Seq(FieldType) /\ Len(f) = 7
  BY ConnectFields
<1>0. /\ f[1] = Field("pid", 4, 4) /\ f[2] = Field("uid", 4, 4)
      /\ f[3] = Field("comm", 16, 1) /\ f[4] = Field("is_ipv6", 1, 1)
      /\ f[5] = Field("ipv6_addr", 16, 1) /\ f[6] = Field("dst_addr", 4, 4)
      /\ f[7] = Field("dst_port", 2, 2)
  BY ConnectFields
<1>2. /\ f[1].size = 4 /\ f[2].size = 4 /\ f[3].size = 16 /\ f[4].size = 1
      /\ f[5].size = 16 /\ f[6].size = 4
  BY <1>0, FieldParts
<1>3. /\ f[2].align = 4 /\ f[3].align = 1 /\ f[4].align = 1 /\ f[5].align = 1
      /\ f[6].align = 4 /\ f[7].align = 2
  BY <1>0, FieldParts
<1> DEFINE off == Offsets(f)
<1>4. \A i \in 1..7 : off[i] =
          IF i = 1 THEN 0 ELSE RoundUp(off[i - 1] + f[i - 1].size, f[i].align)
  BY <1>1, OffsetsEquation
<1> HIDE DEF off
<1>5. /\ off[1] = 0 /\ off[2] = RoundUp(off[1] + 4, 4)
      /\ off[3] = RoundUp(off[2] + 4, 1) /\ off[4] = RoundUp(off[3] + 16, 1)
      /\ off[5] = RoundUp(off[4] + 1, 1) /\ off[6] = RoundUp(off[5] + 16, 4)
      /\ off[7] = RoundUp(off[6] + 4, 2)
  BY <1>2, <1>3, <1>4
<1> QED
  BY <1>5, Rounding DEF off

(* The three bytes written by hand are those the C compiler leaves out. *)
LEMMA GoConnectOffsets ==
    ASSUME NEW f, f = connectEvent
    PROVE  /\ Offsets(f)[1] = 0 /\ Offsets(f)[2] = 4 /\ Offsets(f)[3] = 8
           /\ Offsets(f)[4] = 24 /\ Offsets(f)[5] = 25 /\ Offsets(f)[7] = 44
           /\ Offsets(f)[8] = 48
<1>1. f \in Seq(FieldType) /\ Len(f) = 8
  BY ConnectFields
<1>0. /\ f[1] = Field("pid", 4, 1) /\ f[2] = Field("uid", 4, 1)
      /\ f[3] = Field("comm", 16, 1) /\ f[4] = Field("is_ipv6", 1, 1)
      /\ f[5] = Field("ipv6_addr", 16, 1) /\ f[6] = Field("padding", 3, 1)
      /\ f[7] = Field("dst_addr", 4, 1) /\ f[8] = Field("dst_port", 2, 1)
  BY ConnectFields
<1>2. /\ f[1].size = 4 /\ f[2].size = 4 /\ f[3].size = 16 /\ f[4].size = 1
      /\ f[5].size = 16 /\ f[6].size = 3 /\ f[7].size = 4
  BY <1>0, FieldParts
<1>3. /\ f[2].align = 1 /\ f[3].align = 1 /\ f[4].align = 1 /\ f[5].align = 1
      /\ f[6].align = 1 /\ f[7].align = 1 /\ f[8].align = 1
  BY <1>0, FieldParts
<1> DEFINE off == Offsets(f)
<1>4. \A i \in 1..8 : off[i] =
          IF i = 1 THEN 0 ELSE RoundUp(off[i - 1] + f[i - 1].size, f[i].align)
  BY <1>1, OffsetsEquation
<1> HIDE DEF off
<1>5. /\ off[1] = 0 /\ off[2] = RoundUp(off[1] + 4, 1)
      /\ off[3] = RoundUp(off[2] + 4, 1) /\ off[4] = RoundUp(off[3] + 16, 1)
      /\ off[5] = RoundUp(off[4] + 1, 1) /\ off[6] = RoundUp(off[5] + 16, 1)
      /\ off[7] = RoundUp(off[6] + 3, 1) /\ off[8] = RoundUp(off[7] + 4, 1)
  BY <1>2, <1>3, <1>4
<1> QED
  BY <1>5, Rounding DEF off

(* A field is laid at its offset when no other field begins there. *)
LEMMA LaidAt ==
    ASSUME NEW fields \in Seq(FieldType), NEW values, NEW i \in 1..Len(fields),
           \A k \in 1..Len(fields) :
               Offsets(fields)[k] = Offsets(fields)[i] => k = i
    PROVE  /\ Offsets(fields)[i] \in DOMAIN Laid(fields, values).at
           /\ Laid(fields, values).at[Offsets(fields)[i]] = values[fields[i].name]
<1> DEFINE off == Offsets(fields)
           at == [o \in Range(off) |->
                     values[fields[CHOOSE k \in DOMAIN off : off[k] = o].name]]
<1>1. DOMAIN off = 1..Len(fields)
  BY OffsetsEquation
<1>2. Laid(fields, values).at = at
  BY DEF Laid
<1> HIDE DEF off
<1>3. off[i] \in Range(off)
  BY <1>1 DEF Range
<1>4. (CHOOSE k \in DOMAIN off : off[k] = off[i]) = i
  BY <1>1 DEF off
<1>5. at[off[i]] = values[fields[i].name]
  BY <1>3, <1>4
<1> QED
  BY <1>2, <1>3, <1>5 DEF off

(* binary.Read takes a field from its offset in the Go structure. *)
LEMMA DecodedAt ==
    ASSUME NEW fields \in Seq(FieldType), NEW record, NEW i \in 1..Len(fields),
           \A k \in 1..Len(fields) : fields[k].name = fields[i].name => k = i,
           Offsets(fields)[i] \in DOMAIN record.at
    PROVE  Decoded(fields, record)[fields[i].name] = record.at[Offsets(fields)[i]]
<1> DEFINE name == fields[i].name
<1>1. (CHOOSE k \in DOMAIN fields : fields[k].name = name) = i
  OBVIOUS
<1>2. name \in {fields[k].name : k \in DOMAIN fields}
  OBVIOUS
<1> QED
  BY <1>1, <1>2 DEF Decoded

(* Field i of the C structure and field k of the Go structure are the same. *)
SameField(c, i, go, k) ==
    /\ i \in 1..Len(c) /\ k \in 1..Len(go)
    /\ c[i].name = go[k].name /\ Offsets(c)[i] = Offsets(go)[k]
    /\ \A m \in 1..Len(c) : Offsets(c)[m] = Offsets(c)[i] => m = i
    /\ \A m \in 1..Len(go) : go[m].name = go[k].name => m = k

(* What the agent decodes from a field is what the probe wrote into it. *)
LEMMA Carried ==
    ASSUME NEW c \in Seq(FieldType), NEW go \in Seq(FieldType), NEW values,
           NEW i \in Nat, NEW k \in Nat, SameField(c, i, go, k),
           NEW name, name = c[i].name
    PROVE  Decoded(go, Laid(c, values))[name] = values[name]
<1>0. /\ i \in 1..Len(c) /\ k \in 1..Len(go)
      /\ c[i].name = go[k].name /\ Offsets(c)[i] = Offsets(go)[k]
      /\ \A m \in 1..Len(c) : Offsets(c)[m] = Offsets(c)[i] => m = i
      /\ \A m \in 1..Len(go) : go[m].name = go[k].name => m = k
  BY DEF SameField
<1>1. /\ Offsets(c)[i] \in DOMAIN Laid(c, values).at
      /\ Laid(c, values).at[Offsets(c)[i]] = values[c[i].name]
  <2>1. i \in 1..Len(c) /\ \A m \in 1..Len(c) : Offsets(c)[m] = Offsets(c)[i] => m = i
    BY <1>0
  <2> QED
    BY <2>1, LaidAt, Zenon
<1>2. PICK record : record = Laid(c, values)
  OBVIOUS
<1>3. Offsets(go)[k] \in DOMAIN record.at
  BY <1>0, <1>1, <1>2
<1>4. Decoded(go, record)[go[k].name] = record.at[Offsets(go)[k]]
  BY <1>0, <1>3, DecodedAt
<1> QED
  BY <1>0, <1>1, <1>2, <1>4

LEMMA FileCarried ==
    ASSUME NEW c, NEW go, NEW values, NEW n \in {4, 5},
           \/ n = 4 /\ c = struct_open_event /\ go = openEvent
           \/ n = 5 /\ c = struct_event /\ go = execEvent,
           NEW ev, ev = Decoded(go, Laid(c, values))
    PROVE  /\ ev.pid = values.pid /\ ev.uid = values.uid /\ ev.comm = values.comm
           /\ ev.filename = values.filename
           /\ n = 5 => ev.args = values.args
<1>1. c \in Seq(FieldType) /\ go \in Seq(FieldType) /\ Len(c) = n /\ Len(go) = n
  <2>1. /\ struct_event \in Seq(FieldType) /\ Len(struct_event) = 5
        /\ execEvent \in Seq(FieldType) /\ Len(execEvent) = 5
        /\ struct_open_event \in Seq(FieldType) /\ Len(struct_open_event) = 4
        /\ openEvent \in Seq(FieldType) /\ Len(openEvent) = 4
    BY FileFields
  <2> QED
    BY <2>1
<1>2. /\ c[1].name = "pid" /\ c[2].name = "uid" /\ c[3].name = "comm"
      /\ c[4].name = "filename"
      /\ n = 5 => c[5].name = "args"
  BY FileFields, FieldParts
<1>3. /\ go[1].name = "pid" /\ go[2].name = "uid" /\ go[3].name = "comm"
      /\ go[4].name = "filename"
      /\ n = 5 => go[5].name = "args"
  BY FileFields, FieldParts
<1>4. /\ Offsets(c)[1] = 0 /\ Offsets(c)[2] = 4 /\ Offsets(c)[3] = 8
      /\ Offsets(c)[4] = 24
      /\ n = 5 => Offsets(c)[5] = 280
  BY FileOffsets
<1>5. /\ Offsets(go)[1] = 0 /\ Offsets(go)[2] = 4 /\ Offsets(go)[3] = 8
      /\ Offsets(go)[4] = 24
      /\ n = 5 => Offsets(go)[5] = 280
  BY FileOffsets
<1>6. ASSUME NEW i \in 1..n PROVE SameField(c, i, go, i)
  <2>1. c[i].name = go[i].name /\ Offsets(c)[i] = Offsets(go)[i]
    BY <1>2, <1>3, <1>4, <1>5
  <2>2. \A m \in 1..n : Offsets(c)[m] = Offsets(c)[i] => m = i
    BY <1>4
  <2>3. \A m \in 1..n : go[m].name = go[i].name => m = i
    BY <1>3
  <2> QED
    BY <1>1, <2>1, <2>2, <2>3 DEF SameField
<1>7. \A i \in 1..n : ev[c[i].name] = values[c[i].name]
  <2>1. c \in Seq(FieldType) /\ go \in Seq(FieldType)
    BY <1>1
  <2>2. \A i \in 1..n :
            Decoded(go, Laid(c, values))[c[i].name] = values[c[i].name]
    BY <1>6, <2>1, Carried
  <2> QED
    BY <2>2
<1>8. /\ ev["pid"] = values["pid"] /\ ev["uid"] = values["uid"] /\ ev["comm"] = values["comm"]
      /\ ev["filename"] = values["filename"]
      /\ n = 5 => ev["args"] = values["args"]
  BY <1>2, <1>7
<1> QED
  BY <1>8

LEMMA ConnectCarried ==
    ASSUME NEW values, NEW ev,
           ev = Decoded(connectEvent, Laid(struct_connect_event, values))
    PROVE  /\ ev.pid = values.pid /\ ev.uid = values.uid /\ ev.comm = values.comm
           /\ ev.is_ipv6 = values.is_ipv6 /\ ev.ipv6_addr = values.ipv6_addr
           /\ ev.dst_addr = values.dst_addr /\ ev.dst_port = values.dst_port
<1>1. PICK c, go : c = struct_connect_event /\ go = connectEvent
  OBVIOUS
<1>2. c \in Seq(FieldType) /\ go \in Seq(FieldType) /\ Len(c) = 7 /\ Len(go) = 8
  BY <1>1, ConnectFields
<1>3. /\ c[1] = Field("pid", 4, 4) /\ c[2] = Field("uid", 4, 4)
      /\ c[3] = Field("comm", 16, 1) /\ c[4] = Field("is_ipv6", 1, 1)
      /\ c[5] = Field("ipv6_addr", 16, 1) /\ c[6] = Field("dst_addr", 4, 4)
      /\ c[7] = Field("dst_port", 2, 2)
  BY <1>1, ConnectFields
<1>4. /\ go[1] = Field("pid", 4, 1) /\ go[2] = Field("uid", 4, 1)
      /\ go[3] = Field("comm", 16, 1) /\ go[4] = Field("is_ipv6", 1, 1)
      /\ go[5] = Field("ipv6_addr", 16, 1) /\ go[6] = Field("padding", 3, 1)
      /\ go[7] = Field("dst_addr", 4, 1) /\ go[8] = Field("dst_port", 2, 1)
  BY <1>1, ConnectFields
<1>5. /\ c[1].name = "pid" /\ c[2].name = "uid" /\ c[3].name = "comm"
      /\ c[4].name = "is_ipv6" /\ c[5].name = "ipv6_addr"
      /\ c[6].name = "dst_addr" /\ c[7].name = "dst_port"
  BY <1>3, FieldParts
<1>6. /\ go[1].name = "pid" /\ go[2].name = "uid" /\ go[3].name = "comm"
      /\ go[4].name = "is_ipv6" /\ go[5].name = "ipv6_addr"
      /\ go[6].name = "padding" /\ go[7].name = "dst_addr"
      /\ go[8].name = "dst_port"
  BY <1>4, FieldParts
<1>7. /\ Offsets(c)[1] = 0 /\ Offsets(c)[2] = 4 /\ Offsets(c)[3] = 8
      /\ Offsets(c)[4] = 24 /\ Offsets(c)[5] = 25 /\ Offsets(c)[6] = 44
      /\ Offsets(c)[7] = 48
  BY <1>1, ConnectOffsets
<1>8. /\ Offsets(go)[1] = 0 /\ Offsets(go)[2] = 4 /\ Offsets(go)[3] = 8
      /\ Offsets(go)[4] = 24 /\ Offsets(go)[5] = 25 /\ Offsets(go)[7] = 44
      /\ Offsets(go)[8] = 48
  BY <1>1, GoConnectOffsets
<1>9. ASSUME NEW i \in 1..7, NEW k \in 1..8,
             k = IF i <= 5 THEN i ELSE i + 1
      PROVE  SameField(c, i, go, k)
  <2>1. c[i].name = go[k].name
    BY <1>5, <1>6, <1>9
  <2>2. Offsets(c)[i] = Offsets(go)[k]
    BY <1>7, <1>8, <1>9
  <2>3. \A m \in 1..7 : Offsets(c)[m] = Offsets(c)[i] => m = i
    BY <1>7
  <2>4. \A m \in 1..8 : go[m].name = go[k].name => m = k
    BY <1>6
  <2> QED
    BY <1>2, <2>1, <2>2, <2>3, <2>4 DEF SameField
<1>10. ASSUME NEW i \in 1..7 PROVE ev[c[i].name] = values[c[i].name]
  <2>1. PICK k \in 1..8 : k = IF i <= 5 THEN i ELSE i + 1
    OBVIOUS
  <2>2. SameField(c, i, go, k)
    BY <1>9, <2>1
  <2>3. Decoded(go, Laid(c, values))[c[i].name] = values[c[i].name]
    BY <1>2, <2>2, Carried
  <2> QED
    BY <1>1, <2>3
<1>11. /\ ev["pid"] = values["pid"] /\ ev["uid"] = values["uid"] /\ ev["comm"] = values["comm"]
       /\ ev["is_ipv6"] = values["is_ipv6"] /\ ev["ipv6_addr"] = values["ipv6_addr"]
       /\ ev["dst_addr"] = values["dst_addr"] /\ ev["dst_port"] = values["dst_port"]
  BY <1>5, <1>10
<1> QED
  BY <1>11

(* No record is too short for binary.Read. *)
LEMMA SizesFit ==
    ASSUME NEW label \in Labels
    PROVE  ~(SizeOf(CStruct[label]) < ReadSize(GoStruct[label]))
<1>1. CASE label = "EXEC"
  <2>1. PICK n \in Nat : n = NUM_ARG_SLOTS
    BY ProbesAssumption
  <2>2. /\ Len(struct_event) = 5 /\ Offsets(struct_event)[5] = 280
        /\ Len(execEvent) = 5 /\ Offsets(execEvent)[5] = 280
    BY FileFields, FileOffsets
  <2>3. struct_event[5].size = 64 * n /\ execEvent[5].size = 64 * n
    BY <2>1, FileFields, FieldParts
  <2>4. /\ SizeOf(struct_event) = RoundUp(280 + 64 * n, 4)
        /\ ReadSize(execEvent) = 280 + 64 * n
    BY <2>2, <2>3 DEF SizeOf, ReadSize
  <2>5. RoundUp(280 + 64 * n, 4) >= 280 + 64 * n /\ RoundUp(280 + 64 * n, 4) \in Nat
    BY DEF RoundUp
  <2>6. CStruct[label] = struct_event /\ GoStruct[label] = execEvent
    BY <1>1 DEF CStruct, GoStruct
  <2> QED
    BY <2>4, <2>5, <2>6
<1>2. CASE label = "OPEN"
  <2>1. /\ Len(struct_open_event) = 4 /\ Offsets(struct_open_event)[4] = 24
        /\ Len(openEvent) = 4 /\ Offsets(openEvent)[4] = 24
    BY FileFields, FileOffsets
  <2>2. struct_open_event[4].size = 256 /\ openEvent[4].size = 256
    BY FileFields, FieldParts
  <2>3. SizeOf(struct_open_event) = RoundUp(280, 4) /\ ReadSize(openEvent) = 280
    BY <2>1, <2>2 DEF SizeOf, ReadSize
  <2>4. RoundUp(280, 4) = 280
    BY DEF RoundUp
  <2>5. CStruct[label] = struct_open_event /\ GoStruct[label] = openEvent
    BY <1>2 DEF CStruct, GoStruct
  <2> QED
    BY <2>3, <2>4, <2>5
<1>3. CASE label = "CONNECT"
  <2>1. PICK c, go : c = struct_connect_event /\ go = connectEvent
    OBVIOUS
  <2>2. /\ Len(c) = 7 /\ Offsets(c)[7] = 48 /\ Len(go) = 8 /\ Offsets(go)[8] = 48
        /\ c[7] = Field("dst_port", 2, 2) /\ go[8] = Field("dst_port", 2, 1)
    BY <2>1, ConnectFields, ConnectOffsets, GoConnectOffsets
  <2>3. c[7].size = 2 /\ go[8].size = 2
    BY <2>2, FieldParts
  <2>4. SizeOf(c) = RoundUp(50, 4) /\ ReadSize(go) = 50
    BY <2>2, <2>3 DEF SizeOf, ReadSize
  <2>5. RoundUp(50, 4) = 52
    BY DEF RoundUp
  <2>6. CStruct[label] = c /\ GoStruct[label] = go
    BY <1>3, <2>1 DEF CStruct, GoStruct
  <2> QED
    BY <2>4, <2>5, <2>6
<1> QED
  BY <1>1, <1>2, <1>3 DEF Labels

-----------------------------------------------------------------------------
(* The words of an EXEC. *)

(* The loop over the slots computes what ArgParts says. *)
LEMMA ArgPartsEquation ==
    ASSUME NEW V, NEW args \in Seq(V)
    PROVE  \A n \in 0..Len(args) : ArgParts(args)[n] =
               IF n = 0 THEN <<>>
               ELSE IF args[n] = Empty THEN ArgParts(args)[n - 1]
               ELSE Append(ArgParts(args)[n - 1], args[n])
<1> DEFINE P(h) == h = [n \in 0..Len(args) |->
                           IF n = 0 THEN <<>>
                           ELSE IF args[n] = Empty THEN h[n - 1]
                           ELSE Append(h[n - 1], args[n])]
           step == [n \in (0 + 1)..Len(args) |->
                       [w \in Seq(V) |->
                           IF args[n] = Empty THEN w ELSE Append(w, args[n])]]
<1>1. \E g : P(g)
  <2>1. ASSUME NEW n \in (0 + 1)..Len(args), NEW w \in Seq(V)
        PROVE  (IF args[n] = Empty THEN w ELSE Append(w, args[n])) \in Seq(V)
    <3>1. args[n] \in V
      OBVIOUS
    <3> QED
      BY <3>1
  <2>2. step \in [(0 + 1)..Len(args) -> [Seq(V) -> Seq(V)]]
    BY <2>1
  <2> HIDE DEF step
  <2>3. PICK g \in [0..Len(args) -> Seq(V)] : \A n \in 0..Len(args) :
            g[n] = IF n = 0 THEN <<>> ELSE step[n][g[n - 1]]
    <3>1. 0 \in Nat /\ Len(args) \in Nat /\ <<>> \in Seq(V)
      OBVIOUS
    <3>2. step \in Steps(0, Len(args), Seq(V))
      BY <2>2 DEF Steps
    <3>3. \E g \in [0..Len(args) -> Seq(V)] : Iterates(g, 0, Len(args), <<>>, step)
      BY <3>1, <3>2, RecursionExists
    <3> QED
      BY <3>3 DEF Iterates
  <2>4. ASSUME NEW n \in 0..Len(args), n # 0
        PROVE  step[n][g[n - 1]] = IF args[n] = Empty THEN g[n - 1]
                                   ELSE Append(g[n - 1], args[n])
    <3>1. n \in (0 + 1)..Len(args) /\ g[n - 1] \in Seq(V)
      BY <2>3, <2>4
    <3> QED
      BY <3>1 DEF step
  <2>5. \A n \in 0..Len(args) : g[n] =
            IF n = 0 THEN <<>>
            ELSE IF args[n] = Empty THEN g[n - 1] ELSE Append(g[n - 1], args[n])
    BY <2>3, <2>4
  <2>6. P(g)
    BY <2>5
  <2> QED
    BY <2>6
<1>2. ArgParts(args) = CHOOSE h : P(h)
  BY DEF ArgParts
<1> HIDE DEF P
<1>3. P(ArgParts(args))
  BY <1>1, <1>2
<1> QED
  BY <1>3 DEF P

(* Slots that memset left empty add no words. *)
LEMMA PaddingAddsNoWords ==
    ASSUME NEW V, NEW s \in Seq(V), NEW t \in Seq(V), Len(t) <= Len(s),
           \A i \in 1..Len(t) : s[i] = t[i],
           \A i \in (Len(t) + 1)..Len(s) : s[i] = Empty
    PROVE  Words(s) = Words(t)
<1> DEFINE T == {n \in Nat : n <= Len(t) /\ ArgParts(s)[n] # ArgParts(t)[n]}
           U == {n \in Nat : /\ Len(t) <= n /\ n <= Len(s)
                             /\ ArgParts(s)[n] # ArgParts(s)[Len(t)]}
<1>1. T = {}
  <2> SUFFICES ASSUME T # {} PROVE FALSE
    OBVIOUS
  <2>1. PICK n \in T : \A y \in T : n <= y
    BY LeastNat
  <2>2. n \in 0..Len(t) /\ n \in 0..Len(s)
    OBVIOUS
  <2>3. n = 0 => ArgParts(s)[n] = ArgParts(t)[n]
    BY <2>2, ArgPartsEquation
  <2>4. CASE n # 0
    <3>1. n - 1 \in Nat /\ n - 1 \notin T /\ n - 1 <= Len(t) /\ n \in 1..Len(t)
      BY <2>1, <2>2, <2>4
    <3>2. ArgParts(s)[n - 1] = ArgParts(t)[n - 1] /\ s[n] = t[n]
      BY <3>1
    <3> QED
      BY <2>2, <2>4, <3>2, ArgPartsEquation
  <2> QED
    BY <2>3, <2>4
<1>2. U = {}
  <2> SUFFICES ASSUME U # {} PROVE FALSE
    OBVIOUS
  <2>1. PICK n \in U : \A y \in U : n <= y
    BY LeastNat
  <2>2. n # Len(t) /\ n \in 0..Len(s) /\ n # 0
    OBVIOUS
  <2>3. n - 1 \in Nat /\ n - 1 \notin U /\ Len(t) <= n - 1 /\ n - 1 <= Len(s)
    BY <2>1, <2>2
  <2>4. ArgParts(s)[n - 1] = ArgParts(s)[Len(t)] /\ s[n] = Empty
    BY <2>2, <2>3
  <2> QED
    BY <2>2, <2>4, ArgPartsEquation
<1>3. ArgParts(s)[Len(s)] = ArgParts(s)[Len(t)]
  BY <1>2
<1>4. ArgParts(s)[Len(t)] = ArgParts(t)[Len(t)]
  BY <1>1
<1> QED
  BY <1>3, <1>4 DEF Words

(* What lies in the memory of a process: strings and the NULL. *)
Memory == Strings \cup {Null}

LEMMA ConcatMemory ==
    ASSUME NEW s \in Seq(Memory), NEW t \in Seq(Memory)
    PROVE  /\ s \o t \in Seq(Memory) /\ Len(s \o t) = Len(s) + Len(t)
           /\ \A i \in 1..Len(s) : (s \o t)[i] = s[i]
           /\ \A i \in 1..Len(t) : (s \o t)[Len(s) + i] = t[i]
  OBVIOUS

(* The pointers behind argv[0], up to the NULL that ends the vector. *)
LEMMA Pointers ==
    ASSUME NEW call, call.argv \in Seq(Strings), call.beyond \in Seq(Strings)
    PROVE  /\ \A k \in 1..(Len(call.argv) - 1) :
                  ArgPtr(call, k) = call.argv[k + 1]
           /\ ArgPtr(call, Len(call.argv)) = Null
<1>1. PICK a \in Seq(Memory) : a = call.argv
  BY DEF Memory
<1>2. PICK b \in Seq(Memory) : b = call.beyond
  BY DEF Memory
<1>3. PICK n \in Seq(Memory) : n = <<Null>> /\ Len(n) = 1 /\ n[1] = Null
  <2>1. PICK x \in Memory : x = Null
    BY DEF Memory
  <2>2. <<x>> \in Seq(Memory) /\ Len(<<x>>) = 1 /\ <<x>>[1] = x
    OBVIOUS
  <2> QED
    BY <2>1, <2>2
<1>4. PICK m \in Seq(Memory) :
          /\ m = a \o n \o b
          /\ Len(m) = Len(a) + 1 + Len(b)
          /\ \A i \in 1..Len(a) : m[i] = a[i]
          /\ m[Len(a) + 1] = Null
  <2> DEFINE p == a \o n
             m == p \o b
  <2>1. /\ p \in Seq(Memory) /\ Len(p) = Len(a) + Len(n)
        /\ \A i \in 1..Len(a) : p[i] = a[i]
        /\ \A i \in 1..Len(n) : p[Len(a) + i] = n[i]
    BY ConcatMemory, Zenon
  <2> HIDE DEF p
  <2>2. /\ m \in Seq(Memory) /\ Len(m) = Len(p) + Len(b)
        /\ \A i \in 1..Len(p) : m[i] = p[i]
    BY <2>1, ConcatMemory, Zenon
  <2> HIDE DEF m
  <2>3. Len(p) = Len(a) + 1 /\ p[Len(a) + 1] = Null
    BY <1>3, <2>1
  <2>4. /\ \A i \in 1..Len(a) : m[i] = a[i]
        /\ m[Len(a) + 1] = Null
    BY <2>1, <2>2, <2>3
  <2>5. m = a \o n \o b
    BY DEF m, p
  <2>6. Len(m) = Len(a) + 1 + Len(b)
    BY <2>2, <2>3
  <2> QED
    BY <2>2, <2>4, <2>5, <2>6
<1>5. \A i : ArgPtr(call, i) = IF i + 1 \in DOMAIN m THEN m[i + 1] ELSE Null
  BY <1>1, <1>2, <1>3, <1>4 DEF ArgPtr
<1>6. DOMAIN m = 1..Len(m)
  OBVIOUS
<1>7. ASSUME NEW k \in 1..(Len(a) - 1) PROVE ArgPtr(call, k) = a[k + 1]
  <2>1. k + 1 \in 1..Len(a) /\ k + 1 \in 1..Len(m)
    BY <1>4
  <2> QED
    BY <1>4, <1>5, <1>6, <2>1
<1>8. ArgPtr(call, Len(a)) = Null
  <2>1. Len(a) + 1 \in 1..Len(m)
    BY <1>4
  <2> QED
    BY <1>4, <1>5, <1>6, <2>1
<1> QED
  BY <1>1, <1>7, <1>8

(* The slots give the first arguments, and the environment behind the vector *)
(* is not read.                                                              *)
LEMMA SlotsHoldArguments ==
    ASSUME NEW call, call.argv \in Seq(Strings), call.beyond \in Seq(Strings),
           call.argv # <<>>,
           NEW last, last = IF Len(call.argv) <= NUM_ARG_SLOTS
                            THEN Len(call.argv) ELSE NUM_ARG_SLOTS + 1
    PROVE  Words(ArgSlots(call)) =
               Words([i \in 1..(last - 1) |-> ClipArg[call.argv[i + 1]]])
<1> DEFINE V == Strings \cup {Empty}
           s == ArgSlots(call)
           t == [i \in 1..(last - 1) |-> ClipArg[call.argv[i + 1]]]
<1>1. PICK N \in Nat : N = NUM_ARG_SLOTS
  BY ProbesAssumption
<1>2. PICK L \in Nat : L = Len(call.argv) /\ L >= 1
  OBVIOUS
<1>3. last \in Nat /\ last - 1 \in Nat /\ last - 1 <= N /\ last <= L
  BY <1>1, <1>2
<1>4. ClipArg \in [Strings -> V] /\ Null \notin Strings
  BY ProbesAssumption
<1>5. \A k \in 1..(L - 1) : /\ ArgPtr(call, k) = call.argv[k + 1]
                            /\ call.argv[k + 1] \in Strings
  BY <1>2, Pointers
<1>6. ArgPtr(call, L) = Null
  BY <1>2, Pointers
<1>7. ASSUME NEW i \in 1..N
      PROVE  /\ i < L => s[i] = ClipArg[call.argv[i + 1]] /\ s[i] \in V
             /\ i >= L => s[i] = Empty
  <2>1. CASE i < L
    <3>1. \A k \in 1..i : ArgPtr(call, k) # Null
      BY <1>4, <1>5, <2>1
    <3>2. /\ ArgPtr(call, i) = call.argv[i + 1] /\ call.argv[i + 1] \in Strings
      BY <1>5, <2>1
    <3>3. s[i] = ClipArg[ArgPtr(call, i)]
      BY <1>1, <3>1 DEF ArgSlots
    <3> QED
      BY <1>4, <2>1, <3>2, <3>3
  <2>2. CASE i >= L
    <3>1. ~\A k \in 1..i : ArgPtr(call, k) # Null
      BY <1>2, <1>6, <2>2
    <3> QED
      BY <1>1, <2>2, <3>1 DEF ArgSlots
  <2> QED
    BY <2>1, <2>2
<1>8. s \in Seq(V) /\ Len(s) = N
  <2>1. s = [i \in 1..N |-> s[i]]
    BY <1>1 DEF ArgSlots
  <2>2. \A i \in 1..N : s[i] \in V
    BY <1>2, <1>7
  <2> HIDE DEF s, V
  <2> QED
    BY <2>1, <2>2
<1>9. t \in Seq(V) /\ Len(t) = last - 1
  <2>1. \A i \in 1..(last - 1) : ClipArg[call.argv[i + 1]] \in V
    BY <1>2, <1>3, <1>4, <1>5
  <2>2. PICK m \in Nat : m = last - 1
    BY <1>3
  <2> HIDE DEF V
  <2>3. t \in [1..m -> V]
    BY <2>1, <2>2
  <2>4. t \in Seq(V) /\ Len(t) = m
    <3> HIDE DEF t
    <3> QED
      BY <2>2, <2>3
  <2> QED
    BY <2>2, <2>4
<1>10. \A i \in 1..Len(t) : s[i] = t[i]
  <2>1. ASSUME NEW i \in 1..(last - 1) PROVE s[i] = t[i]
    <3>1. i \in 1..N /\ i < L
      BY <1>2, <1>3
    <3> HIDE DEF s
    <3> QED
      BY <1>7, <3>1
  <2> QED
    BY <1>9, <2>1
<1>11. \A i \in (Len(t) + 1)..Len(s) : s[i] = Empty
  <2>1. ASSUME NEW i \in last..N PROVE s[i] = Empty
    <3>1. i \in 1..N /\ i >= L
      BY <1>1, <1>2, <1>3
    <3> HIDE DEF s
    <3> QED
      BY <1>7, <3>1
  <2> HIDE DEF s, t
  <2> QED
    BY <1>3, <1>8, <1>9, <2>1
<1> HIDE DEF s, t, V
<1>12. Words(s) = Words(t)
  <2>1. s \in Seq(V) /\ t \in Seq(V)
    BY <1>8, <1>9
  <2>2. Len(t) <= Len(s)
    BY <1>3, <1>8, <1>9
  <2> QED
    BY <1>10, <1>11, <2>1, <2>2, PaddingAddsNoWords, Zenon
<1> QED
  BY <1>12 DEF s, t

-----------------------------------------------------------------------------
(* From the call to handleEvent. *)

(* The event that readLoop makes of the record of a call. *)
EventOf(call) == Event(call.type, Decoded(GoStruct[call.type], Record[call]))

LEMMA CallsByType ==
    ASSUME NEW call \in Calls
    PROVE  /\ call.type \in Labels
           /\ call.type = "EXEC" => call \in ExecCall
           /\ call.type = "OPEN" => call \in OpenCall
           /\ call.type = "CONNECT" => call \in ConnectCall
<1>1. call \in ExecCall \/ call \in OpenCall \/ call \in ConnectCall
  BY ProbesAssumption DEF CallType
<1>2. /\ call \in ExecCall => call.type = "EXEC"
      /\ call \in OpenCall => call.type = "OPEN"
      /\ call \in ConnectCall => call.type = "CONNECT"
  BY DEF ExecCall, OpenCall, ConnectCall
<1> QED
  BY <1>1, <1>2 DEF Labels

(* The layouts agree, the loops keep the order and stop in time: an event    *)
(* tells the story of its call.                                              *)
LEMMA EventIsStory ==
    ASSUME NEW call \in Calls, Traced(call), HasArgv(call)
    PROVE  EventOf(call) = Story(call)
<1>1. CASE call.type = "EXEC"
  <2>1. /\ call.argv \in Seq(Strings) /\ call.beyond \in Seq(Strings)
        /\ call.argv # <<>>
    <3>1. call \in ExecCall
      BY <1>1, CallsByType
    <3> QED
      BY <1>1, <3>1 DEF ExecCall, HasArgv
  <2>2. PICK values : values = handle_execve(call)
    OBVIOUS
  <2>3. /\ values.pid = call.pid /\ values.uid = call.uid /\ values.comm = call.comm
        /\ values.filename = ClipName[call.filename]
        /\ values.args = ArgSlots(call)
    BY <2>2 DEF handle_execve
  <2>4. PICK ev : ev = Decoded(execEvent, Laid(struct_event, values))
    OBVIOUS
  <2>5. /\ ev.pid = call.pid /\ ev.uid = call.uid /\ ev.comm = call.comm
        /\ ev.filename = ClipName[call.filename] /\ ev.args = ArgSlots(call)
    BY <2>3, <2>4, FileCarried
  <2>6. Decoded(GoStruct[call.type], Record[call]) = ev
    BY <1>1, <2>2, <2>4 DEF GoStruct, CStruct, Record
  <2>7. PICK last : last = IF Len(call.argv) <= NUM_ARG_SLOTS
                           THEN Len(call.argv) ELSE NUM_ARG_SLOTS + 1
    OBVIOUS
  <2>8. Words(ev.args) =
            Words([i \in 1..(last - 1) |-> ClipArg[call.argv[i + 1]]])
    BY <2>1, <2>5, <2>7, SlotsHoldArguments
  <2>9. EventOf(call) =
            [type |-> call.type, pid |-> call.pid, uid |-> call.uid, comm |-> call.comm,
             detail |-> <<ClipName[call.filename]>> \o Words(ev.args)]
    BY <1>1, <2>5, <2>6 DEF EventOf, Event
  <2>10. Story(call) =
            [type |-> call.type, pid |-> call.pid, uid |-> call.uid, comm |-> call.comm,
             detail |-> <<ClipName[call.filename]>> \o
                 Words([i \in 1..(last - 1) |-> ClipArg[call.argv[i + 1]]])]
    BY <1>1, <2>7 DEF Story
  <2> QED
    BY <2>8, <2>9, <2>10
<1>2. CASE call.type = "OPEN"
  <2>1. PICK values : values = handle_openat(call)
    OBVIOUS
  <2>2. /\ values.pid = call.pid /\ values.uid = call.uid /\ values.comm = call.comm
        /\ values.filename = ClipName[call.filename]
    BY <2>1 DEF handle_openat
  <2>3. PICK ev : ev = Decoded(openEvent, Laid(struct_open_event, values))
    OBVIOUS
  <2>4. /\ ev.pid = call.pid /\ ev.uid = call.uid /\ ev.comm = call.comm
        /\ ev.filename = ClipName[call.filename]
    BY <2>2, <2>3, FileCarried
  <2>5. Decoded(GoStruct[call.type], Record[call]) = ev
    BY <1>2, <2>1, <2>3 DEF GoStruct, CStruct, Record
  <2> QED
    BY <1>2, <2>4, <2>5 DEF EventOf, Event, Story
<1>3. CASE call.type = "CONNECT"
  <2>1. call.family \in {AF_INET, AF_INET6}
    BY <1>3 DEF Traced
  <2>2. PICK values : values = handle_connect(call)
    OBVIOUS
  <2>3. /\ values.pid = call.pid /\ values.uid = call.uid /\ values.comm = call.comm
        /\ values.is_ipv6 = IF call.family = AF_INET THEN 0 ELSE 1
        /\ call.family = AF_INET => values.dst_addr = call.addr
        /\ call.family # AF_INET => values.ipv6_addr = call.addr
        /\ values.dst_port = call.port
    BY <2>2 DEF handle_connect
  <2>4. PICK ev : ev = Decoded(connectEvent, Laid(struct_connect_event, values))
    OBVIOUS
  <2>5. /\ ev.pid = values.pid /\ ev.uid = values.uid /\ ev.comm = values.comm
        /\ ev.is_ipv6 = values.is_ipv6 /\ ev.ipv6_addr = values.ipv6_addr
        /\ ev.dst_addr = values.dst_addr /\ ev.dst_port = values.dst_port
    BY <2>4, ConnectCarried
  <2>6. Decoded(GoStruct[call.type], Record[call]) = ev
    BY <1>3, <2>2, <2>4 DEF GoStruct, CStruct, Record
  <2>7. CASE call.family = AF_INET
    BY <1>3, <2>3, <2>5, <2>6, <2>7 DEF EventOf, Event, Story
  <2>8. CASE call.family # AF_INET
    BY <1>3, <2>3, <2>5, <2>6, <2>8 DEF EventOf, Event, Story
  <2> QED
    BY <2>7, <2>8
<1> QED
  BY <1>1, <1>2, <1>3, CallsByType DEF Labels

(* Whatever its arguments, an event names the process that made the call. *)
LEMMA EventNamesCaller ==
    ASSUME NEW call \in Calls
    PROVE  /\ EventOf(call).type = call.type
           /\ EventOf(call).pid \in Pids
           /\ EventOf(call).uid \in Uids
           /\ EventOf(call).comm \in Comms
<1>1. call.pid \in Pids /\ call.uid \in Uids /\ call.comm \in Comms
  BY CallsByType DEF Labels, ExecCall, OpenCall, ConnectCall
<1>2. PICK ev : ev = Decoded(GoStruct[call.type], Record[call])
  OBVIOUS
<1>3. ev.pid = call.pid /\ ev.uid = call.uid /\ ev.comm = call.comm
  <2>1. CASE call.type = "EXEC"
    <3>1. PICK values : values = handle_execve(call)
      OBVIOUS
    <3>2. ev = Decoded(execEvent, Laid(struct_event, values))
      BY <1>2, <2>1, <3>1 DEF GoStruct, CStruct, Record
    <3>3. ev.pid = values.pid /\ ev.uid = values.uid /\ ev.comm = values.comm
      BY <3>2, FileCarried
    <3> QED
      BY <3>1, <3>3 DEF handle_execve
  <2>2. CASE call.type = "OPEN"
    <3>1. PICK values : values = handle_openat(call)
      OBVIOUS
    <3>2. ev = Decoded(openEvent, Laid(struct_open_event, values))
      BY <1>2, <2>2, <3>1 DEF GoStruct, CStruct, Record
    <3>3. ev.pid = values.pid /\ ev.uid = values.uid /\ ev.comm = values.comm
      BY <3>2, FileCarried
    <3> QED
      BY <3>1, <3>3 DEF handle_openat
  <2>3. CASE call.type = "CONNECT"
    <3>1. PICK values : values = handle_connect(call)
      OBVIOUS
    <3>2. ev = Decoded(connectEvent, Laid(struct_connect_event, values))
      BY <1>2, <2>3, <3>1 DEF GoStruct, CStruct, Record
    <3>3. ev.pid = values.pid /\ ev.uid = values.uid /\ ev.comm = values.comm
      BY <3>2, ConnectCarried
    <3> QED
      BY <3>1, <3>3 DEF handle_connect
  <2> QED
    BY <2>1, <2>2, <2>3, CallsByType DEF Labels
<1> QED
  BY <1>1, <1>2, <1>3 DEF EventOf, Event

(* The inductive invariant. *)
Records == {Record[call] : call \in Calls}
Told == {EventOf(call) : call \in Calls}

Types ==
    /\ ring \in [Labels -> Seq(Records)]
    /\ reading \in [Labels -> BOOLEAN]
    /\ raised \in [Labels -> Seq(Calls)]
    /\ lost \in Seq(Calls)
    /\ handled \in [Labels -> Seq(Told)]

(* The calls of a probe are those handled, in their order, and those whose   *)
(* record waits in the buffer.                                               *)
Accounted(label) ==
    /\ Len(ring[label]) <= Capacity[label]
    /\ Len(handled[label]) + Len(ring[label]) = Len(raised[label])
    /\ \A i \in 1..Len(raised[label]) :
           raised[label][i].type = label /\ Traced(raised[label][i])
    /\ \A i \in 1..Len(handled[label]) :
           handled[label][i] = EventOf(raised[label][i])
    /\ \A i \in 1..Len(ring[label]) :
           ring[label][i] = Record[raised[label][Len(handled[label]) + i]]

IInv == Types /\ \A label \in Labels : Accounted(label)

LEMMA InitIInv == Init => IInv
<1> SUFFICES ASSUME Init PROVE IInv
  OBVIOUS
<1>1. \A label \in Labels : /\ ring[label] = <<>> /\ raised[label] = <<>>
                            /\ handled[label] = <<>>
  BY DEF Init
<1>2. Types
  BY DEF Init, Types
<1>3. ASSUME NEW label \in Labels PROVE Accounted(label)
  <2>1. Capacity[label] \in Nat
    BY ProbesAssumption
  <2>2. Len(<<>>) = 0 /\ 1..0 = {}
    OBVIOUS
  <2>3. /\ Len(ring[label]) = 0 /\ Len(raised[label]) = 0 /\ Len(handled[label]) = 0
    BY <1>1, <2>2
  <2> QED
    BY <2>1, <2>2, <2>3 DEF Accounted
<1> QED
  BY <1>2, <1>3 DEF IInv

(* Nothing but its own probe and reader touches what a label accounts for. *)
LEMMA Untouched ==
    ASSUME NEW label \in Labels, Accounted(label),
           ring'[label] = ring[label], raised'[label] = raised[label],
           handled'[label] = handled[label]
    PROVE  Accounted(label)'
  BY DEF Accounted

LEMMA Sums ==
    ASSUME NEW h \in Nat, NEW r \in Nat, NEW n \in Nat, h + r = n
    PROVE  /\ h <= n /\ h + (r + 1) = n + 1
           /\ r >= 1 => h + 1 \in 1..n
           /\ \A i \in 1..h : i \in 1..n
           /\ \A i \in 1..r : h + i \in 1..n
  OBVIOUS

LEMMA SubmitKeeps ==
    ASSUME IInv, NEW call \in Calls, Submit(call)
    PROVE  IInv'
<1> DEFINE label == call.type
           n == Len(raised[label])
           r == Len(ring[label])
<1>1. /\ label \in Labels /\ Traced(call)
      /\ ring \in [Labels -> Seq(Records)] /\ raised \in [Labels -> Seq(Calls)]
      /\ lost \in Seq(Calls) /\ handled \in [Labels -> Seq(Told)]
      /\ Capacity[label] \in Nat /\ reading \in [Labels -> BOOLEAN]
  BY CallsByType, ProbesAssumption DEF IInv, Types, Submit
<1>2. /\ r < Capacity[label]
      /\ ring' = [ring EXCEPT ![label] = Append(@, Record[call])]
      /\ raised' = [raised EXCEPT ![label] = Append(@, call)]
      /\ lost' = lost /\ handled' = handled /\ reading' = reading
  BY DEF Submit
<1>3. Record[call] \in Records
  BY DEF Records
<1>4. Types'
  BY <1>1, <1>2, <1>3 DEF Types
<1>5. ASSUME NEW other \in Labels, other # label PROVE Accounted(other)'
  <2>1. /\ ring'[other] = ring[other] /\ raised'[other] = raised[other]
        /\ handled'[other] = handled[other]
    BY <1>1, <1>2, <1>5
  <2> QED
    BY <1>5, <2>1, Untouched DEF IInv
<1>6. Accounted(label)'
  <2>1. Accounted(label)
    BY <1>1 DEF IInv
  <2>2. /\ ring[label] \in Seq(Records) /\ raised[label] \in Seq(Calls)
        /\ handled[label] \in Seq(Told) /\ n \in Nat /\ r \in Nat
        /\ Len(handled[label]) \in Nat
    BY <1>1
  <2>3. /\ ring'[label] = Append(ring[label], Record[call])
        /\ raised'[label] = Append(raised[label], call)
        /\ handled'[label] = handled[label]
    BY <1>1, <1>2
  <2>4. /\ Len(ring'[label]) = r + 1 /\ ring'[label][r + 1] = Record[call]
        /\ \A i \in 1..r : ring'[label][i] = ring[label][i]
    BY <1>3, <2>2, <2>3
  <2>5. /\ Len(raised'[label]) = n + 1 /\ raised'[label][n + 1] = call
        /\ \A i \in 1..n : raised'[label][i] = raised[label][i]
    BY <2>2, <2>3
  <2>6. /\ Len(handled[label]) + r = n
        /\ \A i \in 1..n : raised[label][i].type = label /\ Traced(raised[label][i])
        /\ \A i \in 1..Len(handled[label]) :
               handled[label][i] = EventOf(raised[label][i])
        /\ \A i \in 1..r :
               ring[label][i] = Record[raised[label][Len(handled[label]) + i]]
    BY <2>1 DEF Accounted
  <2> HIDE DEF n, r
  <2>7. /\ Len(ring'[label]) <= Capacity[label]
        /\ Len(handled'[label]) + Len(ring'[label]) = Len(raised'[label])
        /\ Len(handled[label]) + (r + 1) = n + 1
    <3>1. /\ r + 1 <= Capacity[label]
          /\ Len(handled[label]) + (r + 1) = n + 1
      <4>1. /\ r < Capacity[label] /\ Capacity[label] \in Nat /\ r \in Nat
            /\ Len(handled[label]) \in Nat /\ n \in Nat
        BY <1>1, <1>2, <2>2
      <4>2. Len(handled[label]) + r = n
        BY <2>6
      <4> QED
        BY <4>1, <4>2
    <3>2. /\ Len(ring'[label]) = r + 1 /\ Len(raised'[label]) = n + 1
          /\ handled'[label] = handled[label]
      BY <2>3, <2>4, <2>5
    <3> QED
      BY <3>1, <3>2
  <2>8. \A i \in 1..Len(raised'[label]) :
            raised'[label][i].type = label /\ Traced(raised'[label][i])
    <3> SUFFICES ASSUME NEW i \in 1..(n + 1)
                 PROVE  raised'[label][i].type = label /\ Traced(raised'[label][i])
      BY <2>5
    <3>1. CASE i = n + 1
      BY <1>1, <2>5, <3>1
    <3>2. CASE i \in 1..n
      BY <2>5, <2>6, <3>2
    <3> QED
      BY <2>2, <3>1, <3>2
  <2>9. \A i \in 1..Len(handled'[label]) :
            handled'[label][i] = EventOf(raised'[label][i])
    BY <2>2, <2>3, <2>5, <2>6
  <2>10. \A i \in 1..Len(ring'[label]) :
             ring'[label][i] = Record[raised'[label][Len(handled'[label]) + i]]
    <3> SUFFICES ASSUME NEW i \in 1..(r + 1)
                 PROVE  ring'[label][i] =
                            Record[raised'[label][Len(handled[label]) + i]]
      BY <2>3, <2>4
    <3>1. CASE i = r + 1
      <4>1. Len(handled[label]) + i = n + 1
        BY <2>7, <3>1
      <4> QED
        BY <2>4, <2>5, <3>1, <4>1
    <3>2. CASE i \in 1..r
      <4>0. /\ Len(handled[label]) + r = n
            /\ Len(handled[label]) \in Nat /\ r \in Nat
        BY <2>2, <2>6
      <4>1. Len(handled[label]) + i \in 1..n
        BY <3>2, <4>0
      <4> QED
        BY <2>4, <2>5, <2>6, <3>2, <4>1
    <3> QED
      BY <2>2, <3>1, <3>2
  <2> HIDE DEF label
  <2> QED
    BY <2>7, <2>8, <2>9, <2>10 DEF Accounted, Traced, EventOf
<1> QED
  BY <1>1, <1>4, <1>5, <1>6 DEF IInv

LEMMA LoseKeeps ==
    ASSUME IInv, NEW call \in Calls, Lose(call)
    PROVE  IInv'
<1>1. UNCHANGED <<ring, reading, raised, handled>> /\ lost' = Append(lost, call)
  BY DEF Lose
<1>2. Types'
  BY <1>1 DEF IInv, Types
<1>3. \A label \in Labels : Accounted(label)'
  BY <1>1, Untouched DEF IInv
<1> QED
  BY <1>2, <1>3 DEF IInv

LEMMA ReadRecordKeeps ==
    ASSUME IInv, NEW label \in Labels, ReadRecord(label)
    PROVE  IInv'
<1> DEFINE h == Len(handled[label])
           r == Len(ring[label])
           n == Len(raised[label])
           call == raised[label][h + 1]
<1>1. /\ ring \in [Labels -> Seq(Records)] /\ raised \in [Labels -> Seq(Calls)]
      /\ lost \in Seq(Calls) /\ handled \in [Labels -> Seq(Told)]
      /\ reading \in [Labels -> BOOLEAN]
      /\ Accounted(label) /\ Capacity[label] \in Nat
  BY ProbesAssumption DEF IInv, Types
<1>2. /\ ring[label] \in Seq(Records) /\ raised[label] \in Seq(Calls)
      /\ handled[label] \in Seq(Told) /\ h \in Nat /\ r \in Nat /\ n \in Nat
  BY <1>1
<1>3. /\ r <= Capacity[label] /\ h + r = n
      /\ \A i \in 1..n : raised[label][i].type = label /\ Traced(raised[label][i])
      /\ \A i \in 1..h : handled[label][i] = EventOf(raised[label][i])
      /\ \A i \in 1..r : ring[label][i] = Record[raised[label][h + i]]
  BY <1>1 DEF Accounted
<1>4. ring[label] # <<>> /\ r >= 1 /\ h + 1 \in 1..n
  <2>1. ring[label] # <<>>
    BY DEF ReadRecord
  <2>2. r >= 1
    BY <1>2, <2>1
  <2>3. h + r = n /\ h \in Nat /\ r \in Nat /\ n \in Nat
    BY <1>2, <1>3
  <2> HIDE DEF h, r, n
  <2> QED
    BY <2>1, <2>2, <2>3, Sums
<1>5. call \in Calls /\ call.type = label /\ Head(ring[label]) = Record[call]
  BY <1>2, <1>3, <1>4
<1>6. Record[call].size = SizeOf(CStruct[label])
  BY <1>5 DEF Record, Laid
<1>7. /\ ring' = [ring EXCEPT ![label] = Tail(@)]
      /\ handled' = [handled EXCEPT ![label] = Append(@, EventOf(call))]
      /\ raised' = raised /\ lost' = lost /\ reading' = reading
  <2>1. ~(Head(ring[label]).size < ReadSize(GoStruct[label]))
    BY <1>5, <1>6, SizesFit
  <2>2. EventOf(call) = Event(label, Decoded(GoStruct[label], Head(ring[label])))
    BY <1>5 DEF EventOf
  <2> QED
    BY <2>1, <2>2 DEF ReadRecord
<1>8. EventOf(call) \in Told
  BY <1>5 DEF Told
<1>9. Types'
  <2>1. Tail(ring[label]) \in Seq(Records)
    BY <1>2, <1>4
  <2>2. Append(handled[label], EventOf(call)) \in Seq(Told)
    BY <1>2, <1>8
  <2> HIDE DEF call
  <2> QED
    BY <1>1, <1>7, <2>1, <2>2 DEF Types
<1>10. ASSUME NEW other \in Labels, other # label PROVE Accounted(other)'
  <2>1. /\ ring'[other] = ring[other] /\ raised'[other] = raised[other]
        /\ handled'[other] = handled[other]
    BY <1>1, <1>7, <1>10
  <2> QED
    BY <1>10, <2>1, Untouched DEF IInv
<1>11. Accounted(label)'
  <2>1. /\ ring'[label] = Tail(ring[label])
        /\ handled'[label] = Append(handled[label], EventOf(call))
        /\ raised'[label] = raised[label]
    BY <1>1, <1>7
  <2>2. /\ Len(ring'[label]) = r - 1
        /\ \A i \in 1..(r - 1) : ring'[label][i] = ring[label][i + 1]
    BY <1>2, <1>4, <2>1
  <2>3. /\ Len(handled'[label]) = h + 1 /\ handled'[label][h + 1] = EventOf(call)
        /\ \A i \in 1..h : handled'[label][i] = handled[label][i]
    BY <1>2, <1>8, <2>1
  <2> HIDE DEF h, r
  <2>4. /\ Len(ring'[label]) <= Capacity[label]
        /\ Len(handled'[label]) + Len(ring'[label]) = n
    <3>1. r \in Nat /\ h \in Nat /\ n \in Nat /\ Capacity[label] \in Nat
      BY <1>1, <1>2
    <3>2. r <= Capacity[label] /\ h + r = n
      BY <1>3
    <3>3. Len(ring'[label]) = r - 1 /\ Len(handled'[label]) = h + 1
      BY <2>2, <2>3
    <3> HIDE DEF n
    <3> QED
      BY <3>1, <3>2, <3>3
  <2>5. ASSUME NEW i \in 1..(h + 1)
        PROVE  handled'[label][i] = EventOf(raised[label][i])
    <3>1. CASE i = h + 1
      BY <2>3, <3>1
    <3>2. CASE i \in 1..h
      BY <1>3, <2>3, <3>2
    <3> QED
      BY <1>2, <3>1, <3>2
  <2>6. ASSUME NEW i \in 1..(r - 1)
        PROVE  ring'[label][i] = Record[raised[label][(h + 1) + i]]
    <3>1. i + 1 \in 1..r /\ h + (i + 1) = (h + 1) + i
      BY <1>2
    <3>2. ring[label][i + 1] = Record[raised[label][h + (i + 1)]]
      BY <1>3, <3>1
    <3> QED
      BY <2>2, <3>1, <3>2
  <2>7. Len(raised'[label]) = n
    BY <2>1
  <2> QED
    BY <1>3, <2>1, <2>2, <2>3, <2>4, <2>5, <2>6, <2>7
    DEF Accounted, Traced, EventOf
<1> QED
  BY <1>9, <1>10, <1>11 DEF IInv

LEMMA ReaderReturnsKeeps ==
    ASSUME IInv, NEW label \in Labels, ReaderReturns(label)
    PROVE  IInv'
<1>1. /\ UNCHANGED <<ring, raised, lost, handled>>
      /\ reading' = [reading EXCEPT ![label] = FALSE]
  BY DEF ReaderReturns
<1>2. Types'
  BY <1>1 DEF IInv, Types
<1>3. \A other \in Labels : Accounted(other)'
  BY <1>1, Untouched DEF IInv
<1> QED
  BY <1>2, <1>3 DEF IInv

LEMMA NextIInv == IInv /\ [Next]_vars => IInv'
<1> SUFFICES ASSUME IInv, [Next]_vars PROVE IInv'
  OBVIOUS
<1>1. CASE UNCHANGED vars
  <2>1. UNCHANGED <<ring, reading, raised, lost, handled>>
    BY <1>1 DEF vars
  <2>2. Types'
    BY <2>1 DEF IInv, Types
  <2>3. \A label \in Labels : Accounted(label)'
    BY <2>1, Untouched DEF IInv
  <2> QED
    BY <2>2, <2>3 DEF IInv
<1> QED
  BY <1>1, SubmitKeeps, LoseKeeps, ReadRecordKeeps, ReaderReturnsKeeps
  DEF Next

(* A buffer never holds more than its capacity, and an event carries the     *)
(* label of its reader and a pid, a uid and a name in their places.          *)
THEOREM TypeCorrect == Spec => []TypeOK
<1>1. ASSUME IInv PROVE TypeOK
  <2>1. ASSUME NEW label \in Labels
        PROVE  /\ Len(ring[label]) \in 0..Capacity[label]
               /\ \A i \in 1..Len(handled[label]) :
                      /\ handled[label][i].type = label
                      /\ handled[label][i].pid \in Pids
                      /\ handled[label][i].uid \in Uids
                      /\ handled[label][i].comm \in Comms
    <3>1. /\ ring[label] \in Seq(Records) /\ Accounted(label)
          /\ handled[label] \in Seq(Told) /\ Capacity[label] \in Nat
      BY <1>1, ProbesAssumption DEF IInv, Types
    <3>2. Len(ring[label]) \in 0..Capacity[label]
      BY <3>1 DEF Accounted
    <3>3. /\ \A i \in 1..Len(handled[label]) :
                 handled[label][i] = EventOf(raised[label][i])
          /\ \A i \in 1..Len(raised[label]) : raised[label][i].type = label
          /\ Len(handled[label]) + Len(ring[label]) = Len(raised[label])
      BY <3>1 DEF Accounted
    <3>4. ASSUME NEW i \in 1..Len(handled[label])
          PROVE  /\ handled[label][i].type = label
                 /\ handled[label][i].pid \in Pids
                 /\ handled[label][i].uid \in Uids
                 /\ handled[label][i].comm \in Comms
      <4>1. /\ Len(handled[label]) \in Nat /\ Len(ring[label]) \in Nat
            /\ Len(raised[label]) \in Nat /\ raised[label] \in Seq(Calls)
        BY <1>1, <3>1 DEF IInv, Types
      <4>2. i \in 1..Len(raised[label])
        BY <3>3, <4>1, Sums
      <4>3. PICK call \in Calls : call = raised[label][i]
        BY <4>1, <4>2
      <4>4. handled[label][i] = EventOf(call) /\ call.type = label
        BY <3>3, <4>2, <4>3
      <4> QED
        BY <4>4, EventNamesCaller
    <3> QED
      BY <3>2, <3>4
  <2> QED
    BY <1>1, <2>1 DEF TypeOK, IInv, Types
<1> QED
  BY <1>1, InitIInv, NextIInv, PTL DEF Spec

(* Every event that reaches handleEvent tells what its call did, in the      *)
(* order of the calls, once each: the structures written by hand agree, the  *)
(* loops over the arguments stop in time, and only a full buffer or a reader *)
(* that has returned loses.                                                  *)
THEOREM StoriesAreTrue == Spec => []StoryIsTrue
<1>1. ASSUME IInv PROVE StoryIsTrue
  <2> SUFFICES ASSUME NEW label \in Labels
               PROVE  /\ Len(handled[label]) + Len(ring[label]) = Len(raised[label])
                      /\ \A i \in 1..Len(handled[label]) :
                             HasArgv(raised[label][i]) =>
                                 handled[label][i] = Story(raised[label][i])
    BY DEF StoryIsTrue
  <2>1. /\ Len(handled[label]) + Len(ring[label]) = Len(raised[label])
        /\ \A i \in 1..Len(raised[label]) : Traced(raised[label][i])
        /\ \A i \in 1..Len(handled[label]) :
               handled[label][i] = EventOf(raised[label][i])
    BY <1>1 DEF IInv, Accounted
  <2>2. /\ Len(handled[label]) \in Nat /\ Len(ring[label]) \in Nat
        /\ raised[label] \in Seq(Calls) /\ Len(raised[label]) \in Nat
    BY <1>1 DEF IInv, Types
  <2>3. ASSUME NEW i \in 1..Len(handled[label]), HasArgv(raised[label][i])
        PROVE  handled[label][i] = Story(raised[label][i])
    <3>1. i \in 1..Len(raised[label])
      BY <2>1, <2>2, Sums
    <3>2. raised[label][i] \in Calls /\ Traced(raised[label][i])
      BY <2>1, <2>2, <3>1
    <3> QED
      BY <2>1, <2>3, <3>2, EventIsStory
  <2> QED
    BY <2>1, <2>3
<1> QED
  BY <1>1, InitIInv, NextIInv, PTL DEF Spec
=============================================================================
