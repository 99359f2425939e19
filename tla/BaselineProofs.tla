--------------------------- MODULE BaselineProofs ----------------------------
(***************************************************************************)
(* For every set of events and tokens, every encoding and every fault: the  *)
(* store makes known only what was learned, and keeps what it saved unless  *)
(* a Save or a load goes wrong.                                             *)
(***************************************************************************)
EXTENDS Baseline, TLAPS

-----------------------------------------------------------------------------
(* Keys. *)

(* normalize maps a text to one of the same length. *)
LEMMA NormalizeType ==
    ASSUME NEW text \in Seq(Tokens)
    PROVE  /\ Normalize(text) \in Seq(Tokens)
           /\ Len(Normalize(text)) = Len(text)
           /\ \A i \in 1..Len(text) :
                  Normalize(text)[i] = IF text[i] \in Numbers THEN NUM ELSE text[i]
  BY BaselineAssumption DEF ConstantsOK, Normalize

(* So does the encoding, and encoding twice is encoding once. *)
LEMMA EncodeType ==
    ASSUME NEW key \in Seq(Tokens)
    PROVE  /\ Encode(key) \in Seq(Tokens)
           /\ Len(Encode(key)) = Len(key)
           /\ \A i \in 1..Len(key) : Encode(key)[i] = Encoded[key[i]]
  BY BaselineAssumption DEF ConstantsOK, Encode

LEMMA EncodeTwice ==
    ASSUME NEW key \in Seq(Tokens)
    PROVE  Encode(Encode(key)) = Encode(key)
<1>1. /\ Encode(key) \in Seq(Tokens) /\ Len(Encode(key)) = Len(key)
      /\ \A i \in 1..Len(key) : Encode(key)[i] = Encoded[key[i]]
  BY EncodeType
<1>2. /\ Encode(Encode(key)) \in Seq(Tokens)
      /\ Len(Encode(Encode(key))) = Len(key)
      /\ \A i \in 1..Len(key) : Encode(Encode(key))[i] = Encoded[Encoded[key[i]]]
  BY <1>1, EncodeType
<1>3. \A i \in 1..Len(key) : Encode(Encode(key))[i] = Encode(key)[i]
  BY <1>1, <1>2, BaselineAssumption DEF ConstantsOK
<1> QED
  BY <1>1, <1>2, <1>3

(* The text that makeKey joins, place by place. *)
IsJoin(key, type, comm, path) ==
    /\ key \in Seq(Tokens)
    /\ Len(key) = Len(comm) + Len(path) + 3
    /\ key[1] = type
    /\ key[2] = BAR
    /\ \A i \in 1..Len(comm) : key[i + 2] = comm[i]
    /\ key[Len(comm) + 3] = BAR
    /\ \A i \in 1..Len(path) : key[i + Len(comm) + 3] = path[i]

LEMMA JoinType ==
    ASSUME NEW type \in Tokens, NEW comm \in Seq(Tokens), NEW path \in Seq(Tokens)
    PROVE  IsJoin(Join(type, comm, path), type, comm, path)
<1>1. BAR \in Tokens
  BY BaselineAssumption DEF ConstantsOK
<1>2. PICK a \in Seq(Tokens) :
          /\ a = <<type, BAR>> \o comm
          /\ Len(a) = Len(comm) + 2 /\ a[1] = type /\ a[2] = BAR
          /\ \A i \in 1..Len(comm) : a[i + 2] = comm[i]
  <2>1. PICK bar \in Tokens : bar = BAR
    BY <1>1
  <2>2. /\ <<type, bar>> \o comm \in Seq(Tokens)
        /\ Len(<<type, bar>> \o comm) = Len(comm) + 2
        /\ (<<type, bar>> \o comm)[1] = type
        /\ (<<type, bar>> \o comm)[2] = bar
        /\ \A i \in 1..Len(comm) : (<<type, bar>> \o comm)[i + 2] = comm[i]
    OBVIOUS
  <2> QED
    BY <2>1, <2>2
<1>4. PICK b \in Seq(Tokens) : b = a \o <<BAR>>
  <2>1. PICK bar \in Tokens : bar = BAR
    BY <1>1
  <2>2. a \o <<bar>> \in Seq(Tokens)
    OBVIOUS
  <2> QED
    BY <2>1, <2>2
<1>5. /\ Len(b) = Len(a) + 1 /\ b[Len(a) + 1] = BAR
      /\ \A i \in 1..Len(a) : b[i] = a[i]
  BY <1>1, <1>4
<1>6. /\ b \o path \in Seq(Tokens) /\ Len(b \o path) = Len(b) + Len(path)
      /\ \A i \in 1..Len(b) : (b \o path)[i] = b[i]
      /\ \A i \in 1..Len(path) : (b \o path)[i + Len(b)] = path[i]
  OBVIOUS
<1>7. PICK m \in Nat : m = Len(comm)
  OBVIOUS
<1>8. PICK n \in Nat : n = Len(path)
  OBVIOUS
<1>9. Len(a) = m + 2 /\ Len(b) = m + 3
  BY <1>2, <1>5, <1>7
<1>10. PICK key \in Seq(Tokens) : key = b \o path
  BY <1>6
<1>11. /\ Len(key) = m + n + 3
       /\ key[1] = type /\ key[2] = BAR /\ key[m + 3] = BAR
       /\ \A i \in 1..m : key[i + 2] = comm[i]
  <2>1. Len(key) = m + n + 3 /\ \A i \in 1..(m + 3) : key[i] = b[i]
    BY <1>6, <1>8, <1>9, <1>10
  <2>2. b[m + 3] = BAR /\ \A i \in 1..(m + 2) : b[i] = a[i]
    BY <1>5, <1>9
  <2>3. \A i \in 1..(m + 2) : key[i] = a[i]
    BY <2>1, <2>2
  <2>4. key[1] = type /\ key[2] = BAR
    <3>1. 1 \in 1..(m + 2) /\ 2 \in 1..(m + 2)
      OBVIOUS
    <3>2. key[1] = a[1] /\ key[2] = a[2]
      BY <2>3, <3>1
    <3> QED
      BY <1>2, <3>2
  <2>5. \A i \in 1..m : key[i + 2] = comm[i]
    BY <1>2, <1>7, <2>3
  <2> QED
    BY <2>1, <2>2, <2>4, <2>5
<1>12. ASSUME NEW i \in 1..n PROVE key[i + m + 3] = path[i]
  <2>1. i + m + 3 = i + Len(b)
    BY <1>9
  <2> QED
    BY <1>6, <1>8, <1>10, <2>1
<1>13. Join(type, comm, path) = key
  BY <1>2, <1>4, <1>10 DEF Join
<1> QED
  BY <1>7, <1>8, <1>11, <1>12, <1>13 DEF IsJoin

(* A key is the joined text with the numbers of the detail replaced. *)
LEMMA MakeKeyType ==
    ASSUME NEW ev \in Events
    PROVE  /\ ev.type \in Labels /\ ev.type \in Tokens
           /\ ev.comm \in Seq(Tokens) /\ ev.detail \in Seq(Tokens)
           /\ MakeKey(ev) \in Seq(Tokens)
           /\ Len(MakeKey(ev)) = Len(ev.comm) + Len(ev.detail) + 3
           /\ MakeKey(ev)[1] = ev.type /\ MakeKey(ev)[2] = BAR
           /\ \A i \in 1..Len(ev.comm) : MakeKey(ev)[i + 2] = ev.comm[i]
           /\ MakeKey(ev)[Len(ev.comm) + 3] = BAR
           /\ \A i \in 1..Len(ev.detail) :
                  MakeKey(ev)[i + Len(ev.comm) + 3]
                      = IF ev.detail[i] \in Numbers THEN NUM ELSE ev.detail[i]
<1>1. /\ ev.type \in Labels /\ ev.type \in Tokens
      /\ ev.comm \in Seq(Tokens) /\ ev.detail \in Seq(Tokens)
  BY BaselineAssumption DEF ConstantsOK
<1>2. PICK text \in Seq(Tokens) :
          /\ text = Normalize(ev.detail) /\ Len(text) = Len(ev.detail)
          /\ \A i \in 1..Len(ev.detail) :
                 text[i] = IF ev.detail[i] \in Numbers THEN NUM ELSE ev.detail[i]
  BY <1>1, NormalizeType
<1>3. PICK type \in Tokens : type = ev.type
  BY <1>1
<1>4. PICK comm \in Seq(Tokens) : comm = ev.comm
  BY <1>1
<1>5. IsJoin(MakeKey(ev), type, comm, text)
  BY <1>2, <1>3, <1>4, JoinType DEF MakeKey
<1> QED
  BY <1>1, <1>2, <1>3, <1>4, <1>5 DEF IsJoin

(* Where the key and the joined text differ. *)
LEMMA KeyAndText ==
    ASSUME NEW ev \in Events
    PROVE  /\ Joined(ev) \in Seq(Tokens) /\ Len(Joined(ev)) = Len(MakeKey(ev))
           /\ \A i \in 1..Len(Joined(ev)) :
                  \/ MakeKey(ev)[i] = Joined(ev)[i]
                  \/ Joined(ev)[i] \in Numbers /\ MakeKey(ev)[i] = NUM
<1>1. /\ ev.type \in Tokens /\ ev.comm \in Seq(Tokens) /\ ev.detail \in Seq(Tokens)
      /\ MakeKey(ev) \in Seq(Tokens)
      /\ Len(MakeKey(ev)) = Len(ev.comm) + Len(ev.detail) + 3
      /\ MakeKey(ev)[1] = ev.type /\ MakeKey(ev)[2] = BAR
      /\ \A i \in 1..Len(ev.comm) : MakeKey(ev)[i + 2] = ev.comm[i]
      /\ MakeKey(ev)[Len(ev.comm) + 3] = BAR
      /\ \A i \in 1..Len(ev.detail) :
             MakeKey(ev)[i + Len(ev.comm) + 3]
                 = IF ev.detail[i] \in Numbers THEN NUM ELSE ev.detail[i]
  BY MakeKeyType
<1>2. /\ Joined(ev) \in Seq(Tokens)
      /\ Len(Joined(ev)) = Len(ev.comm) + Len(ev.detail) + 3
      /\ Joined(ev)[1] = ev.type /\ Joined(ev)[2] = BAR
      /\ \A i \in 1..Len(ev.comm) : Joined(ev)[i + 2] = ev.comm[i]
      /\ Joined(ev)[Len(ev.comm) + 3] = BAR
      /\ \A i \in 1..Len(ev.detail) :
             Joined(ev)[i + Len(ev.comm) + 3] = ev.detail[i]
  <2>1. IsJoin(Joined(ev), ev.type, ev.comm, ev.detail)
    BY <1>1, JoinType DEF Joined
  <2> QED
    BY <1>1, <2>1 DEF IsJoin
<1>3. PICK m \in Nat : m = Len(ev.comm)
  BY <1>1
<1>4. PICK n \in Nat : n = Len(ev.detail)
  BY <1>1
<1>5. ASSUME NEW i \in 1..Len(Joined(ev))
      PROVE  \/ MakeKey(ev)[i] = Joined(ev)[i]
             \/ Joined(ev)[i] \in Numbers /\ MakeKey(ev)[i] = NUM
  <2>1. i \in 1..(m + n + 3)
    BY <1>2, <1>3, <1>4
  <2>2. \/ i = 1 \/ i = 2 \/ i = m + 3
        \/ \E j \in 1..m : i = j + 2
        \/ \E j \in 1..n : i = j + m + 3
    <3>1. CASE i > 2 /\ i < m + 3
      <4>1. i - 2 \in 1..m /\ i = (i - 2) + 2
        BY <2>1, <3>1
      <4> QED
        BY <4>1
    <3>2. CASE i > m + 3
      <4>1. i - m - 3 \in 1..n /\ i = (i - m - 3) + m + 3
        BY <2>1, <3>2
      <4> QED
        BY <4>1
    <3> QED
      BY <2>1, <3>1, <3>2
  <2>3. ASSUME NEW j \in 1..m, i = j + 2
        PROVE  MakeKey(ev)[i] = Joined(ev)[i]
    BY <2>3, <1>1, <1>2, <1>3
  <2>4. ASSUME NEW j \in 1..n, i = j + m + 3
        PROVE  \/ MakeKey(ev)[i] = Joined(ev)[i]
               \/ Joined(ev)[i] \in Numbers /\ MakeKey(ev)[i] = NUM
    BY <2>4, <1>1, <1>2, <1>3, <1>4
  <2> QED
    BY <2>2, <2>3, <2>4, <1>1, <1>2, <1>3
<1> QED
  BY <1>1, <1>2, <1>5

(* The keys that can occur are closed under encoding. *)
LEMMA AllKeysClosed ==
    ASSUME NEW key \in AllKeys
    PROVE  key \in Seq(Tokens) /\ Encode(key) \in AllKeys
<1>1. \A k \in Keys : k \in Seq(Tokens)
  BY MakeKeyType DEF Keys
<1>2. CASE key \in Keys
  BY <1>1, <1>2 DEF AllKeys
<1>3. ASSUME NEW k \in Keys, key = Encode(k)
      PROVE  key \in Seq(Tokens) /\ Encode(key) \in AllKeys
  BY <1>1, <1>3, EncodeType, EncodeTwice DEF AllKeys
<1> QED
  BY <1>2, <1>3 DEF AllKeys

(* A text as it is in memory or as it comes back from the file, in one form. *)
Image(enc, text) == [i \in DOMAIN text |-> enc[text[i]]]

AsItIs == [t \in Tokens |-> t]

LEMMA ImageType ==
    ASSUME NEW enc \in [Tokens -> Tokens], NEW text \in Seq(Tokens)
    PROVE  /\ Image(enc, text) \in Seq(Tokens)
           /\ Len(Image(enc, text)) = Len(text)
           /\ \A i \in 1..Len(text) : Image(enc, text)[i] = enc[text[i]]
  BY DEF Image

LEMMA FormsAreImages ==
    ASSUME NEW text \in Seq(Tokens)
    PROVE  Forms(text) = {Image(AsItIs, text), Image(Encoded, text)}
<1>1. AsItIs \in [Tokens -> Tokens]
  BY DEF AsItIs
<1>2. /\ Image(AsItIs, text) \in Seq(Tokens) /\ Len(Image(AsItIs, text)) = Len(text)
      /\ \A i \in 1..Len(text) : Image(AsItIs, text)[i] = AsItIs[text[i]]
  BY <1>1, ImageType
<1>3. \A i \in 1..Len(text) : Image(AsItIs, text)[i] = text[i]
  BY <1>2 DEF AsItIs
<1>4. Image(AsItIs, text) = text
  BY <1>2, <1>3
<1>5. Image(Encoded, text) = Encode(text)
  BY DEF Image, Encode
<1> QED
  BY <1>4, <1>5 DEF Forms

(* What both of them keep. *)
Keeps(enc) ==
    /\ enc \in [Tokens -> Tokens]
    /\ \A t \in Tokens :
           /\ t \in Labels \cup Numbers \cup {NUM, BAR} => enc[t] = t
           /\ enc[t] \in Numbers => t \in Numbers
           /\ enc[t] = BAR => t = BAR

LEMMA BothKeep == Keeps(AsItIs) /\ Keeps(Encoded)
  BY BaselineAssumption DEF ConstantsOK, Keeps, AsItIs

(* Two tokens whose normalised forms are the same. *)
LEMMA NumbersApart ==
    ASSUME NEW enc, Keeps(enc), NEW t \in Tokens, NEW u \in Tokens,
           NEW k \in Tokens, NEW h \in Tokens, h = enc[k],
           k = t \/ (t \in Numbers /\ k = NUM),
           h = u \/ (u \in Numbers /\ h = NUM)
    PROVE  enc[t] = u \/ {enc[t], u} \subseteq Numbers \cup {NUM}
<1>1. NUM \in Tokens /\ enc[NUM] = NUM
  BY BaselineAssumption DEF ConstantsOK, Keeps
<1>2. t \in Numbers => enc[t] = t
  BY DEF Keeps
<1> QED
  BY <1>1, <1>2

(* Keys that are the same, but for what the file did to one of them, come    *)
(* from texts that differ in numbers at most.                                *)
LEMMA SameKeySameText ==
    ASSUME NEW ev \in Events, NEW l \in Events, NEW enc, Keeps(enc),
           MakeKey(ev) = Image(enc, MakeKey(l))
    PROVE  /\ l.type = ev.type
           /\ SameButNumbers(Image(enc, Joined(l)), Joined(ev))
<1>0. enc \in [Tokens -> Tokens]
  BY DEF Keeps
<1>1. /\ MakeKey(l) \in Seq(Tokens) /\ MakeKey(l)[1] = l.type
      /\ l.type \in Labels /\ l.type \in Tokens
      /\ l.comm \in Seq(Tokens) /\ l.detail \in Seq(Tokens)
      /\ Len(MakeKey(l)) = Len(l.comm) + Len(l.detail) + 3
  BY MakeKeyType
<1>2. MakeKey(ev) \in Seq(Tokens) /\ MakeKey(ev)[1] = ev.type
  BY MakeKeyType
<1>3. /\ Joined(l) \in Seq(Tokens) /\ Len(Joined(l)) = Len(MakeKey(l))
      /\ \A i \in 1..Len(Joined(l)) :
             \/ MakeKey(l)[i] = Joined(l)[i]
             \/ Joined(l)[i] \in Numbers /\ MakeKey(l)[i] = NUM
  BY KeyAndText
<1>4. /\ Joined(ev) \in Seq(Tokens) /\ Len(Joined(ev)) = Len(MakeKey(ev))
      /\ \A i \in 1..Len(Joined(ev)) :
             \/ MakeKey(ev)[i] = Joined(ev)[i]
             \/ Joined(ev)[i] \in Numbers /\ MakeKey(ev)[i] = NUM
  BY KeyAndText
<1>5. /\ Len(MakeKey(ev)) = Len(MakeKey(l))
      /\ \A i \in 1..Len(MakeKey(l)) : MakeKey(ev)[i] = enc[MakeKey(l)[i]]
  <2>1. PICK key \in Seq(Tokens) : key = MakeKey(l)
    BY <1>1
  <2>2. /\ Len(Image(enc, key)) = Len(key)
        /\ \A i \in 1..Len(key) : Image(enc, key)[i] = enc[key[i]]
    BY <1>0, ImageType
  <2> QED
    BY <2>1, <2>2
<1>6. l.type = ev.type
  <2>1. 1 \in 1..Len(MakeKey(l))
    <3>1. PICK m \in Nat : m = Len(l.comm)
      BY <1>1
    <3>2. PICK n \in Nat : n = Len(l.detail)
      BY <1>1
    <3>3. Len(MakeKey(l)) = m + n + 3
      BY <1>1, <3>1, <3>2
    <3> QED
      BY <3>3
  <2>2. ev.type = enc[l.type]
    BY <1>1, <1>2, <1>5, <2>1
  <2> QED
    BY <1>1, <2>2 DEF Keeps
<1>7. /\ Len(Image(enc, Joined(l))) = Len(Joined(l))
      /\ \A i \in 1..Len(Joined(l)) : Image(enc, Joined(l))[i] = enc[Joined(l)[i]]
  BY <1>0, <1>3, ImageType
<1>8. ASSUME NEW i \in 1..Len(Joined(l))
      PROVE  \/ Image(enc, Joined(l))[i] = Joined(ev)[i]
             \/ {Image(enc, Joined(l))[i], Joined(ev)[i]} \subseteq Numbers \cup {NUM}
  <2>1. PICK t \in Tokens : t = Joined(l)[i]
    BY <1>3
  <2>2. PICK u \in Tokens : u = Joined(ev)[i]
    <3>1. i \in 1..Len(Joined(ev))
      BY <1>3, <1>4, <1>5
    <3> QED
      BY <1>4, <3>1
  <2>3. PICK k \in Tokens : k = MakeKey(l)[i]
    <3>1. PICK key \in Seq(Tokens) : key = MakeKey(l)
      BY <1>1
    <3>2. key[i] \in Tokens
      BY <1>3, <3>1
    <3> QED
      BY <3>1, <3>2
  <2>4. PICK h \in Tokens : h = MakeKey(ev)[i]
    <3>1. i \in 1..Len(MakeKey(ev))
      BY <1>3, <1>5
    <3> QED
      BY <1>2, <3>1
  <2>5. /\ h = enc[k] /\ (k = t \/ (t \in Numbers /\ k = NUM))
        /\ h = u \/ (u \in Numbers /\ h = NUM)
    BY <1>3, <1>4, <1>5, <2>1, <2>2, <2>3, <2>4
  <2>6. enc[t] = u \/ {enc[t], u} \subseteq Numbers \cup {NUM}
    BY <2>5, NumbersApart
  <2> QED
    BY <1>7, <2>1, <2>2, <2>6
<1>9. SameButNumbers(Image(enc, Joined(l)), Joined(ev))
  BY <1>3, <1>4, <1>5, <1>7, <1>8 DEF SameButNumbers
<1> QED
  BY <1>6, <1>9

(* If no name holds a "|", the second "|" of the key is where the name ends, *)
(* so that names and details agree each.                                     *)
LEMMA SameKeySameFields ==
    ASSUME NEW ev \in Events, NEW l \in Events, NEW enc, Keeps(enc),
           MakeKey(ev) = Image(enc, MakeKey(l)),
           Unbarred(l.comm), Unbarred(ev.comm)
    PROVE  /\ ev.comm = Image(enc, l.comm)
           /\ SameButNumbers(Image(enc, l.detail), ev.detail)
<1>0. enc \in [Tokens -> Tokens] /\ BAR \in Tokens /\ NUM \in Tokens /\ enc[BAR] = BAR
  BY BaselineAssumption DEF ConstantsOK, Keeps
<1>1. PICK key \in Seq(Tokens) : key = MakeKey(l)
  BY MakeKeyType
<1>2. PICK other \in Seq(Tokens) : other = MakeKey(ev)
  BY MakeKeyType
<1>3. /\ l.comm \in Seq(Tokens) /\ l.detail \in Seq(Tokens)
      /\ ev.comm \in Seq(Tokens) /\ ev.detail \in Seq(Tokens)
  BY MakeKeyType
<1>4. PICK m \in Nat : m = Len(l.comm)
  BY <1>3
<1>5. PICK n \in Nat : n = Len(ev.comm)
  BY <1>3
<1>6. PICK p \in Nat : p = Len(l.detail)
  BY <1>3
<1>7. PICK q \in Nat : q = Len(ev.detail)
  BY <1>3
<1>8. /\ Len(key) = m + p + 3 /\ key[m + 3] = BAR
      /\ \A i \in 1..m : key[i + 2] = l.comm[i]
      /\ \A i \in 1..p :
             key[i + m + 3] = IF l.detail[i] \in Numbers THEN NUM ELSE l.detail[i]
  BY <1>1, <1>4, <1>6, MakeKeyType
<1>9. /\ Len(other) = n + q + 3 /\ other[n + 3] = BAR
      /\ \A i \in 1..n : other[i + 2] = ev.comm[i]
      /\ \A i \in 1..q :
             other[i + n + 3] = IF ev.detail[i] \in Numbers THEN NUM ELSE ev.detail[i]
  BY <1>2, <1>5, <1>7, MakeKeyType
<1>10. /\ Len(other) = Len(key)
       /\ \A i \in 1..Len(key) : other[i] = enc[key[i]]
  BY <1>0, <1>1, <1>2, ImageType
<1>11. ~(n < m)
  <2> SUFFICES ASSUME n < m PROVE FALSE
    OBVIOUS
  <2>1. n + 1 \in 1..m /\ (n + 1) + 2 = n + 3 /\ n + 3 \in 1..Len(key)
    BY <1>8
  <2>2. key[n + 3] = l.comm[n + 1] /\ l.comm[n + 1] \in Tokens
    BY <1>3, <1>4, <1>8, <2>1
  <2>3. enc[l.comm[n + 1]] = BAR
    BY <1>9, <1>10, <2>1, <2>2
  <2>4. l.comm[n + 1] = BAR
    BY <2>2, <2>3 DEF Keeps
  <2> QED
    BY <1>4, <2>1, <2>4 DEF Unbarred
<1>12. ~(m < n)
  <2> SUFFICES ASSUME m < n PROVE FALSE
    OBVIOUS
  <2>1. m + 1 \in 1..n /\ (m + 1) + 2 = m + 3 /\ m + 3 \in 1..Len(key)
    BY <1>8
  <2>2. ev.comm[m + 1] = BAR
    BY <1>0, <1>8, <1>9, <1>10, <2>1
  <2> QED
    BY <1>5, <2>1, <2>2 DEF Unbarred
<1>13. n = m /\ p = q
  <2>1. n = m
    BY <1>11, <1>12
  <2> QED
    BY <2>1, <1>8, <1>9, <1>10
<1>14. ev.comm = Image(enc, l.comm)
  <2>1. /\ Image(enc, l.comm) \in Seq(Tokens) /\ Len(Image(enc, l.comm)) = m
        /\ \A i \in 1..m : Image(enc, l.comm)[i] = enc[l.comm[i]]
    BY <1>0, <1>3, <1>4, ImageType
  <2>2. ASSUME NEW i \in 1..m PROVE ev.comm[i] = Image(enc, l.comm)[i]
    <3>1. i + 2 \in 1..Len(key)
      BY <1>8
    <3>2. key[i + 2] = l.comm[i] /\ other[i + 2] = ev.comm[i]
      BY <1>8, <1>9, <1>13
    <3> QED
      BY <1>10, <2>1, <3>1, <3>2
  <2>3. Len(ev.comm) = Len(Image(enc, l.comm))
    BY <1>5, <1>13, <2>1
  <2>4. \A i \in 1..Len(ev.comm) : ev.comm[i] = Image(enc, l.comm)[i]
    BY <2>1, <2>2, <2>3
  <2> QED
    BY <1>3, <2>1, <2>3, <2>4
<1>15. SameButNumbers(Image(enc, l.detail), ev.detail)
  <2>1. /\ Len(Image(enc, l.detail)) = p
        /\ \A i \in 1..p : Image(enc, l.detail)[i] = enc[l.detail[i]]
    BY <1>0, <1>3, <1>6, ImageType
  <2>2. ASSUME NEW i \in 1..p
        PROVE  \/ Image(enc, l.detail)[i] = ev.detail[i]
               \/ {Image(enc, l.detail)[i], ev.detail[i]} \subseteq Numbers \cup {NUM}
    <3>1. PICK j \in 1..Len(key) : j = i + m + 3
      BY <1>8
    <3>2. PICK t \in Tokens : t = l.detail[i]
      BY <1>3, <1>6
    <3>3. PICK u \in Tokens : u = ev.detail[i]
      BY <1>3, <1>7, <1>13
    <3>4. PICK k \in Tokens : k = IF t \in Numbers THEN NUM ELSE t
      BY <1>0
    <3>5. PICK h \in Tokens : h = IF u \in Numbers THEN NUM ELSE u
      BY <1>0
    <3>6. key[j] = k /\ other[j] = h
      BY <1>8, <1>9, <1>13, <3>1, <3>2, <3>3, <3>4, <3>5
    <3>7. /\ h = enc[k] /\ (k = t \/ (t \in Numbers /\ k = NUM))
          /\ h = u \/ (u \in Numbers /\ h = NUM)
      BY <1>10, <3>1, <3>4, <3>5, <3>6
    <3>8. enc[t] = u \/ {enc[t], u} \subseteq Numbers \cup {NUM}
      BY <3>7, NumbersApart
    <3> QED
      BY <2>1, <3>2, <3>3, <3>8
  <2> QED
    BY <1>7, <1>13, <2>1, <2>2 DEF SameButNumbers
<1> QED
  BY <1>14, <1>15

(* Events with the same key, or one that the file made the same, are alike   *)
(* as far as the baseline promises.                                          *)
LEMMA SameKeyIsAlike ==
    ASSUME NEW ev \in Events, NEW l \in Events, MakeKey(ev) \in Forms(MakeKey(l))
    PROVE  Alike(l, ev)
<1>1. /\ MakeKey(l) \in Seq(Tokens) /\ l.comm \in Seq(Tokens)
      /\ l.detail \in Seq(Tokens)
  BY MakeKeyType
<1>2. Joined(l) \in Seq(Tokens)
  BY KeyAndText
<1>3. PICK enc \in {AsItIs, Encoded} : MakeKey(ev) = Image(enc, MakeKey(l))
  BY <1>1, FormsAreImages
<1>4. Keeps(enc)
  BY <1>3, BothKeep
<1>5. /\ Image(enc, Joined(l)) \in Forms(Joined(l))
      /\ Image(enc, l.comm) \in Forms(l.comm)
      /\ Image(enc, l.detail) \in Forms(l.detail)
  BY <1>1, <1>2, <1>3, FormsAreImages
<1>6. l.type = ev.type /\ SameButNumbers(Image(enc, Joined(l)), Joined(ev))
  BY <1>3, <1>4, SameKeySameText
<1>7. ASSUME Unbarred(l.comm), Unbarred(ev.comm)
      PROVE  /\ ev.comm = Image(enc, l.comm)
             /\ SameButNumbers(Image(enc, l.detail), ev.detail)
  BY <1>3, <1>4, <1>7, SameKeySameFields
<1> QED
  BY <1>5, <1>6, <1>7 DEF Alike

-----------------------------------------------------------------------------
(* The inductive invariant. *)

(* key was learned, or is what the file made of a key that was. *)
WasLearned(key) == \E l \in learned : key \in Forms(MakeKey(l))

AllLearned == \A key \in known \cup file.keys : WasLearned(key)

(* As long as nothing went wrong, the file holds what was saved last unless  *)
(* it is being written.                                                      *)
SavedOnFile ==
    clean /\ ~saving /\ saved # {} =>
        file.whole /\ \A key \in saved : Encode(key) \in file.keys

IInv ==
    /\ TypeOK
    /\ saving => up
    /\ AllLearned
    /\ SkippedWasLearned
    /\ SavedOnFile
    /\ SavedSurvives

LEMMA InitIInv == Init => IInv
<1> SUFFICES ASSUME Init PROVE IInv
  OBVIOUS
<1> USE DEF Init, NoFile
<1>1. TypeOK
  BY DEF TypeOK, Modes
<1> QED
  BY <1>1 DEF IInv, AllLearned, SkippedWasLearned, SavedOnFile, SavedSurvives,
              SavedStaysKnown

(* Type correctness, action by action. *)
LEMMA NextTypeOK ==
    ASSUME TypeOK, [Next]_vars
    PROVE  TypeOK'
<1> USE DEF TypeOK
<1>1. ASSUME NEW label \in Labels, NEW ev \in Events, LookUp(label, ev)
      PROVE  TypeOK'
  BY <1>1 DEF LookUp
<1>2. ASSUME NEW label \in Labels, Learn(label)
      PROVE  TypeOK'
  <2>1. {MakeKey(ev) : ev \in looked[label]} \subseteq AllKeys
    BY DEF Keys, AllKeys
  <2> QED
    BY <1>2, <2>1 DEF Learn
<1>3. ASSUME NEW ev \in Events, Skip(ev)
      PROVE  TypeOK'
  BY <1>3 DEF Skip
<1>4. CASE SaveOpen
  BY <1>4 DEF SaveOpen, NoFile
<1>5. CASE SaveWrite
  <2>1. {Encode(k) : k \in known} \subseteq AllKeys
    BY AllKeysClosed
  <2>2. Written(known) \in [whole : BOOLEAN, keys : SUBSET AllKeys]
    BY <2>1 DEF Written
  <2> QED
    BY <1>5, <2>2 DEF SaveWrite
<1>6. CASE SaveFails
  BY <1>6 DEF SaveFails
<1>7. CASE Exit
  BY <1>7 DEF Exit
<1>8. ASSUME NEW m \in Modes, NewStore(m)
      PROVE  TypeOK'
  BY <1>8 DEF NewStore, Loaded
<1>9. CASE UNCHANGED vars
  BY <1>9 DEF vars
<1> QED
  BY <1>1, <1>2, <1>3, <1>4, <1>5, <1>6, <1>7, <1>8, <1>9 DEF Next

(* Nothing becomes known, or passes unseen, that was not learned. *)
LEMMA NextLearned ==
    ASSUME IInv, [Next]_vars
    PROVE  AllLearned' /\ SkippedWasLearned'
<1>0. TypeOK /\ AllLearned /\ SkippedWasLearned
  BY DEF IInv
<1>1. ASSUME learned \subseteq learned',
             \A key \in (known \cup file.keys)' :
                 key \in known \cup file.keys \/ WasLearned(key)'
      PROVE  AllLearned'
  <2>1. ASSUME NEW key, WasLearned(key) PROVE WasLearned(key)'
    BY <1>1, <2>1 DEF WasLearned
  <2> QED
    BY <1>0, <1>1, <2>1 DEF AllLearned
<1>2. ASSUME learned \subseteq learned', skipped' = skipped
      PROVE  SkippedWasLearned'
  BY <1>0, <1>2 DEF SkippedWasLearned
<1>3. ASSUME known' = known, file' = file, learned' = learned, skipped' = skipped
      PROVE  AllLearned' /\ SkippedWasLearned'
  BY <1>1, <1>2, <1>3
<1>4. ASSUME NEW label \in Labels, NEW ev \in Events, LookUp(label, ev)
      PROVE  AllLearned' /\ SkippedWasLearned'
  BY <1>3, <1>4 DEF LookUp
<1>5. ASSUME NEW label \in Labels, Learn(label)
      PROVE  AllLearned' /\ SkippedWasLearned'
  <2>1. /\ known' = known \cup {MakeKey(ev) : ev \in looked[label]}
        /\ learned' = learned \cup looked[label]
        /\ file' = file /\ skipped' = skipped
    BY <1>5 DEF Learn
  <2>2. \A ev \in looked[label] : WasLearned(MakeKey(ev))'
    BY <2>1 DEF WasLearned, Forms
  <2> QED
    BY <1>1, <1>2, <2>1, <2>2
<1>6. ASSUME NEW ev \in Events, Skip(ev)
      PROVE  AllLearned' /\ SkippedWasLearned'
  <2>1. /\ MakeKey(ev) \in known /\ skipped' = skipped \cup {ev}
        /\ known' = known /\ file' = file /\ learned' = learned
    BY <1>6 DEF Skip
  <2>2. PICK l \in learned : MakeKey(ev) \in Forms(MakeKey(l))
    BY <1>0, <2>1 DEF AllLearned, WasLearned
  <2>3. l \in Events
    BY <1>0 DEF TypeOK
  <2>4. Alike(l, ev)
    BY <2>2, <2>3, SameKeyIsAlike
  <2>5. SkippedWasLearned'
    BY <1>0, <2>1, <2>4 DEF SkippedWasLearned
  <2> QED
    BY <1>1, <2>1, <2>5
<1>7. CASE SaveOpen
  BY <1>1, <1>2, <1>7 DEF SaveOpen, NoFile
<1>8. CASE SaveWrite
  <2>1. /\ file'.keys = {Encode(k) : k \in known} /\ known' = known
        /\ learned' = learned /\ skipped' = skipped
    BY <1>8 DEF SaveWrite, Written
  <2>2. ASSUME NEW k \in known PROVE WasLearned(Encode(k))'
    <3>1. PICK l \in learned : k \in Forms(MakeKey(l))
      BY <1>0 DEF AllLearned, WasLearned
    <3>2. MakeKey(l) \in Seq(Tokens)
      BY <1>0, MakeKeyType DEF TypeOK
    <3>3. Encode(k) \in Forms(MakeKey(l))
      BY <3>1, <3>2, EncodeTwice DEF Forms
    <3> QED
      BY <2>1, <3>3 DEF WasLearned
  <2> QED
    BY <1>1, <1>2, <2>1, <2>2
<1>9. CASE SaveFails
  BY <1>3, <1>9 DEF SaveFails
<1>10. CASE Exit
  BY <1>1, <1>2, <1>10 DEF Exit
<1>11. ASSUME NEW m \in Modes, NewStore(m)
       PROVE  AllLearned' /\ SkippedWasLearned'
  BY <1>1, <1>2, <1>11 DEF NewStore, Loaded
<1>12. CASE UNCHANGED vars
  BY <1>3, <1>12 DEF vars
<1> QED
  BY <1>4, <1>5, <1>6, <1>7, <1>8, <1>9, <1>10, <1>11, <1>12 DEF Next

(* What was saved stays on file, and known, until something goes wrong. *)
LEMMA NextSaved ==
    ASSUME IInv, [Next]_vars
    PROVE  (saving => up)' /\ SavedOnFile' /\ SavedSurvives'
<1>0. /\ saving => up
      /\ SavedOnFile /\ SavedSurvives /\ TypeOK
  BY DEF IInv
<1> USE DEF SavedOnFile, SavedSurvives, SavedStaysKnown, StillKnown, Encode
<1>1. ASSUME NEW label \in Labels, NEW ev \in Events, LookUp(label, ev)
      PROVE  (saving => up)' /\ SavedOnFile' /\ SavedSurvives'
  BY <1>0, <1>1 DEF LookUp
<1>2. ASSUME NEW label \in Labels, Learn(label)
      PROVE  (saving => up)' /\ SavedOnFile' /\ SavedSurvives'
  BY <1>0, <1>2 DEF Learn
<1>3. ASSUME NEW ev \in Events, Skip(ev)
      PROVE  (saving => up)' /\ SavedOnFile' /\ SavedSurvives'
  BY <1>0, <1>3 DEF Skip
<1>4. CASE SaveOpen
  BY <1>0, <1>4 DEF SaveOpen
<1>5. CASE SaveWrite
  BY <1>0, <1>5 DEF SaveWrite, Written
<1>6. CASE SaveFails
  BY <1>0, <1>6 DEF SaveFails
<1>7. CASE Exit
  BY <1>0, <1>7 DEF Exit
<1>8. ASSUME NEW m \in Modes, NewStore(m)
      PROVE  (saving => up)' /\ SavedOnFile' /\ SavedSurvives'
  BY <1>0, <1>8 DEF NewStore, Loaded
<1>9. CASE UNCHANGED vars
  BY <1>0, <1>9 DEF vars
<1> QED
  BY <1>1, <1>2, <1>3, <1>4, <1>5, <1>6, <1>7, <1>8, <1>9 DEF Next

LEMMA NextIInv == IInv /\ [Next]_vars => IInv'
<1> SUFFICES ASSUME IInv, [Next]_vars PROVE IInv'
  OBVIOUS
<1>1. TypeOK'
  BY NextTypeOK DEF IInv
<1> QED
  BY <1>1, NextLearned, NextSaved DEF IInv

(* The inductive invariant holds throughout. *)
LEMMA Invariance == Spec => []IInv
  BY InitIInv, NextIInv, PTL DEF Spec

-----------------------------------------------------------------------------
(* The state of the store and its file stays well typed, whatever fails: no  *)
(* key is in it that is not made of an event or of the file's copy of one.   *)
THEOREM TypeCorrect == Spec => []TypeOK
<1>1. IInv => TypeOK
  BY DEF IInv
<1> QED
  BY <1>1, Invariance, PTL

(* Filter mode ignores an event only if one was learned that has its type    *)
(* and, but for numbers, its text, and also its process name and detail each *)
(* unless a name holds a "|", whatever file, lives and faults lie between    *)
(* the two.                                                                  *)
THEOREM OnlyLearnedIsSkipped == Spec => []SkippedWasLearned
<1>1. IInv => SkippedWasLearned
  BY DEF IInv
<1> QED
  BY <1>1, Invariance, PTL

(* A running agent knows at least what the last successful Save wrote, over  *)
(* any number of restarts, until a Save is cut short or fails or a load      *)
(* does.                                                                     *)
THEOREM SavedIsKept == Spec => []SavedSurvives
<1>1. IInv => SavedSurvives
  BY DEF IInv
<1> QED
  BY <1>1, Invariance, PTL
=============================================================================
