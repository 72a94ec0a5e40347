------------------------- MODULE HybridCryptoProofs -------------------------
(***************************************************************************)
(* Proofs about HybridCrypto for keys, IVs, tags and bodies of any length. *)
(*                                                                         *)
(* The packet: the parts are placed by their lengths alone, and so cutting *)
(* finds them in exactly the bytes that were packed (SlicesOfPack); base64 *)
(* comes back to the byte, whatever is left for the last group             *)
(* (RoundTrip).  The calls: the contexts that are open before a call are a *)
(* function of the operation and the call's place in it (OpenAt), and each *)
(* call, if it fails and is no allocation, gives back just these           *)
(* (Disciplined).                                                          *)
(***************************************************************************)
EXTENDS HybridCrypto, SequenceTheorems, WellFoundedInduction, TLAPS

Names == {"key", "iv", "body", "tag", "junk"}
Byte == Names \X Nat

-----------------------------------------------------------------------------
(***************************************************************************)
(* Packing and taking apart.                                               *)
(***************************************************************************)
LEMMA PartBytes ==
  ASSUME NEW name \in Names, NEW n \in Nat
  PROVE  /\ Part(name, n) \in Seq(Byte) /\ Len(Part(name, n)) = n
         /\ \A i \in 1..n : Part(name, n)[i] = <<name, i>>
<1>1. \A i \in 1..n : <<name, i>> \in Byte
  BY DEF Byte
<1>2. Part(name, n) \in [1..n -> Byte]
  BY <1>1 DEF Part
<1>3. Part(name, n) \in Seq(Byte)
  BY <1>2
<1>4. Len(Part(name, n)) = n
  BY <1>2
<1> QED
  BY <1>3, <1>4 DEF Part

\* A part that comes after other bytes.
LEMMA ThenPart ==
  ASSUME NEW s \in Seq(Byte), NEW name \in Names, NEW n \in Nat
  PROVE  LET both == s \o Part(name, n) IN
         /\ both \in Seq(Byte) /\ Len(both) = Len(s) + n
         /\ \A i \in 1..Len(s) : both[i] = s[i]
         /\ \A i \in 1..n : both[Len(s) + i] = <<name, i>>
<1> DEFINE part == Part(name, n)  both == s \o part
<1>1. /\ part \in Seq(Byte) /\ Len(part) = n
      /\ \A i \in 1..n : part[i] = <<name, i>>
  BY PartBytes
<1> HIDE DEF part
<1>2. /\ both \in Seq(Byte) /\ Len(both) = Len(s) + n
      /\ \A i \in 1..(Len(s) + n) :
           both[i] = IF i <= Len(s) THEN s[i] ELSE part[i - Len(s)]
  BY <1>1, ConcatProperties
<1> HIDE DEF both
<1>3. Len(s) \in Nat
  OBVIOUS
<1>4. ASSUME NEW i \in 1..Len(s)
      PROVE  both[i] = s[i]
  BY <1>2, <1>3
<1>5. ASSUME NEW i \in 1..n
      PROVE  both[Len(s) + i] = <<name, i>>
  <2> DEFINE j == Len(s) + i
  <2>1. j \in 1..(Len(s) + n) /\ ~(j <= Len(s)) /\ j - Len(s) = i
    BY <1>3
  <2> HIDE DEF j
  <2>2. both[j] = part[j - Len(s)]
    BY <1>2, <2>1
  <2> QED
    BY <1>1, <2>1, <2>2 DEF j
<1> QED
  BY <1>2, <1>4, <1>5 DEF both, part

\* "all" has a part behind its first a bytes.
HasPart(all, a, name, m) == \A i \in 1..m : all[a + i] = <<name, i>>

\* "all" is the four parts one after the other, for a body of n bytes.
Packed(all, n) ==
  /\ all \in Seq(Byte) /\ Len(all) = KeyBytes + IvBytes + n + TagBytes
  /\ HasPart(all, 0, "key", KeyBytes)
  /\ HasPart(all, KeyBytes, "iv", IvBytes)
  /\ HasPart(all, KeyBytes + IvBytes, "body", n)
  /\ HasPart(all, KeyBytes + IvBytes + n, "tag", TagBytes)

LEMMA PackIsPacked ==
  ASSUME NEW n \in Nat
  PROVE  Packed(Pack(n), n)
<1> DEFINE key == Part("key", KeyBytes)
           ki == key \o Part("iv", IvBytes)
           kib == ki \o Part("body", n)
           all == kib \o Part("tag", TagBytes)
<1> DEFINE k == KeyBytes  v == IvBytes  t == TagBytes
<1>1. k \in Nat /\ v \in Nat /\ t \in Nat
  BY HybridCryptoAssumption
<1>2. Pack(n) = all
  BY DEF Pack
<1>3. /\ key \in Seq(Byte) /\ Len(key) = k
      /\ \A i \in 1..k : key[i] = <<"key", i>>
  BY <1>1, PartBytes DEF Names
<1> HIDE DEF key
<1>4. /\ ki \in Seq(Byte) /\ Len(ki) = k + v
      /\ \A i \in 1..k : ki[i] = key[i]
      /\ \A i \in 1..v : ki[k + i] = <<"iv", i>>
  <2>1. /\ ki \in Seq(Byte) /\ Len(ki) = Len(key) + v
        /\ \A i \in 1..Len(key) : ki[i] = key[i]
        /\ \A i \in 1..v : ki[Len(key) + i] = <<"iv", i>>
    BY <1>1, <1>3, ThenPart DEF Names
  <2> HIDE DEF ki
  <2> QED
    BY <1>3, <2>1
<1> HIDE DEF ki
<1>5. /\ kib \in Seq(Byte) /\ Len(kib) = k + v + n
      /\ \A i \in 1..(k + v) : kib[i] = ki[i]
      /\ \A i \in 1..n : kib[k + v + i] = <<"body", i>>
  <2>1. /\ kib \in Seq(Byte) /\ Len(kib) = Len(ki) + n
        /\ \A i \in 1..Len(ki) : kib[i] = ki[i]
        /\ \A i \in 1..n : kib[Len(ki) + i] = <<"body", i>>
    BY <1>1, <1>4, ThenPart DEF Names
  <2> HIDE DEF kib
  <2> QED
    BY <1>4, <2>1
<1> HIDE DEF kib
<1>6. /\ all \in Seq(Byte) /\ Len(all) = k + v + n + t
      /\ \A i \in 1..(k + v + n) : all[i] = kib[i]
      /\ \A i \in 1..t : all[k + v + n + i] = <<"tag", i>>
  <2>1. /\ all \in Seq(Byte) /\ Len(all) = Len(kib) + t
        /\ \A i \in 1..Len(kib) : all[i] = kib[i]
        /\ \A i \in 1..t : all[Len(kib) + i] = <<"tag", i>>
    BY <1>1, <1>5, ThenPart DEF Names
  <2> HIDE DEF all
  <2> QED
    BY <1>5, <2>1
<1> HIDE DEF all
<1>7. ASSUME NEW i \in 1..k
      PROVE  all[0 + i] = <<"key", i>>
  <2>1. all[i] = kib[i] /\ kib[i] = ki[i]
    BY <1>1, <1>5, <1>6
  <2> QED
    BY <1>3, <1>4, <2>1
<1>8. ASSUME NEW i \in 1..v
      PROVE  all[k + i] = <<"iv", i>>
  <2> DEFINE j == k + i
  <2>1. j \in 1..(k + v) /\ j \in 1..(k + v + n)
    BY <1>1
  <2>2. ki[j] = <<"iv", i>>
    BY <1>4
  <2> HIDE DEF j
  <2>3. all[j] = kib[j] /\ kib[j] = ki[j]
    BY <1>5, <1>6, <2>1
  <2> QED
    BY <2>2, <2>3 DEF j
<1>9. ASSUME NEW i \in 1..n
      PROVE  all[k + v + i] = <<"body", i>>
  <2> DEFINE j == k + v + i
  <2>1. j \in 1..(k + v + n)
    BY <1>1
  <2>2. kib[j] = <<"body", i>>
    BY <1>5
  <2> HIDE DEF j
  <2>3. all[j] = kib[j]
    BY <1>6, <2>1
  <2> QED
    BY <2>2, <2>3 DEF j
<1> QED
  BY <1>2, <1>6, <1>7, <1>8, <1>9 DEF Packed, HasPart

\* No other bytes are packed so.
LEMMA PackedIsPack ==
  ASSUME NEW n \in Nat, NEW all, Packed(all, n)
  PROVE  all = Pack(n)
<1> DEFINE k == KeyBytes  v == IvBytes  t == TagBytes  pack == Pack(n)
<1>1. k \in Nat /\ v \in Nat /\ t \in Nat
  BY HybridCryptoAssumption
<1>2. Packed(pack, n)
  BY PackIsPacked
<1> HIDE DEF pack
<1>3. ASSUME NEW name \in Names, NEW a \in Nat, NEW m \in Nat,
             HasPart(all, a, name, m), HasPart(pack, a, name, m),
             NEW i \in (a + 1)..(a + m)
      PROVE  all[i] = pack[i]
  <2> DEFINE j == i - a
  <2>1. j \in 1..m /\ a + j = i
    BY <1>3
  <2> HIDE DEF j
  <2>2. all[a + j] = <<name, j>> /\ pack[a + j] = <<name, j>>
    BY <1>3, <2>1 DEF HasPart
  <2> QED
    BY <2>1, <2>2
<1>4. ASSUME NEW i \in 1..Len(all)
      PROVE  all[i] = pack[i]
  <2>1. \/ i \in (0 + 1)..(0 + k) \/ i \in (k + 1)..(k + v)
        \/ i \in (k + v + 1)..(k + v + n) \/ i \in (k + v + n + 1)..(k + v + n + t)
    BY <1>1 DEF Packed
  <2>2. CASE i \in (0 + 1)..(0 + k)
    BY <1>1, <1>2, <1>3, <2>2 DEF Packed, Names
  <2>3. CASE i \in (k + 1)..(k + v)
    BY <1>1, <1>2, <1>3, <2>3 DEF Packed, Names
  <2>4. CASE i \in (k + v + 1)..(k + v + n)
    BY <1>1, <1>2, <1>3, <2>4 DEF Packed, Names
  <2>5. CASE i \in (k + v + n + 1)..(k + v + n + t)
    BY <1>1, <1>2, <1>3, <2>5 DEF Packed, Names
  <2> QED
    BY <2>1, <2>2, <2>3, <2>4, <2>5
<1>5. all \in Seq(Byte) /\ pack \in Seq(Byte) /\ Len(all) = Len(pack)
  BY <1>2 DEF Packed
<1>6. all = pack
  BY <1>4, <1>5, SeqEqual
<1> QED
  BY <1>6 DEF pack

\* What is cut out behind the first a bytes.
Cut(all, a, last) == SubSeq(all, a + 1, last)

LEMMA CutIsPart ==
  ASSUME NEW all \in Seq(Byte), NEW name \in Names, NEW n \in Nat,
         NEW a \in Nat, NEW last \in Nat, a <= last, last <= Len(all)
  PROVE  Cut(all, a, last) = Part(name, n)
           <=> last = a + n /\ HasPart(all, a, name, n)
<1> DEFINE cut == Cut(all, a, last)  part == Part(name, n)  m == last - a
<1>1. m \in Nat /\ last = a + m /\ Len(all) \in Nat
  BY LenProperties
<1> HIDE DEF m
<1>2. \A i \in (a + 1)..last : all[i] \in Byte
  BY <1>1, ElementOfSeq
<1>3. /\ cut \in Seq(Byte) /\ Len(cut) = m
      /\ \A i \in 1..(last - (a + 1) + 1) : cut[i] = all[(a + 1) + i - 1]
  BY <1>1, <1>2, SubSeqProperties DEF Cut
<1>4. /\ part \in Seq(Byte) /\ Len(part) = n
      /\ \A i \in 1..n : part[i] = <<name, i>>
  BY PartBytes
<1> HIDE DEF cut, part
<1>5. ASSUME NEW i \in 1..m
      PROVE  cut[i] = all[a + i]
  <2>1. i \in 1..(last - (a + 1) + 1) /\ (a + 1) + i - 1 = a + i
    BY <1>1
  <2> QED
    BY <1>3, <2>1
<1>6. cut = part => m = n /\ HasPart(all, a, name, n)
  BY <1>3, <1>4, <1>5 DEF HasPart
<1>7. m = n /\ HasPart(all, a, name, n) => cut = part
  BY <1>3, <1>4, <1>5, SeqEqual DEF HasPart
<1> QED
  BY <1>1, <1>6, <1>7 DEF cut, part

\* Slices, which cuts by lengths alone, finds the parts of a packet and only
\* of a packet.
LEMMA SlicesOfPack ==
  ASSUME NEW n \in Nat, NEW all \in Seq(Byte)
  PROVE  all = Pack(n) <=>
           /\ Len(all) >= KeyBytes + IvBytes + TagBytes
           /\ Slices(all).key = Part("key", KeyBytes)
           /\ Slices(all).iv = Part("iv", IvBytes)
           /\ Slices(all).body = Part("body", n)
           /\ Slices(all).tag = Part("tag", TagBytes)
<1> DEFINE k == KeyBytes  v == IvBytes  t == TagBytes
           kv == k + v  m == Len(all) - t - kv  kvm == kv + m
<1>1. k \in Nat /\ v \in Nat /\ t \in Nat /\ kv \in Nat /\ Len(all) \in Nat
  <2>1. k \in Nat /\ v \in Nat /\ t \in Nat
    BY HybridCryptoAssumption
  <2> QED
    BY <2>1, LenProperties
<1>2. CASE Len(all) >= k + v + t
  <2>1. /\ m \in Nat /\ kvm \in Nat /\ kv = k + v /\ kvm = kv + m
        /\ Len(all) - t = kvm /\ Len(all) = kvm + t
        /\ k <= Len(all) /\ kv <= Len(all) /\ kvm <= Len(all)
    BY <1>1, <1>2
  <2>2. /\ Slices(all).key = Cut(all, 0, k)
        /\ Slices(all).iv = Cut(all, k, kv)
        /\ Slices(all).body = Cut(all, kv, kvm)
        /\ Slices(all).tag = Cut(all, kvm, Len(all))
    <3> DEFINE key == SubSeq(all, 1, KeyBytes)
               iv == SubSeq(all, KeyBytes + 1, KeyBytes + IvBytes)
               body == SubSeq(all, KeyBytes + IvBytes + 1, Len(all) - TagBytes)
               tag == SubSeq(all, Len(all) - TagBytes + 1, Len(all))
    <3>1. Slices(all) = [key |-> key, iv |-> iv, body |-> body, tag |-> tag]
      BY DEF Slices
    <3>2. /\ key = Cut(all, 0, k) /\ iv = Cut(all, k, kv)
          /\ body = Cut(all, kv, kvm) /\ tag = Cut(all, kvm, Len(all))
      <4>1. 0 + 1 = 1 /\ Len(all) - TagBytes = kvm
        BY <2>1
      <4>2. key = Cut(all, 0, k)
        BY <4>1, Zenon DEF Cut
      <4>3. iv = Cut(all, k, kv)
        BY Zenon DEF Cut
      <4>4. body = Cut(all, kv, kvm)
        BY <4>1, Zenon DEF Cut
      <4>5. tag = Cut(all, kvm, Len(all))
        BY <4>1, Zenon DEF Cut
      <4> QED
        BY <4>2, <4>3, <4>4, <4>5
    <3> HIDE DEF key, iv, body, tag
    <3> QED
      BY <3>1, <3>2
  <2> HIDE DEF k, v, t, kv, m, kvm
  <2>3. /\ Slices(all).key = Part("key", k)
             <=> k = 0 + k /\ HasPart(all, 0, "key", k)
        /\ Slices(all).iv = Part("iv", v)
             <=> kv = k + v /\ HasPart(all, k, "iv", v)
        /\ Slices(all).body = Part("body", n)
             <=> kvm = kv + n /\ HasPart(all, kv, "body", n)
        /\ Slices(all).tag = Part("tag", t)
             <=> Len(all) = kvm + t /\ HasPart(all, kvm, "tag", t)
    BY <1>1, <2>1, <2>2, CutIsPart DEF Names
  <2>5. all = Pack(n) <=> Packed(all, n)
    BY PackIsPacked, PackedIsPack
  <2>6. Packed(all, n) <=>
          /\ m = n /\ HasPart(all, 0, "key", k) /\ HasPart(all, k, "iv", v)
          /\ HasPart(all, kv, "body", n) /\ HasPart(all, kvm, "tag", t)
    BY <1>1, <2>1 DEF Packed, k, v, t, kv, kvm
  <2>7. /\ 0 + k = k /\ (kvm = kv + n <=> m = n)
    BY <1>1, <2>1
  <2> QED
    BY <1>2, <2>1, <2>3, <2>5, <2>6, <2>7 DEF k, v, t
<1>3. CASE ~(Len(all) >= k + v + t)
  <2>1. all # Pack(n)
    BY <1>1, <1>3, PackIsPacked DEF Packed
  <2> QED
    BY <1>3, <2>1
<1> QED
  BY <1>2, <1>3

-----------------------------------------------------------------------------
(***************************************************************************)
(* base64.                                                                 *)
(***************************************************************************)
\* Groups of three bytes, the last of which may be shorter.
Grouped(text) ==
  /\ text \in Seq(Seq(Byte))
  /\ \A g \in 1..Len(text) :
       Len(text[g]) \in 1..3 /\ (g < Len(text) => Len(text[g]) = 3)

\* The groups of an encoded text.
LEMMA EncodedGroups ==
  ASSUME NEW bytes \in Seq(Byte)
  PROVE  LET text == Encoded(bytes) IN
         /\ text \in Seq(Seq(Byte)) /\ Len(text) = (Len(bytes) + 2) \div 3
         /\ \A g \in 1..Len(text) :
              LET rest == Len(bytes) - (3 * g - 3) IN
              /\ Len(text[g]) = IF rest <= 3 THEN rest ELSE 3
              /\ \A r \in 1..Len(text[g]) : text[g][r] = bytes[3 * g - 3 + r]
<1> DEFINE text == Encoded(bytes)  L == Len(bytes)  N == (L + 2) \div 3
           last(g) == IF 3 * g < L THEN 3 * g ELSE L
           cut(g) == SubSeq(bytes, 3 * g - 2, last(g))
<1>1. L \in Nat
  BY LenProperties
<1>2. N \in Nat
  BY <1>1
<1>3. ASSUME NEW g \in 1..N
      PROVE  /\ cut(g) \in Seq(Byte)
             /\ Len(cut(g)) = IF L - (3 * g - 3) <= 3 THEN L - (3 * g - 3) ELSE 3
             /\ \A r \in 1..Len(cut(g)) : cut(g)[r] = bytes[3 * g - 3 + r]
  <2> DEFINE f == 3 * g - 2  l == last(g)
  <2>1. f \in 1..l /\ l \in 1..L /\ g \in Nat
    BY <1>1, <1>3
  <2>2. l - f + 1 = IF L - (3 * g - 3) <= 3 THEN L - (3 * g - 3) ELSE 3
    <3> DEFINE k == 3 * g
    <3>1. k \in Int
      BY <2>1
    <3>2. CASE k < L
      <4>1. l = k /\ f = k - 2
        BY <3>2
      <4> HIDE DEF f, l, k, L
      <4> QED
        BY <1>1, <3>1, <3>2, <4>1 DEF k
    <3>3. CASE ~(k < L)
      <4>1. l = L /\ f = k - 2
        BY <3>3
      <4> HIDE DEF f, l, k, L
      <4> QED
        BY <1>1, <3>1, <3>3, <4>1 DEF k
    <3> QED
      BY <3>2, <3>3
  <2> HIDE DEF f, l
  <2>3. \A i \in f..l : bytes[i] \in Byte
    BY <1>1, <2>1, ElementOfSeq
  <2> DEFINE c == SubSeq(bytes, f, l)
  <2>4. /\ c \in Seq(Byte) /\ Len(c) = l - f + 1
        /\ \A r \in 1..(l - f + 1) : c[r] = bytes[f + r - 1]
    BY <1>1, <2>1, <2>3, SubSeqProperties
  <2> HIDE DEF c, L
  <2>5. \A r \in 1..Len(c) : c[r] = bytes[3 * g - 3 + r]
    <3>1. ASSUME NEW r \in 1..Len(c)
          PROVE  f + r - 1 = 3 * g - 3 + r
      BY <2>1, <2>4, <3>1 DEF f
    <3> QED
      BY <2>4, <3>1
  <2>6. c = cut(g)
    BY Zenon DEF c, f, l, L
  <2> QED
    BY <2>2, <2>4, <2>5, <2>6
<1>4. text = [g \in 1..N |-> cut(g)]
  BY Zenon DEF Encoded
<1> HIDE DEF cut, N, text, L
<1>5. text \in [1..N -> Seq(Byte)] /\ \A g \in 1..N : text[g] = cut(g)
  BY <1>3, <1>4
<1>6. text \in Seq(Seq(Byte)) /\ Len(text) = N
  BY <1>2, <1>5
<1>7. ASSUME NEW g \in 1..Len(text)
      PROVE  /\ Len(text[g]) = IF L - (3 * g - 3) <= 3 THEN L - (3 * g - 3) ELSE 3
             /\ \A r \in 1..Len(text[g]) : text[g][r] = bytes[3 * g - 3 + r]
  BY <1>3, <1>5, <1>6
<1> QED
  BY <1>6, <1>7, Zenon DEF text, L, N

LEMMA EncodedIsGrouped ==
  ASSUME NEW bytes \in Seq(Byte)
  PROVE  Grouped(Encoded(bytes))
<1> DEFINE text == Encoded(bytes)  L == Len(bytes)  N == (L + 2) \div 3
<1>1. L \in Nat
  BY LenProperties
<1>2. /\ text \in Seq(Seq(Byte)) /\ Len(text) = N
      /\ \A g \in 1..N :
           Len(text[g]) = IF L - (3 * g - 3) <= 3 THEN L - (3 * g - 3) ELSE 3
  BY EncodedGroups
<1> HIDE DEF text, L
<1>3. ASSUME NEW g \in 1..N
      PROVE  Len(text[g]) \in 1..3 /\ (g < N => Len(text[g]) = 3)
  <2> DEFINE rest == L - (3 * g - 3)
  <2>1. rest \in Int /\ rest >= 1 /\ (g < N => rest > 3)
    BY <1>1
  <2>2. Len(text[g]) = IF rest <= 3 THEN rest ELSE 3
    BY <1>2
  <2> HIDE DEF rest
  <2> QED
    BY <2>1, <2>2
<1> QED
  BY <1>2, <1>3 DEF Grouped, text

\* The bytes of a text.
LEMMA DecodedBytes ==
  ASSUME NEW text, Grouped(text)
  PROVE  /\ Decoded(text) \in Seq(Byte)
         /\ Len(Decoded(text)) = IF Len(text) = 0 THEN 0
                                 ELSE 3 * (Len(text) - 1) + Len(text[Len(text)])
         /\ \A i \in 1..Len(Decoded(text)) :
              Decoded(text)[i] = text[(i + 2) \div 3][((i - 1) % 3) + 1]
<1> DEFINE n == Len(text)  size(g) == Len(text[g])
           length == IF n = 0 THEN 0 ELSE 3 * (n - 1) + size(n)
           byte(i) == text[(i + 2) \div 3][((i - 1) % 3) + 1]
<1>1. n \in Nat
  BY LenProperties DEF Grouped
<1>2. \A g \in 1..n : text[g] \in Seq(Byte)
  BY ElementOfSeq DEF Grouped
<1>3. \A g \in 1..n : size(g) \in 1..3 /\ (g < n => size(g) = 3)
  BY DEF Grouped
<1>4. Decoded(text) = [i \in 1..length |-> byte(i)]
  BY DEF Decoded
<1> HIDE DEF n, size
<1>5. n > 0 => n \in 1..n
  BY <1>1
<1>6. length \in Nat /\ (n = 0 => length = 0)
      /\ (n > 0 => length = 3 * (n - 1) + size(n) /\ size(n) \in 1..3)
  BY <1>1, <1>3, <1>5
<1> HIDE DEF length
<1>7. ASSUME NEW i \in 1..length
      PROVE  byte(i) \in Byte
  <2> DEFINE g == (i + 2) \div 3  r == ((i - 1) % 3) + 1
  <2>1. i = 3 * g - 3 + r /\ r \in 1..3 /\ g \in Int /\ i \in Int
    BY <1>6
  <2> HIDE DEF g, r
  <2>2. n > 0 /\ length = 3 * (n - 1) + size(n) /\ size(n) \in 1..3
    BY <1>1, <1>6
  <2>3. g \in 1..n /\ (g = n => r <= size(n))
    BY <1>1, <1>7, <2>1, <2>2
  <2>4. r \in 1..size(g)
    BY <1>1, <1>3, <2>1, <2>3
  <2>5. text[g] \in Seq(Byte) /\ r \in 1..Len(text[g])
    BY <1>2, <2>3, <2>4 DEF size
  <2>6. text[g][r] \in Byte
    BY <2>5, ElementOfSeq
  <2> QED
    BY <2>6 DEF g, r
<1> HIDE DEF byte
<1>8. Decoded(text) \in [1..length -> Byte]
  BY <1>4, <1>7
<1>9. Decoded(text) \in Seq(Byte) /\ Len(Decoded(text)) = length
  BY <1>6, <1>8
<1>10. \A i \in 1..length : Decoded(text)[i] = byte(i)
  BY <1>4
<1> QED
  BY <1>9, <1>10 DEF byte, length, n, size

\* base64Decode undoes base64Encode, whatever the length of the packet leaves
\* for the last group.
THEOREM RoundTrip ==
  ASSUME NEW bytes \in Seq(Byte)
  PROVE  Decoded(Encoded(bytes)) = bytes
<1> DEFINE text == Encoded(bytes)  L == Len(bytes)  N == (L + 2) \div 3
           all == Decoded(text)
<1>1. L \in Nat /\ N \in Nat
  BY LenProperties
<1>2. /\ Len(text) = N
      /\ \A g \in 1..N :
           /\ Len(text[g]) = IF L - (3 * g - 3) <= 3 THEN L - (3 * g - 3) ELSE 3
           /\ \A r \in 1..Len(text[g]) : text[g][r] = bytes[3 * g - 3 + r]
  BY EncodedGroups
<1>3. /\ all \in Seq(Byte)
      /\ Len(all) = IF N = 0 THEN 0 ELSE 3 * (N - 1) + Len(text[N])
      /\ \A i \in 1..Len(all) : all[i] = text[(i + 2) \div 3][((i - 1) % 3) + 1]
  BY <1>2, EncodedIsGrouped, DecodedBytes
<1> HIDE DEF text, all
<1>4. Len(all) = L
  <2>1. CASE N = 0
    BY <1>1, <1>3, <2>1
  <2>2. CASE N # 0
    <3>1. N \in 1..N /\ L - (3 * N - 3) <= 3 /\ 3 * (N - 1) = 3 * N - 3
      BY <1>1, <2>2
    <3>2. Len(text[N]) = L - (3 * N - 3)
      BY <1>2, <3>1
    <3> QED
      BY <1>1, <1>3, <2>2, <3>1, <3>2
  <2> QED
    BY <2>1, <2>2
<1>5. ASSUME NEW i \in 1..L
      PROVE  all[i] = bytes[i]
  <2> DEFINE g == (i + 2) \div 3  r == ((i - 1) % 3) + 1
  <2>1. /\ g \in 1..N /\ r \in 1..3 /\ i = 3 * g - 3 + r
        /\ r <= L - (3 * g - 3)
    BY <1>1
  <2>2. all[i] = text[g][r]
    BY <1>3, <1>4
  <2> HIDE DEF g, r, N, L
  <2> DEFINE rest == L - (3 * g - 3)
  <2>3. r \in 1..Len(text[g])
    <3>1. Len(text[g]) = IF rest <= 3 THEN rest ELSE 3
      BY <1>2, <2>1
    <3>2. rest \in Int /\ r <= rest
      BY <1>1, <2>1
    <3> HIDE DEF rest
    <3> QED
      BY <2>1, <3>1, <3>2
  <2> QED
    BY <1>2, <2>1, <2>2, <2>3
<1>6. all = bytes
  BY <1>3, <1>4, <1>5, SeqEqual
<1> QED
  BY <1>6 DEF all, text

-----------------------------------------------------------------------------
(***************************************************************************)
(* The calls.                                                              *)
(***************************************************************************)
Checks == {"nothing", "long", "key", "tag"}

\* What a call is made of.
Entry(c, kind, ctx, undo, check, fails) ==
  /\ c.kind = kind /\ c.ctx = ctx /\ c.undo = undo
  /\ c.check = check /\ c.fails = fails

\* The calls field by field.
LEMMA Fields ==
  /\ Entry(Call, "use", "none", {}, "nothing", TRUE)
  /\ Entry(Memory, "memory", "none", {}, "nothing", TRUE)
  /\ \A c \in Contexts :
       /\ Entry(New(c), "new", c, {}, "nothing", TRUE)
       /\ Entry(Use(c), "use", c, {c}, "nothing", TRUE)
       /\ Entry([Use(c) EXCEPT !.check = "key"], "use", c, {c}, "key", TRUE)
       /\ Entry(Free(c), "free", c, {}, "nothing", FALSE)
       /\ Entry(Alloc(c), "new", c, {}, "nothing", FALSE)
       /\ Entry(Write(c), "use", c, {}, "nothing", FALSE)
  /\ \A what \in Checks : Entry(Test(what), "test", "none", {}, what, FALSE)
<1>1. /\ Entry(Call, "use", "none", {}, "nothing", TRUE)
      /\ Entry(Memory, "memory", "none", {}, "nothing", TRUE)
  BY DEF Call, Memory, Entry
<1>2. ASSUME NEW c \in Contexts
      PROVE  /\ Entry(New(c), "new", c, {}, "nothing", TRUE)
             /\ Entry(Free(c), "free", c, {}, "nothing", FALSE)
             /\ Entry(Alloc(c), "new", c, {}, "nothing", FALSE)
  BY DEF Call, New, Free, Alloc, Entry
<1>3. ASSUME NEW c \in Contexts
      PROVE  /\ Entry(Use(c), "use", c, {c}, "nothing", TRUE)
             /\ Entry([Use(c) EXCEPT !.check = "key"], "use", c, {c}, "key", TRUE)
             /\ Entry(Write(c), "use", c, {}, "nothing", FALSE)
  BY DEF Call, Use, Write, Entry
<1>4. ASSUME NEW what \in Checks
      PROVE  Entry(Test(what), "test", "none", {}, what, FALSE)
  BY DEF Call, Test, Entry
<1> QED
  BY <1>1, <1>2, <1>3, <1>4

LEMMA KeyGenCalls ==
  /\ Len(KeyGen) = 5
  /\ KeyGen[1] = New("rsa") /\ KeyGen[5] = Free("rsa")
  /\ \A n \in 2..4 : KeyGen[n] = Use("rsa")
  BY DEF KeyGen

LEMMA PublicKeyCalls ==
  /\ Len(PublicKey) = 6
  /\ PublicKey[1] = New("der") /\ PublicKey[2] = Alloc("b64")
  /\ PublicKey[3] = Write("b64") /\ PublicKey[4] = Memory
  /\ PublicKey[5] = Free("b64") /\ PublicKey[6] = Free("der")
  BY DEF PublicKey

LEMMA HashCalls ==
  /\ Len(HashCiphertext) = 4
  /\ HashCiphertext[1] = New("md") /\ HashCiphertext[4] = Free("md")
  /\ \A n \in 2..3 : HashCiphertext[n] = Use("md")
  BY DEF HashCiphertext

LEMMA EncryptCalls ==
  /\ Len(Encrypt) = 22
  /\ \A n \in 1..2 : Encrypt[n] = Call
  /\ Encrypt[3] = New("aes") /\ Encrypt[11] = Free("aes")
  /\ \A n \in {4, 5, 7, 8, 10} : Encrypt[n] = Use("aes")
  /\ \A n \in {6, 9, 16, 21} : Encrypt[n] = Memory
  /\ Encrypt[12] = New("rsa") /\ Encrypt[18] = Free("rsa")
  /\ \A n \in {13, 14, 15, 17} : Encrypt[n] = Use("rsa")
  /\ Encrypt[19] = Alloc("b64") /\ Encrypt[20] = Write("b64")
  /\ Encrypt[22] = Free("b64")
  BY DEF Encrypt, Base64Encode

LEMMA DecryptCalls ==
  /\ Len(Decrypt) = 21
  /\ Decrypt[1] = Alloc("b64") /\ Decrypt[3] = Use("b64")
  /\ Decrypt[4] = Free("b64") /\ Decrypt[5] = Test("long")
  /\ Decrypt[6] = New("rsa") /\ Decrypt[12] = Free("rsa")
  /\ \A n \in 7..9 : Decrypt[n] = Use("rsa")
  /\ \A n \in {2, 10, 16} : Decrypt[n] = Memory
  /\ Decrypt[11] = [Use("rsa") EXCEPT !.check = "key"]
  /\ Decrypt[13] = New("aes") /\ Decrypt[20] = Free("aes")
  /\ \A n \in {14, 15, 17, 18} : Decrypt[n] = Use("aes")
  /\ Decrypt[19] = Write("aes") /\ Decrypt[21] = Test("tag")
  BY DEF Decrypt, Base64Decode

\* The contexts that are open before the n-th call of an operation.
OpenAt(name, n) ==
  CASE name = "keyGen"    -> IF n \in 2..5 THEN {"rsa"} ELSE {}
    [] name = "publicKey" -> IF n \in 3..5 THEN {"der", "b64"}
                             ELSE IF n \in {2, 6} THEN {"der"} ELSE {}
    [] name = "hash"      -> IF n \in 2..4 THEN {"md"} ELSE {}
    [] name = "encrypt"   -> IF n \in 4..11 THEN {"aes"}
                             ELSE IF n \in 13..18 THEN {"rsa"}
                             ELSE IF n \in 20..22 THEN {"b64"} ELSE {}
    [] name = "decrypt"   -> IF n \in 2..4 THEN {"b64"}
                             ELSE IF n \in 7..12 THEN {"rsa"}
                             ELSE IF n \in 14..20 THEN {"aes"} ELSE {}

\* A call touches only what is open, gives everything back if it can fail and
\* is no allocation, and leaves what the next one expects.
Disciplined(c, before, after) ==
  /\ c.kind \in {"use", "free"} => c.ctx \in before \cup {"none"}
  /\ c.fails \/ c.check # "nothing" =>
       c.undo = IF c.kind = "memory" THEN {} ELSE before
  /\ After(c, before) = after
  /\ c.check \in Checks /\ c.fails \in BOOLEAN

\* Which calls keep to that, and with which contexts open.
LEMMA CallDiscipline ==
  /\ Disciplined(Call, {}, {})
  /\ \A what \in Checks : Disciplined(Test(what), {}, {})
  /\ \A c \in Contexts :
       /\ Disciplined(New(c), {}, {c})
       /\ Disciplined(Use(c), {c}, {c})
       /\ Disciplined([Use(c) EXCEPT !.check = "key"], {c}, {c})
       /\ \A others \in SUBSET Contexts :
            /\ Disciplined(Memory, others, others)
            /\ Disciplined(Alloc(c), others, others \cup {c})
            /\ c \in others => Disciplined(Write(c), others, others)
            /\ c \in others => Disciplined(Free(c), others, others \ {c})
<1>1. ASSUME NEW call, NEW what \in Checks,
             Entry(call, "test", "none", {}, what, FALSE)
      PROVE  Disciplined(call, {}, {})
  BY <1>1 DEF Entry, Disciplined, After
<1>2. ASSUME NEW call, Entry(call, "use", "none", {}, "nothing", TRUE)
      PROVE  Disciplined(call, {}, {})
  BY <1>2 DEF Entry, Disciplined, After, Checks
<1>3. ASSUME NEW call, NEW c \in Contexts,
             Entry(call, "new", c, {}, "nothing", TRUE)
      PROVE  Disciplined(call, {}, {c})
  BY <1>3 DEF Entry, Disciplined, After, Checks
<1>4. ASSUME NEW call, NEW c \in Contexts, NEW what \in Checks,
             Entry(call, "use", c, {c}, what, TRUE)
      PROVE  Disciplined(call, {c}, {c})
  BY <1>4 DEF Entry, Disciplined, After
<1>5. ASSUME NEW call, NEW c \in Contexts, NEW others \in SUBSET Contexts,
             Entry(call, "new", c, {}, "nothing", FALSE)
      PROVE  Disciplined(call, others, others \cup {c})
  BY <1>5 DEF Entry, Disciplined, After, Checks
<1>6. ASSUME NEW call, NEW c \in Contexts, NEW others \in SUBSET Contexts,
             c \in others, Entry(call, "use", c, {}, "nothing", FALSE)
      PROVE  Disciplined(call, others, others)
  BY <1>6 DEF Entry, Disciplined, After, Checks
<1>7. ASSUME NEW call, NEW c \in Contexts, NEW others \in SUBSET Contexts,
             c \in others, Entry(call, "free", c, {}, "nothing", FALSE)
      PROVE  Disciplined(call, others, others \ {c})
  BY <1>7 DEF Entry, Disciplined, After, Checks
<1>71. ASSUME NEW call, NEW others \in SUBSET Contexts,
              Entry(call, "memory", "none", {}, "nothing", TRUE)
       PROVE  Disciplined(call, others, others)
  BY <1>71 DEF Entry, Disciplined, After, Checks
<1>8. "nothing" \in Checks /\ "key" \in Checks
  BY DEF Checks
<1>9. Disciplined(Call, {}, {})
  BY <1>2, Fields
<1>10. \A what \in Checks : Disciplined(Test(what), {}, {})
  BY <1>1, Fields
<1>11. ASSUME NEW c \in Contexts
       PROVE  /\ Disciplined(New(c), {}, {c})
              /\ Disciplined(Use(c), {c}, {c})
              /\ Disciplined([Use(c) EXCEPT !.check = "key"], {c}, {c})
  BY <1>3, <1>4, <1>8, Fields
<1>12. ASSUME NEW c \in Contexts, NEW others \in SUBSET Contexts
       PROVE  /\ Disciplined(Memory, others, others)
              /\ Disciplined(Alloc(c), others, others \cup {c})
              /\ c \in others => Disciplined(Write(c), others, others)
              /\ c \in others => Disciplined(Free(c), others, others \ {c})
  BY <1>5, <1>6, <1>7, <1>71, Fields
<1> QED
  BY <1>9, <1>10, <1>11, <1>12

\* What is open before each call, and after the last.
LEMMA OpenTable ==
  /\ OpenAt("keyGen", 1) = {} /\ OpenAt("keyGen", 6) = {}
  /\ \A n \in 2..5 : OpenAt("keyGen", n) = {"rsa"}
  /\ OpenAt("publicKey", 1) = {} /\ OpenAt("publicKey", 7) = {}
  /\ OpenAt("publicKey", 2) = {"der"} /\ OpenAt("publicKey", 6) = {"der"}
  /\ \A n \in 3..5 : OpenAt("publicKey", n) = {"der", "b64"}
  /\ OpenAt("hash", 1) = {} /\ OpenAt("hash", 5) = {}
  /\ \A n \in 2..4 : OpenAt("hash", n) = {"md"}
  BY DEF OpenAt

LEMMA OpenInEncrypt ==
  /\ \A n \in {1, 2, 3, 12, 19, 23} : OpenAt("encrypt", n) = {}
  /\ \A n \in 4..11 : OpenAt("encrypt", n) = {"aes"}
  /\ \A n \in 13..18 : OpenAt("encrypt", n) = {"rsa"}
  /\ \A n \in 20..22 : OpenAt("encrypt", n) = {"b64"}
  BY DEF OpenAt

LEMMA OpenInDecrypt ==
  /\ \A n \in {1, 5, 6, 13, 21, 22} : OpenAt("decrypt", n) = {}
  /\ \A n \in 2..4 : OpenAt("decrypt", n) = {"b64"}
  /\ \A n \in 7..12 : OpenAt("decrypt", n) = {"rsa"}
  /\ \A n \in 14..20 : OpenAt("decrypt", n) = {"aes"}
  BY DEF OpenAt

LEMMA OneContext ==
  \A c \in Contexts :
    /\ Disciplined(Memory, {c}, {c})
    /\ Disciplined(Alloc(c), {}, {c})
    /\ Disciplined(Write(c), {c}, {c})
    /\ Disciplined(Free(c), {c}, {})
<1>1. ASSUME NEW c \in Contexts
      PROVE  /\ Disciplined(Memory, {c}, {c})
             /\ Disciplined(Alloc(c), {}, {c})
             /\ Disciplined(Write(c), {c}, {c})
             /\ Disciplined(Free(c), {c}, {})
  <2>1. /\ {} \in SUBSET Contexts /\ {c} \in SUBSET Contexts /\ c \in {c}
        /\ {c} \ {c} = {} /\ {} \cup {c} = {c}
    OBVIOUS
  <2>2. Disciplined(Alloc(c), {}, {} \cup {c})
    BY <2>1, CallDiscipline, Zenon
  <2>3. Disciplined(Write(c), {c}, {c})
    BY <2>1, CallDiscipline, Zenon
  <2>4. Disciplined(Free(c), {c}, {c} \ {c})
    BY <2>1, CallDiscipline, Zenon
  <2>5. Disciplined(Memory, {c}, {c})
    BY <2>1, CallDiscipline, Zenon
  <2> QED
    BY <2>1, <2>2, <2>3, <2>4, <2>5
<1> QED
  BY <1>1

LEMMA KeyGenDiscipline ==
  \A n \in 1..5 : Disciplined(KeyGen[n], OpenAt("keyGen", n),
                              OpenAt("keyGen", n + 1))
<1>1. /\ Disciplined(New("rsa"), {}, {"rsa"})
      /\ Disciplined(Use("rsa"), {"rsa"}, {"rsa"})
      /\ Disciplined(Free("rsa"), {"rsa"}, {})
  BY CallDiscipline, OneContext DEF Contexts
<1>2. Disciplined(KeyGen[1], OpenAt("keyGen", 1), OpenAt("keyGen", 2))
  BY <1>1, KeyGenCalls, OpenTable
<1>3. ASSUME NEW n \in 2..4
      PROVE  Disciplined(KeyGen[n], OpenAt("keyGen", n), OpenAt("keyGen", n + 1))
  <2>1. n \in 2..5 /\ n + 1 \in 2..5
    OBVIOUS
  <2>2. KeyGen[n] = Use("rsa") /\ OpenAt("keyGen", n) = {"rsa"}
        /\ OpenAt("keyGen", n + 1) = {"rsa"}
    BY <2>1, KeyGenCalls, OpenTable
  <2> QED
    BY <1>1, <2>2
<1>4. Disciplined(KeyGen[5], OpenAt("keyGen", 5), OpenAt("keyGen", 6))
  BY <1>1, KeyGenCalls, OpenTable
<1> QED
  BY <1>2, <1>3, <1>4

LEMMA PublicKeyDiscipline ==
  \A n \in 1..6 : Disciplined(PublicKey[n], OpenAt("publicKey", n),
                              OpenAt("publicKey", n + 1))
<1>1. /\ Disciplined(New("der"), {}, {"der"})
      /\ Disciplined(Free("der"), {"der"}, {})
  BY CallDiscipline, OneContext DEF Contexts
<1>2. /\ Disciplined(Alloc("b64"), {"der"}, {"der", "b64"})
      /\ Disciplined(Write("b64"), {"der", "b64"}, {"der", "b64"})
      /\ Disciplined(Memory, {"der", "b64"}, {"der", "b64"})
      /\ Disciplined(Free("b64"), {"der", "b64"}, {"der"})
  <2>1. /\ "b64" \in Contexts /\ "b64" \in {"der", "b64"}
        /\ {"der"} \in SUBSET Contexts /\ {"der", "b64"} \in SUBSET Contexts
        /\ {"der"} \cup {"b64"} = {"der", "b64"}
        /\ {"der", "b64"} \ {"b64"} = {"der"}
    BY DEF Contexts
  <2>2. Disciplined(Alloc("b64"), {"der"}, {"der"} \cup {"b64"})
    BY <2>1, CallDiscipline, Zenon
  <2>3. Disciplined(Write("b64"), {"der", "b64"}, {"der", "b64"})
    BY <2>1, CallDiscipline, Zenon
  <2>4. Disciplined(Free("b64"), {"der", "b64"}, {"der", "b64"} \ {"b64"})
    BY <2>1, CallDiscipline, Zenon
  <2>5. Disciplined(Memory, {"der", "b64"}, {"der", "b64"})
    BY <2>1, CallDiscipline, Zenon
  <2> QED
    BY <2>1, <2>2, <2>3, <2>4, <2>5
<1>3. Disciplined(PublicKey[1], OpenAt("publicKey", 1), OpenAt("publicKey", 2))
  BY <1>1, PublicKeyCalls, OpenTable
<1>4. Disciplined(PublicKey[2], OpenAt("publicKey", 2), OpenAt("publicKey", 3))
  BY <1>2, PublicKeyCalls, OpenTable
<1>5. Disciplined(PublicKey[3], OpenAt("publicKey", 3), OpenAt("publicKey", 4))
  BY <1>2, PublicKeyCalls, OpenTable
<1>6. Disciplined(PublicKey[4], OpenAt("publicKey", 4), OpenAt("publicKey", 5))
  BY <1>2, PublicKeyCalls, OpenTable
<1>7. Disciplined(PublicKey[5], OpenAt("publicKey", 5), OpenAt("publicKey", 6))
  BY <1>2, PublicKeyCalls, OpenTable
<1>8. Disciplined(PublicKey[6], OpenAt("publicKey", 6), OpenAt("publicKey", 7))
  BY <1>1, PublicKeyCalls, OpenTable
<1> QED
  BY <1>3, <1>4, <1>5, <1>6, <1>7, <1>8

LEMMA HashDiscipline ==
  \A n \in 1..4 : Disciplined(HashCiphertext[n], OpenAt("hash", n),
                              OpenAt("hash", n + 1))
<1>1. /\ Disciplined(New("md"), {}, {"md"})
      /\ Disciplined(Use("md"), {"md"}, {"md"})
      /\ Disciplined(Free("md"), {"md"}, {})
  BY CallDiscipline, OneContext DEF Contexts
<1>2. Disciplined(HashCiphertext[1], OpenAt("hash", 1), OpenAt("hash", 2))
  BY <1>1, HashCalls, OpenTable
<1>3. ASSUME NEW n \in 2..3
      PROVE  Disciplined(HashCiphertext[n], OpenAt("hash", n),
                         OpenAt("hash", n + 1))
  <2>1. n \in 2..4 /\ n + 1 \in 2..4
    OBVIOUS
  <2>2. HashCiphertext[n] = Use("md") /\ OpenAt("hash", n) = {"md"}
        /\ OpenAt("hash", n + 1) = {"md"}
    BY <2>1, HashCalls, OpenTable
  <2> QED
    BY <1>1, <2>2
<1>4. Disciplined(HashCiphertext[4], OpenAt("hash", 4), OpenAt("hash", 5))
  BY <1>1, HashCalls, OpenTable
<1> QED
  BY <1>2, <1>3, <1>4

LEMMA EncryptDiscipline ==
  \A n \in 1..22 : Disciplined(Encrypt[n], OpenAt("encrypt", n),
                               OpenAt("encrypt", n + 1))
<1> DEFINE Good(n) == Disciplined(Encrypt[n], OpenAt("encrypt", n),
                                  OpenAt("encrypt", n + 1))
<1>1. /\ Disciplined(New("aes"), {}, {"aes"})
      /\ Disciplined(Use("aes"), {"aes"}, {"aes"})
      /\ Disciplined(Memory, {"aes"}, {"aes"})
      /\ Disciplined(Free("aes"), {"aes"}, {})
  BY CallDiscipline, OneContext DEF Contexts
<1>2. /\ Disciplined(New("rsa"), {}, {"rsa"})
      /\ Disciplined(Use("rsa"), {"rsa"}, {"rsa"})
      /\ Disciplined(Memory, {"rsa"}, {"rsa"})
      /\ Disciplined(Free("rsa"), {"rsa"}, {})
  BY CallDiscipline, OneContext DEF Contexts
<1>3. /\ Disciplined(Alloc("b64"), {}, {"b64"})
      /\ Disciplined(Write("b64"), {"b64"}, {"b64"})
      /\ Disciplined(Memory, {"b64"}, {"b64"})
      /\ Disciplined(Free("b64"), {"b64"}, {})
  BY CallDiscipline, OneContext DEF Contexts
<1>4. Good(1) /\ Good(2)
  BY CallDiscipline, EncryptCalls, OpenInEncrypt
<1>5. Good(3)
  BY <1>1, EncryptCalls, OpenInEncrypt
<1>6. ASSUME NEW n \in {4, 5, 7, 8, 10}
      PROVE  Good(n)
  <2>1. n \in 4..11 /\ n + 1 \in 4..11
    OBVIOUS
  <2>2. /\ Encrypt[n] = Use("aes") /\ OpenAt("encrypt", n) = {"aes"}
        /\ OpenAt("encrypt", n + 1) = {"aes"}
    BY <2>1, EncryptCalls, OpenInEncrypt
  <2> QED
    BY <1>1, <2>2
<1>7. ASSUME NEW n \in {6, 9}
      PROVE  Good(n)
  <2>1. n \in 4..11 /\ n + 1 \in 4..11 /\ n \in {6, 9, 16, 21}
    OBVIOUS
  <2>2. /\ Encrypt[n] = Memory /\ OpenAt("encrypt", n) = {"aes"}
        /\ OpenAt("encrypt", n + 1) = {"aes"}
    BY <2>1, EncryptCalls, OpenInEncrypt
  <2> QED
    BY <1>1, <2>2
<1>8. Good(11)
  <2>1. Encrypt[11] = Free("aes")
    BY EncryptCalls
  <2>2. OpenAt("encrypt", 11) = {"aes"} /\ OpenAt("encrypt", 12) = {}
    BY OpenInEncrypt
  <2> QED
    BY <1>1, <2>1, <2>2
<1>9. Good(12)
  <2>1. Encrypt[12] = New("rsa")
    BY EncryptCalls
  <2>2. OpenAt("encrypt", 12) = {} /\ OpenAt("encrypt", 13) = {"rsa"}
    BY OpenInEncrypt
  <2> QED
    BY <1>2, <2>1, <2>2
<1>10. ASSUME NEW n \in {13, 14, 15, 17}
       PROVE  Good(n)
  <2>1. n \in 13..18 /\ n + 1 \in 13..18
    OBVIOUS
  <2>2. /\ Encrypt[n] = Use("rsa") /\ OpenAt("encrypt", n) = {"rsa"}
        /\ OpenAt("encrypt", n + 1) = {"rsa"}
    BY <2>1, EncryptCalls, OpenInEncrypt
  <2> QED
    BY <1>2, <2>2
<1>11. Good(16)
  <2>1. Encrypt[16] = Memory
    BY EncryptCalls
  <2>2. OpenAt("encrypt", 16) = {"rsa"} /\ OpenAt("encrypt", 17) = {"rsa"}
    BY OpenInEncrypt
  <2> QED
    BY <1>2, <2>1, <2>2
<1>12. Good(18)
  <2>1. Encrypt[18] = Free("rsa")
    BY EncryptCalls
  <2>2. OpenAt("encrypt", 18) = {"rsa"} /\ OpenAt("encrypt", 19) = {}
    BY OpenInEncrypt
  <2> QED
    BY <1>2, <2>1, <2>2
<1>13. Good(19)
  <2>1. Encrypt[19] = Alloc("b64")
    BY EncryptCalls
  <2>2. OpenAt("encrypt", 19) = {} /\ OpenAt("encrypt", 20) = {"b64"}
    BY OpenInEncrypt
  <2> QED
    BY <1>3, <2>1, <2>2
<1>14. Good(20) /\ Good(21)
  <2>1. Encrypt[20] = Write("b64") /\ Encrypt[21] = Memory
    BY EncryptCalls
  <2>2. /\ OpenAt("encrypt", 20) = {"b64"} /\ OpenAt("encrypt", 21) = {"b64"}
        /\ OpenAt("encrypt", 22) = {"b64"}
    BY OpenInEncrypt
  <2> QED
    BY <1>3, <2>1, <2>2
<1>15. Good(22)
  <2>1. Encrypt[22] = Free("b64")
    BY EncryptCalls
  <2>2. OpenAt("encrypt", 22) = {"b64"} /\ OpenAt("encrypt", 23) = {}
    BY OpenInEncrypt
  <2> QED
    BY <1>3, <2>1, <2>2
<1> HIDE DEF Good
<1>16. \A n \in 1..22 : Good(n)
  BY <1>4, <1>5, <1>6, <1>7, <1>8, <1>9, <1>10, <1>11, <1>12, <1>13, <1>14, <1>15
<1> QED
  BY <1>16 DEF Good

LEMMA DecryptDiscipline ==
  \A n \in 1..21 : Disciplined(Decrypt[n], OpenAt("decrypt", n),
                               OpenAt("decrypt", n + 1))
<1> DEFINE Good(n) == Disciplined(Decrypt[n], OpenAt("decrypt", n),
                                  OpenAt("decrypt", n + 1))
<1>1. /\ Disciplined(New("aes"), {}, {"aes"})
      /\ Disciplined(Use("aes"), {"aes"}, {"aes"})
      /\ Disciplined(Memory, {"aes"}, {"aes"})
      /\ Disciplined(Write("aes"), {"aes"}, {"aes"})
      /\ Disciplined(Free("aes"), {"aes"}, {})
  BY CallDiscipline, OneContext DEF Contexts
<1>2. /\ Disciplined(New("rsa"), {}, {"rsa"})
      /\ Disciplined(Use("rsa"), {"rsa"}, {"rsa"})
      /\ Disciplined(Memory, {"rsa"}, {"rsa"})
      /\ Disciplined([Use("rsa") EXCEPT !.check = "key"], {"rsa"}, {"rsa"})
      /\ Disciplined(Free("rsa"), {"rsa"}, {})
  BY CallDiscipline, OneContext DEF Contexts
<1>3. /\ Disciplined(Alloc("b64"), {}, {"b64"})
      /\ Disciplined(Memory, {"b64"}, {"b64"})
      /\ Disciplined(Use("b64"), {"b64"}, {"b64"})
      /\ Disciplined(Free("b64"), {"b64"}, {})
  BY CallDiscipline, OneContext DEF Contexts
<1>4. Disciplined(Test("long"), {}, {}) /\ Disciplined(Test("tag"), {}, {})
  BY CallDiscipline DEF Checks
<1>5. Good(1)
  BY <1>3, DecryptCalls, OpenInDecrypt
<1>6. Good(2) /\ Good(3)
  <2>1. Decrypt[2] = Memory /\ Decrypt[3] = Use("b64")
    BY DecryptCalls
  <2>2. /\ OpenAt("decrypt", 2) = {"b64"} /\ OpenAt("decrypt", 3) = {"b64"}
        /\ OpenAt("decrypt", 4) = {"b64"}
    BY OpenInDecrypt
  <2> QED
    BY <1>3, <2>1, <2>2
<1>7. Good(4)
  BY <1>3, DecryptCalls, OpenInDecrypt
<1>8. Good(5)
  BY <1>4, DecryptCalls, OpenInDecrypt
<1>9. Good(6)
  <2>1. Decrypt[6] = New("rsa")
    BY DecryptCalls
  <2>2. OpenAt("decrypt", 6) = {} /\ OpenAt("decrypt", 7) = {"rsa"}
    BY OpenInDecrypt
  <2> QED
    BY <1>2, <2>1, <2>2
<1>10. ASSUME NEW n \in 7..9
       PROVE  Good(n)
  <2>1. n \in 7..12 /\ n + 1 \in 7..12
    OBVIOUS
  <2>2. /\ Decrypt[n] = Use("rsa") /\ OpenAt("decrypt", n) = {"rsa"}
        /\ OpenAt("decrypt", n + 1) = {"rsa"}
    BY <2>1, DecryptCalls, OpenInDecrypt
  <2> QED
    BY <1>2, <2>2
<1>11. Good(10) /\ Good(11)
  <2>1. /\ Decrypt[10] = Memory
        /\ Decrypt[11] = [Use("rsa") EXCEPT !.check = "key"]
    BY DecryptCalls
  <2>2. /\ OpenAt("decrypt", 10) = {"rsa"} /\ OpenAt("decrypt", 11) = {"rsa"}
        /\ OpenAt("decrypt", 12) = {"rsa"}
    BY OpenInDecrypt
  <2> QED
    BY <1>2, <2>1, <2>2
<1>12. Good(12)
  <2>1. Decrypt[12] = Free("rsa")
    BY DecryptCalls
  <2>2. OpenAt("decrypt", 12) = {"rsa"} /\ OpenAt("decrypt", 13) = {}
    BY OpenInDecrypt
  <2> QED
    BY <1>2, <2>1, <2>2
<1>13. Good(13)
  <2>1. Decrypt[13] = New("aes")
    BY DecryptCalls
  <2>2. OpenAt("decrypt", 13) = {} /\ OpenAt("decrypt", 14) = {"aes"}
    BY OpenInDecrypt
  <2> QED
    BY <1>1, <2>1, <2>2
<1>14. ASSUME NEW n \in {14, 15, 17, 18}
       PROVE  Good(n)
  <2>1. n \in 14..20 /\ n + 1 \in 14..20
    OBVIOUS
  <2>2. /\ Decrypt[n] = Use("aes") /\ OpenAt("decrypt", n) = {"aes"}
        /\ OpenAt("decrypt", n + 1) = {"aes"}
    BY <2>1, DecryptCalls, OpenInDecrypt
  <2> QED
    BY <1>1, <2>2
<1>15. Good(16) /\ Good(19)
  <2>1. Decrypt[16] = Memory /\ Decrypt[19] = Write("aes")
    BY DecryptCalls
  <2>2. /\ OpenAt("decrypt", 16) = {"aes"} /\ OpenAt("decrypt", 17) = {"aes"}
        /\ OpenAt("decrypt", 19) = {"aes"} /\ OpenAt("decrypt", 20) = {"aes"}
    BY OpenInDecrypt
  <2> QED
    BY <1>1, <2>1, <2>2
<1>16. Good(20)
  <2>1. Decrypt[20] = Free("aes")
    BY DecryptCalls
  <2>2. OpenAt("decrypt", 20) = {"aes"} /\ OpenAt("decrypt", 21) = {}
    BY OpenInDecrypt
  <2> QED
    BY <1>1, <2>1, <2>2
<1>17. Good(21)
  <2>1. Decrypt[21] = Test("tag")
    BY DecryptCalls
  <2>2. OpenAt("decrypt", 21) = {} /\ OpenAt("decrypt", 22) = {}
    BY OpenInDecrypt
  <2> QED
    BY <1>4, <2>1, <2>2
<1> HIDE DEF Good
<1>18. \A n \in 1..21 : Good(n)
  BY <1>5, <1>6, <1>7, <1>8, <1>9, <1>10, <1>11, <1>12, <1>13, <1>14, <1>15,
     <1>16, <1>17
<1> QED
  BY <1>18 DEF Good

LEMMA OperationNames ==
  /\ DOMAIN Calls = {"keyGen", "publicKey", "encrypt", "hash", "decrypt"}
  /\ Calls["keyGen"] = KeyGen /\ Calls["publicKey"] = PublicKey
  /\ Calls["encrypt"] = Encrypt /\ Calls["hash"] = HashCiphertext
  /\ Calls["decrypt"] = Decrypt
  BY DEF Calls

\* The calls of an operation keep to the discipline from the first to the last.
Orderly(name, calls) ==
  /\ Len(calls) \in Nat \ {0} /\ DOMAIN calls = 1..Len(calls)
  /\ OpenAt(name, 1) = {} /\ OpenAt(name, Len(calls) + 1) = {}
  /\ \A n \in 1..Len(calls) :
       Disciplined(calls[n], OpenAt(name, n), OpenAt(name, n + 1))

LEMMA Discipline ==
  \A name \in DOMAIN Calls : Orderly(name, Calls[name])
<1>1. Orderly("keyGen", KeyGen)
  <2>1. DOMAIN KeyGen = 1..5 /\ Len(KeyGen) = 5
    BY DEF KeyGen
  <2> QED
    BY <2>1, KeyGenDiscipline, OpenTable DEF Orderly
<1>2. Orderly("publicKey", PublicKey)
  <2>1. DOMAIN PublicKey = 1..6 /\ Len(PublicKey) = 6
    BY DEF PublicKey
  <2> QED
    BY <2>1, PublicKeyDiscipline, OpenTable DEF Orderly
<1>3. Orderly("hash", HashCiphertext)
  <2>1. DOMAIN HashCiphertext = 1..4 /\ Len(HashCiphertext) = 4
    BY DEF HashCiphertext
  <2> QED
    BY <2>1, HashDiscipline, OpenTable DEF Orderly
<1>4. Orderly("encrypt", Encrypt)
  <2>1. DOMAIN Encrypt = 1..22 /\ Len(Encrypt) = 22
    BY DEF Encrypt, Base64Encode
  <2> QED
    BY <2>1, EncryptDiscipline, OpenInEncrypt DEF Orderly
<1>5. Orderly("decrypt", Decrypt)
  <2>1. DOMAIN Decrypt = 1..21 /\ Len(Decrypt) = 21
    BY DEF Decrypt, Base64Decode
  <2> QED
    BY <2>1, DecryptDiscipline, OpenInDecrypt DEF Orderly
<1> QED
  BY <1>1, <1>2, <1>3, <1>4, <1>5, OperationNames

-----------------------------------------------------------------------------
(***************************************************************************)
(* The inductive invariant.                                                *)
(***************************************************************************)
\* The types, with the text of the packet as what an encoder writes or a
\* network leaves of it.
Typing ==
  /\ \/ op = "idle" /\ pc = 0
     \/ op \in DOMAIN Calls /\ pc \in 1..Len(Calls[op])
  /\ misuse \in BOOLEAN /\ failed \in BOOLEAN
  /\ typed \in Nat /\ packet.length \in Nat
  /\ outcome \in {"starting", "ended", "none", "unsent", "sent", "accepted",
                 "refused"}
  /\ Grouped(wire)

\* An operation holds what its next call expects, and nothing else.
OpenAsCalled ==
  /\ ~misuse
  /\ open = IF op = "idle" THEN {} ELSE OpenAt(op, pc)

\* Nothing leaked but at an allocation.
LeaksAtMemory ==
  \A l \in leaked :
    /\ l.op \in DOMAIN Calls /\ l.pc \in 1..Len(Calls[l.op]) /\ l.ctx \in Contexts
    /\ Calls[l.op][l.pc].kind = "memory"

\* The operations run one after the other.
OneAtATime ==
  /\ op = "keyGen" => outcome = "starting"
  /\ op = "encrypt" => outcome = "unsent"
  /\ op \in {"hash", "decrypt"} => outcome = "sent"

\* decrypt goes on only with what it found right so far.
RightSoFar ==
  op = "decrypt" =>
    (/\ pc > 5 => Accepts("long")
     /\ pc > 11 => Accepts("key"))

Inductive ==
  /\ Typing /\ OpenAsCalled /\ LeaksAtMemory /\ OneAtATime /\ RightSoFar
  /\ AcceptedIffIntact

LEMMA OpenInContexts ==
  \A name \in DOMAIN Calls, n \in Nat : OpenAt(name, n) \subseteq Contexts
  BY OperationNames DEF OpenAt, Contexts

\* The call in progress.
LEMMA CallInProgress ==
  ASSUME Typing, OpenAsCalled, op # "idle"
  PROVE  /\ op \in DOMAIN Calls /\ pc \in 1..Len(Calls[op])
         /\ Orderly(op, Calls[op])
         /\ Disciplined(Calls[op][pc], open, OpenAt(op, pc + 1))
         /\ AtLastCall => OpenAt(op, pc + 1) = {}
<1>1. op \in DOMAIN Calls /\ pc \in 1..Len(Calls[op])
  BY DEF Typing
<1>2. Orderly(op, Calls[op])
  BY <1>1, Discipline
<1>3. open = OpenAt(op, pc)
  BY DEF OpenAsCalled
<1>4. Disciplined(Calls[op][pc], open, OpenAt(op, pc + 1))
  BY <1>1, <1>2, <1>3 DEF Orderly
<1>5. AtLastCall => OpenAt(op, pc + 1) = {}
  BY <1>2 DEF AtLastCall, Orderly
<1> QED
  BY <1>1, <1>2, <1>4, <1>5

\* The checks of decrypt together: a packet is accepted by all three only if
\* all its bytes are as they were packed.
LEMMA ChecksTogether ==
  ASSUME Typing
  PROVE  Decoded(wire) = Pack(packet.length) <=>
           Accepts("long") /\ Accepts("key") /\ Accepts("tag")
<1> DEFINE all == Decoded(wire)
<1>1. all \in Seq(Byte) /\ packet.length \in Nat
  BY DecodedBytes DEF Typing
<1> HIDE DEF all
<1>2. all = Pack(packet.length) <=>
           /\ Len(all) >= KeyBytes + IvBytes + TagBytes
           /\ Slices(all).key = Part("key", KeyBytes)
           /\ Slices(all).iv = Part("iv", IvBytes)
           /\ Slices(all).body = Part("body", packet.length)
           /\ Slices(all).tag = Part("tag", TagBytes)
  BY <1>1, SlicesOfPack
<1>3. /\ Accepts("long") <=> Len(all) >= KeyBytes + IvBytes + TagBytes
      /\ Accepts("key") <=> Slices(all).key = Part("key", KeyBytes)
      /\ Accepts("tag") <=> /\ Slices(all).iv = Part("iv", IvBytes)
                            /\ Slices(all).body = Part("body", packet.length)
                            /\ Slices(all).tag = Part("tag", TagBytes)
  BY Zenon DEF Accepts, all
<1> QED
  BY <1>2, <1>3 DEF all

LEMMA NothingToCheck == Accepts("nothing")
  BY DEF Accepts

-----------------------------------------------------------------------------
(***************************************************************************)
(* One lemma per part of Inductive, one step per action.                   *)
(***************************************************************************)
\* What Damage leaves of a text in groups is one.
LEMMA DamagedIsGrouped ==
  ASSUME NEW text, Grouped(text), NEW g \in DOMAIN text
  PROVE  /\ Grouped([text EXCEPT ![g] = [i \in DOMAIN @ |-> Junk]])
         /\ Grouped(SubSeq(text, 1, g - 1))
<1> DEFINE changed == [text EXCEPT ![g] = [i \in DOMAIN @ |-> Junk]]
           group == [i \in DOMAIN text[g] |-> Junk]
           kept == SubSeq(text, 1, g - 1)
<1>1. /\ text \in Seq(Seq(Byte)) /\ Len(text) \in Nat
      /\ DOMAIN text = 1..Len(text) /\ g \in 1..Len(text)
  BY DEF Grouped
<1>2. \A h \in 1..Len(text) :
        /\ text[h] \in Seq(Byte) /\ Len(text[h]) \in 1..3
        /\ h < Len(text) => Len(text[h]) = 3
  BY <1>1, ElementOfSeq DEF Grouped
<1>3. group \in Seq(Byte) /\ Len(group) = Len(text[g])
  <2>1. Junk \in Byte
    BY DEF Junk, Byte, Names
  <2>2. DOMAIN text[g] = 1..Len(text[g]) /\ Len(text[g]) \in Nat
    BY <1>1, <1>2
  <2>3. group \in [1..Len(text[g]) -> Byte]
    BY <2>1, <2>2
  <2> QED
    BY <2>2, <2>3
<1>4. changed = [text EXCEPT ![g] = group]
  OBVIOUS
<1> HIDE DEF group, changed
<1>5. /\ changed \in Seq(Seq(Byte)) /\ Len(changed) = Len(text)
      /\ \A h \in 1..Len(text) : changed[h] = IF h = g THEN group ELSE text[h]
  BY <1>1, <1>3, <1>4
<1>6. Grouped(changed)
  BY <1>1, <1>2, <1>3, <1>5 DEF Grouped
<1>7. /\ kept \in Seq(Seq(Byte)) /\ Len(kept) = g - 1
      /\ \A h \in 1..(g - 1) : kept[h] = text[h]
  <2> DEFINE l == g - 1
  <2>1. l \in Nat /\ l < Len(text)
    BY <1>1
  <2>2. \A h \in 1..l : text[h] \in Seq(Byte)
    BY <1>1, <1>2, <2>1
  <2> HIDE DEF l
  <2>3. /\ SubSeq(text, 1, l) \in Seq(Seq(Byte)) /\ Len(SubSeq(text, 1, l)) = l
        /\ \A h \in 1..l : SubSeq(text, 1, l)[h] = text[h]
    <3>1. /\ SubSeq(text, 1, l) \in Seq(Seq(Byte))
          /\ Len(SubSeq(text, 1, l)) = IF 1 <= l THEN l - 1 + 1 ELSE 0
          /\ \A h \in 1..(l - 1 + 1) : SubSeq(text, 1, l)[h] = text[1 + h - 1]
      BY <1>1, <2>1, <2>2, SubSeqProperties
    <3> QED
      BY <2>1, <3>1
  <2> QED
    BY <2>3 DEF l
<1> HIDE DEF kept
<1>8. Grouped(kept)
  <2>1. ASSUME NEW h \in 1..(g - 1)
        PROVE  kept[h] = text[h] /\ h \in 1..Len(text) /\ h < Len(text)
    BY <1>1, <1>7
  <2> QED
    BY <1>2, <1>7, <2>1 DEF Grouped
<1> QED
  BY <1>6, <1>8 DEF changed, kept

\* The text of a whole packet.
LEMMA PacketText ==
  ASSUME NEW n \in Nat
  PROVE  Pack(n) \in Seq(Byte) /\ Grouped(Encoded(Pack(n)))
  BY PackIsPacked, EncodedIsGrouped DEF Packed

\* What a complete operation leads to, case by case.
LEMMA Completion ==
  ASSUME op \in DOMAIN Calls, Complete
  PROVE  \/ /\ op = "keyGen" /\ op' = "publicKey" /\ pc' = 1
            /\ UNCHANGED <<wire, outcome>>
         \/ /\ op = "publicKey" /\ op' = "idle" /\ pc' = 0 /\ UNCHANGED wire
            /\ outcome' = IF outcome = "starting" THEN "none" ELSE outcome
         \/ /\ op = "encrypt" /\ op' = "idle" /\ pc' = 0 /\ outcome' = "sent"
            /\ wire' = Encoded(Pack(packet.length))
         \/ /\ op = "hash" /\ op' = "decrypt" /\ pc' = 1
            /\ UNCHANGED <<wire, outcome>>
         \/ /\ op = "decrypt" /\ op' = "idle" /\ pc' = 0 /\ outcome' = "accepted"
            /\ UNCHANGED wire
<1>1. CASE op = "keyGen"
  BY <1>1 DEF Complete, Begin
<1>2. CASE op = "publicKey"
  BY <1>2 DEF Complete
<1>3. CASE op = "encrypt"
  BY <1>3 DEF Complete
<1>4. CASE op = "hash"
  BY <1>4 DEF Complete, Begin
<1>5. CASE op = "decrypt"
  BY <1>5 DEF Complete
<1> QED
  BY <1>1, <1>2, <1>3, <1>4, <1>5, OperationNames

LEMMA OpenStep ==
  ASSUME Inductive, [Next]_vars
  PROVE  OpenAsCalled'
<1> USE DEF Inductive, OpenAsCalled
<1>1. CASE Succeed
  <2> DEFINE c == Calls[op][pc]
  <2>1. /\ Disciplined(c, open, OpenAt(op, pc + 1))
        /\ AtLastCall => OpenAt(op, pc + 1) = {}
        /\ op \in DOMAIN Calls
    BY <1>1, CallInProgress DEF Succeed
  <2>2. After(c, open) = OpenAt(op, pc + 1)
    BY <2>1 DEF Disciplined
  <2>3. ~misuse'
    BY <1>1, <2>1 DEF Succeed, Disciplined
  <2>4. CASE AtLastCall
    <3>1. open' = {}
      BY <1>1, <2>4 DEF Succeed, End
    <3>2. \/ op' = "idle"
          \/ op' \in {"publicKey", "decrypt"} /\ pc' = 1
      <4>1. Complete
        BY <1>1, <2>4 DEF Succeed
      <4> QED
        BY <2>1, <4>1, Completion
    <3> QED
      BY <2>3, <3>1, <3>2, OpenTable, OpenInDecrypt
  <2>5. CASE ~AtLastCall
    BY <1>1, <2>2, <2>3, <2>5 DEF Succeed
  <2> QED
    BY <2>4, <2>5
<1>2. CASE Fail
  <2> DEFINE c == Calls[op][pc]
  <2>1. Disciplined(c, open, OpenAt(op, pc + 1))
    BY <1>2, CallInProgress DEF Fail
  <2>2. c.undo = IF c.kind = "memory" THEN {} ELSE open
    BY <1>2, <2>1, NothingToCheck DEF Fail, Disciplined
  <2> QED
    BY <1>2, <2>2 DEF Fail, End
<1>3. ASSUME NEW n \in Typed, NEW length \in BodyLengths, DemoSend(n, length)
      PROVE  OpenAsCalled'
  BY <1>3, OpenInEncrypt DEF DemoSend, Begin
<1>4. CASE GetServerKey
  BY <1>4, OpenTable DEF GetServerKey, Begin
<1>5. CASE Damage
  BY <1>5 DEF Damage
<1>6. CASE Ingest
  BY <1>6, OpenTable DEF Ingest, Begin
<1>7. CASE Exited \/ UNCHANGED vars
  BY <1>7 DEF Exited, vars
<1> QED
  BY <1>1, <1>2, <1>3, <1>4, <1>5, <1>6, <1>7 DEF Next

\* An operation that ends leaves contexts behind only at an allocation.
LEMMA LeaksStep ==
  ASSUME Inductive, [Next]_vars
  PROVE  LeaksAtMemory'
<1> USE DEF Inductive
<1>1. ASSUME leaked' = leaked
      PROVE  LeaksAtMemory'
  BY <1>1 DEF LeaksAtMemory
<1>2. ASSUME op # "idle", NEW left \in SUBSET open, End(left),
             left # {} => Calls[op][pc].kind = "memory"
      PROVE  LeaksAtMemory'
  <2>1. /\ op \in DOMAIN Calls /\ pc \in 1..Len(Calls[op])
        /\ open \subseteq Contexts
    BY <1>2, CallInProgress, OpenInContexts DEF OpenAsCalled, Orderly
  <2>2. ASSUME NEW l \in leaked', l \notin leaked
        PROVE  /\ l.op = op /\ l.pc = pc /\ l.ctx \in Contexts
               /\ Calls[op][pc].kind = "memory"
    BY <1>2, <2>1, <2>2 DEF End
  <2> QED
    BY <2>1, <2>2 DEF LeaksAtMemory
<1>3. CASE Succeed
  <2>1. CASE AtLastCall
    <3>1. End(After(Calls[op][pc], open)) /\ op # "idle"
      BY <1>3, <2>1 DEF Succeed
    <3>2. After(Calls[op][pc], open) = {}
      BY <2>1, <3>1, CallInProgress DEF Disciplined
    <3> QED
      BY <1>2, <3>1, <3>2
  <2>2. CASE ~AtLastCall
    BY <1>1, <1>3, <2>2 DEF Succeed
  <2> QED
    BY <2>1, <2>2
<1>4. CASE Fail
  <2> DEFINE c == Calls[op][pc]
  <2>1. Disciplined(c, open, OpenAt(op, pc + 1)) /\ op # "idle"
    BY <1>4, CallInProgress DEF Fail
  <2>2. c.undo = IF c.kind = "memory" THEN {} ELSE open
    BY <1>4, <2>1, NothingToCheck DEF Fail, Disciplined
  <2>3. open \ c.undo # {} => c.kind = "memory"
    BY <2>2
  <2>4. End(open \ c.undo)
    BY <1>4 DEF Fail
  <2> QED
    BY <1>2, <2>1, <2>3, <2>4
<1>5. ASSUME NEW n \in Typed, NEW length \in BodyLengths, DemoSend(n, length)
      PROVE  LeaksAtMemory'
  BY <1>1, <1>5 DEF DemoSend
<1>6. CASE GetServerKey \/ Damage \/ Ingest
  BY <1>1, <1>6 DEF GetServerKey, Damage, Ingest
<1>7. CASE Exited \/ UNCHANGED vars
  BY <1>1, <1>7 DEF Exited, vars
<1> QED
  BY <1>3, <1>4, <1>5, <1>6, <1>7 DEF Next

LEMMA TypingStep ==
  ASSUME Inductive, [Next]_vars
  PROVE  Typing'
<1> USE DEF Inductive
<1>1. CASE Succeed
  <2> DEFINE c == Calls[op][pc]
  <2>1. /\ op \in DOMAIN Calls /\ pc \in 1..Len(Calls[op])
        /\ Orderly(op, Calls[op])
    BY <1>1, CallInProgress DEF Succeed
  <2>2. UNCHANGED <<failed, packet, typed>>
    BY <1>1 DEF Succeed
  <2>3. misuse' \in BOOLEAN
    BY <1>1 DEF Succeed, Typing
  <2>4. CASE AtLastCall
    <3>1. Complete
      BY <1>1, <2>4 DEF Succeed
    <3>2. Grouped(wire')
      <4>1. packet.length \in Nat
        BY DEF Typing
      <4>2. Grouped(Encoded(Pack(packet.length)))
        BY <4>1, PacketText
      <4> QED
        BY <2>1, <3>1, <4>2, Completion DEF Typing
    <3>3. \/ op' = "idle" /\ pc' = 0
          \/ op' \in {"publicKey", "decrypt"} /\ pc' = 1
      BY <2>1, <3>1, Completion
    <3>4. /\ {"publicKey", "decrypt"} \subseteq DOMAIN Calls
          /\ \A name \in {"publicKey", "decrypt"} : 1 \in 1..Len(Calls[name])
      <4>1. Len(Calls["publicKey"]) = 6
        BY OperationNames, PublicKeyCalls
      <4>2. Len(Calls["decrypt"]) = 21
        BY OperationNames, DecryptCalls
      <4>3. {"publicKey", "decrypt"} \subseteq DOMAIN Calls
        BY OperationNames
      <4>4. 1 \in 1..6 /\ 1 \in 1..21
        OBVIOUS
      <4> QED
        BY <4>1, <4>2, <4>3, <4>4, Zenon
    <3>5. outcome' \in {outcome, "none", "sent", "accepted"}
      BY <2>1, <3>1, Completion
    <3> QED
      BY <2>2, <2>3, <3>2, <3>3, <3>4, <3>5 DEF Typing
  <2>5. CASE ~AtLastCall
    <3>1. pc' = pc + 1 /\ UNCHANGED <<op, wire, outcome>>
      BY <1>1, <2>5 DEF Succeed
    <3>2. pc' \in 1..Len(Calls[op])
      <4> DEFINE last == Len(Calls[op])
      <4>1. last \in Nat /\ pc \in 1..last /\ pc # last
        BY <2>1, <2>5 DEF AtLastCall, Orderly
      <4> HIDE DEF last
      <4>2. pc + 1 \in 1..last
        BY <4>1
      <4> QED
        BY <3>1, <4>2 DEF last
    <3> QED
      BY <2>1, <2>2, <2>3, <3>1, <3>2 DEF Typing
  <2> QED
    BY <2>4, <2>5
<1>2. CASE Fail
  <2>1. /\ op' = "idle" /\ pc' = 0 /\ UNCHANGED <<packet, typed, wire>>
        /\ misuse' \in BOOLEAN /\ failed' \in BOOLEAN
    BY <1>2 DEF Fail, Typing
  <2>2. outcome' \in {outcome, "ended", "unsent", "refused"}
    BY <1>2 DEF Fail
  <2> QED
    BY <2>1, <2>2 DEF Typing
<1>3. ASSUME NEW n \in Typed, NEW length \in BodyLengths, DemoSend(n, length)
      PROVE  Typing'
  <2>1. /\ op' = "encrypt" /\ pc' = 1 /\ typed' = n /\ outcome' = "unsent"
        /\ failed' = FALSE /\ UNCHANGED <<misuse, wire>>
        /\ packet'.length = length
    BY <1>3 DEF DemoSend, Begin
  <2>2. n \in Nat /\ length \in Nat
    BY HybridCryptoAssumption
  <2>3. "encrypt" \in DOMAIN Calls /\ 1 \in 1..Len(Calls["encrypt"])
    BY OperationNames, EncryptCalls
  <2> QED
    BY <2>1, <2>2, <2>3 DEF Typing
<1>4. CASE GetServerKey
  <2>1. "publicKey" \in DOMAIN Calls /\ 1 \in 1..Len(Calls["publicKey"])
    BY OperationNames, PublicKeyCalls
  <2> QED
    BY <1>4, <2>1 DEF GetServerKey, Begin, Typing
<1>5. CASE Damage
  <2>1. Grouped(wire')
    <3>1. PICK g \in DOMAIN wire :
            \/ wire' = [wire EXCEPT ![g] = [i \in DOMAIN @ |-> Junk]]
            \/ wire' = SubSeq(wire, 1, g - 1)
      BY <1>5 DEF Damage
    <3>2. /\ Grouped([wire EXCEPT ![g] = [i \in DOMAIN @ |-> Junk]])
          /\ Grouped(SubSeq(wire, 1, g - 1))
      BY DamagedIsGrouped DEF Typing
    <3> QED
      BY <3>1, <3>2, Zenon
  <2> QED
    BY <1>5, <2>1 DEF Damage, Typing
<1>6. CASE Ingest
  <2>1. "hash" \in DOMAIN Calls /\ 1 \in 1..Len(Calls["hash"])
    BY OperationNames, HashCalls
  <2> QED
    BY <1>6, <2>1 DEF Ingest, Begin, Typing
<1>7. CASE Exited \/ UNCHANGED vars
  BY <1>7 DEF Exited, vars, Typing
<1> QED
  BY <1>1, <1>2, <1>3, <1>4, <1>5, <1>6, <1>7 DEF Next

LEMMA OneAtATimeStep ==
  ASSUME Inductive, [Next]_vars
  PROVE  OneAtATime'
<1> USE DEF Inductive, OneAtATime
<1>1. CASE Succeed
  <2>1. op \in DOMAIN Calls
    BY <1>1, CallInProgress DEF Succeed
  <2>2. CASE AtLastCall
    BY <1>1, <2>1, <2>2, Completion DEF Succeed
  <2>3. CASE ~AtLastCall
    BY <1>1, <2>3 DEF Succeed
  <2> QED
    BY <2>2, <2>3
<1>2. CASE Fail
  BY <1>2 DEF Fail
<1>3. ASSUME NEW n \in Typed, NEW length \in BodyLengths, DemoSend(n, length)
      PROVE  OneAtATime'
  BY <1>3 DEF DemoSend, Begin
<1>4. CASE GetServerKey
  BY <1>4 DEF GetServerKey, Begin
<1>5. CASE Damage
  BY <1>5 DEF Damage
<1>6. CASE Ingest
  BY <1>6 DEF Ingest, Begin
<1>7. CASE Exited \/ UNCHANGED vars
  BY <1>7 DEF Exited, vars
<1> QED
  BY <1>1, <1>2, <1>3, <1>4, <1>5, <1>6, <1>7 DEF Next

\* The text and what was sealed stay while an operation of the receiver runs.
LEMMA SameAnswers ==
  ASSUME UNCHANGED <<wire, packet>>
  PROVE  /\ \A check \in Checks : Accepts(check)' = Accepts(check)
         /\ (Decoded(wire) = Pack(packet.length))'
              <=> Decoded(wire) = Pack(packet.length)
  BY DEF Accepts

LEMMA RightSoFarStep ==
  ASSUME Inductive, [Next]_vars
  PROVE  RightSoFar'
<1> USE DEF Inductive, RightSoFar
<1>1. CASE Succeed
  <2>1. op \in DOMAIN Calls /\ pc \in 1..Len(Calls[op])
    BY <1>1, CallInProgress DEF Succeed
  <2>2. CASE AtLastCall
    <3>1. Complete
      BY <1>1, <2>2 DEF Succeed
    <3> QED
      BY <2>1, <3>1, Completion
  <2>3. CASE ~AtLastCall
    <3>1. pc' = pc + 1 /\ op' = op /\ UNCHANGED <<wire, packet>>
      BY <1>1, <2>3 DEF Succeed
    <3>2. CASE op = "decrypt"
      <4>1. Calls[op] = Decrypt /\ pc \in 1..21
        BY <2>1, <3>2, OperationNames, DecryptCalls
      <4>2. pc = 5 => Calls[op][pc].check = "long"
        BY <4>1, DecryptCalls, Fields DEF Entry, Checks
      <4>3. pc = 11 => Calls[op][pc].check = "key"
        <5>1. "rsa" \in Contexts
          BY DEF Contexts
        <5> QED
          <6>1. Decrypt[11] = [Use("rsa") EXCEPT !.check = "key"]
            BY DecryptCalls
          <6>2. Entry(Decrypt[11], "use", "rsa", {"rsa"}, "key", TRUE)
            BY <5>1, <6>1, Fields, Zenon
          <6>3. Decrypt[11].check = "key"
            BY <6>2 DEF Entry
          <6> QED
            BY <4>1, <6>3
      <4>4. Accepts(Calls[op][pc].check)
        BY <1>1 DEF Succeed
      <4>5. /\ pc >= 5 => Accepts("long")
            /\ pc >= 11 => Accepts("key")
        BY <3>2, <4>1, <4>2, <4>3, <4>4
      <4>6. /\ Accepts("long")' = Accepts("long")
            /\ Accepts("key")' = Accepts("key")
        BY <3>1, SameAnswers DEF Checks
      <4> QED
        BY <3>1, <4>1, <4>5, <4>6
    <3> QED
      BY <3>1, <3>2
  <2> QED
    BY <2>2, <2>3
<1>2. CASE Fail
  BY <1>2 DEF Fail
<1>3. ASSUME NEW n \in Typed, NEW length \in BodyLengths, DemoSend(n, length)
      PROVE  RightSoFar'
  BY <1>3 DEF DemoSend, Begin
<1>4. CASE GetServerKey
  BY <1>4 DEF GetServerKey, Begin
<1>5. CASE Damage
  BY <1>5 DEF Damage
<1>6. CASE Ingest
  BY <1>6 DEF Ingest, Begin
<1>7. CASE Exited \/ UNCHANGED vars
  <2>1. /\ op' = op /\ pc' = pc /\ UNCHANGED <<wire, packet>>
    BY <1>7 DEF Exited, vars
  <2>2. /\ Accepts("long")' = Accepts("long") /\ Accepts("key")' = Accepts("key")
    BY <2>1, SameAnswers DEF Checks
  <2> QED
    BY <2>1, <2>2
<1> QED
  BY <1>1, <1>2, <1>3, <1>4, <1>5, <1>6, <1>7 DEF Next

LEMMA IntactStep ==
  ASSUME Inductive, [Next]_vars
  PROVE  AcceptedIffIntact'
<1> DEFINE intact == Decoded(wire) = Pack(packet.length)
<1> USE DEF Inductive
<1>0. /\ outcome = "accepted" => intact
      /\ outcome = "refused" /\ ~failed => ~intact
  BY DEF AcceptedIffIntact
<1>1. ASSUME UNCHANGED <<wire, packet>>
      PROVE  AcceptedIffIntact' <=>
               /\ outcome' = "accepted" => intact
               /\ outcome' = "refused" /\ ~failed' => ~intact
  BY <1>1, SameAnswers DEF AcceptedIffIntact
<1>2. intact <=> Accepts("long") /\ Accepts("key") /\ Accepts("tag")
  BY ChecksTogether
<1>3. ASSUME outcome' \notin {"accepted", "refused"}
      PROVE  AcceptedIffIntact'
  BY <1>3 DEF AcceptedIffIntact
<1> HIDE DEF intact
<1>31. ASSUME UNCHANGED <<wire, packet, failed>>, outcome' \in {outcome, "none"}
       PROVE  AcceptedIffIntact'
  <2>1. failed' = failed /\ UNCHANGED <<wire, packet>>
    BY <1>31
  <2>2. /\ outcome = "accepted" => intact
        /\ outcome = "refused" /\ ~failed => ~intact
    BY <1>0
  <2>3. /\ outcome' = "accepted" => outcome = "accepted"
        /\ outcome' = "refused" => outcome = "refused"
    BY <1>31
  <2> QED
    BY <1>1, <2>1, <2>2, <2>3
<1>4. CASE Succeed
  <2>1. op \in DOMAIN Calls /\ pc \in 1..Len(Calls[op])
    BY <1>4, CallInProgress DEF Succeed
  <2>2. UNCHANGED <<failed, packet>>
    BY <1>4 DEF Succeed
  <2>3. CASE AtLastCall
    <3>1. Complete
      BY <1>4, <2>3 DEF Succeed
    <3>2. CASE op \in {"keyGen", "publicKey", "hash"}
      <4>1. UNCHANGED wire /\ outcome' \in {outcome, "none"}
        BY <2>1, <3>1, <3>2, Completion
      <4> QED
        BY <1>31, <2>2, <4>1
    <3>3. CASE op = "encrypt"
      <4>1. outcome' = "sent"
        BY <2>1, <3>1, <3>3, Completion
      <4> QED
        BY <1>3, <4>1
    <3>4. CASE op = "decrypt"
      <4>1. UNCHANGED wire /\ outcome' = "accepted"
        BY <2>1, <3>1, <3>4, Completion
      <4>2. pc = 21 /\ Calls[op][pc] = Test("tag")
        BY <2>3, <3>4, OperationNames, DecryptCalls DEF AtLastCall
      <4>3. Calls[op][pc].check = "tag"
        BY <4>2, Fields DEF Entry, Checks
      <4>4. Accepts("tag")
        BY <1>4, <4>3 DEF Succeed
      <4>5. Accepts("long") /\ Accepts("key")
        BY <3>4, <4>2 DEF RightSoFar
      <4> QED
        BY <1>1, <1>2, <2>2, <4>1, <4>4, <4>5
    <3> QED
      BY <2>1, <3>2, <3>3, <3>4, OperationNames
  <2>4. CASE ~AtLastCall
    <3>1. UNCHANGED <<wire, outcome>>
      BY <1>4, <2>4 DEF Succeed
    <3> QED
      BY <1>31, <2>2, <3>1
  <2> QED
    BY <2>3, <2>4
<1>5. CASE Fail
  <2> DEFINE check == Calls[op][pc].check
  <2>1. /\ UNCHANGED <<wire, packet>> /\ op # "idle"
        /\ failed' <=> failed \/ Accepts(check)
    BY <1>5 DEF Fail, Typing
  <2>2. check \in Checks /\ op \in DOMAIN Calls
    BY <2>1, CallInProgress DEF Disciplined
  <2> HIDE DEF check
  <2>3. ~failed' => ~intact /\ ~failed
    BY <1>2, <2>1, <2>2, NothingToCheck DEF Checks
  <2>4. outcome' = "accepted" => outcome = "accepted"
    BY <1>5 DEF Fail
  <2> QED
    BY <1>0, <1>1, <2>1, <2>3, <2>4
<1>6. ASSUME NEW n \in Typed, NEW length \in BodyLengths, DemoSend(n, length)
      PROVE  AcceptedIffIntact'
  BY <1>3, <1>6 DEF DemoSend
<1>7. CASE GetServerKey
  BY <1>31, <1>7 DEF GetServerKey
<1>8. CASE Damage
  BY <1>3, <1>8 DEF Damage
<1>9. CASE Ingest
  BY <1>3, <1>9 DEF Ingest
<1>10. CASE Exited \/ UNCHANGED vars
  <2>1. UNCHANGED <<wire, packet, outcome, failed>>
    BY <1>10 DEF Exited, vars
  <2> QED
    BY <1>31, <2>1
<1> QED
  BY <1>4, <1>5, <1>6, <1>7, <1>8, <1>9, <1>10 DEF Next

-----------------------------------------------------------------------------
(***************************************************************************)
(* Theorems.                                                               *)
(***************************************************************************)
LEMMA InitInductive == Init => Inductive
<1> SUFFICES ASSUME Init PROVE Inductive
  OBVIOUS
<1>1. Grouped(wire)
  BY DEF Init, Grouped
<1>2. Typing
  <2>1. "keyGen" \in DOMAIN Calls /\ 1 \in 1..Len(Calls["keyGen"])
    BY OperationNames, KeyGenCalls
  <2>2. packet.length \in Nat
    BY DEF Init, NoPacket
  <2> QED
    BY <1>1, <2>1, <2>2 DEF Init, Typing
<1> QED
  BY <1>2, OpenTable
  DEF Init, Inductive, OpenAsCalled, LeaksAtMemory, OneAtATime, RightSoFar,
      AcceptedIffIntact

LEMMA NextInductive == Inductive /\ [Next]_vars => Inductive'
  BY TypingStep, OpenStep, LeaksStep, OneAtATimeStep, RightSoFarStep, IntactStep
  DEF Inductive

THEOREM Invariance == Spec => []Inductive
  BY InitInductive, NextInductive, PTL DEF Spec

\* The variables stay in their types: an operation runs one of its calls, and
\* the text keeps to groups of one to three bytes.
THEOREM TypeCorrect == Spec => []TypeOK
<1>1. ASSUME Inductive PROVE TypeOK
  <2>1. open \subseteq Contexts
    BY <1>1, OpenInContexts DEF Inductive, Typing, OpenAsCalled, Contexts, Orderly
  <2>2. \A g \in DOMAIN wire : Len(wire[g]) \in 1..3
    BY <1>1 DEF Inductive, Typing, Grouped
  <2>3. op # "idle" => DOMAIN Calls[op] = 1..Len(Calls[op])
    BY <1>1, Discipline DEF Inductive, Typing, Orderly
  <2>4. \A l \in leaked : l.op \in DOMAIN Calls
                          /\ l.pc \in DOMAIN Calls[l.op] /\ l.ctx \in Contexts
    BY <1>1, Discipline DEF Inductive, LeaksAtMemory, Orderly
  <2> QED
    BY <1>1, <2>1, <2>2, <2>3, <2>4 DEF Inductive, Typing, TypeOK
<1> QED
  BY Invariance, <1>1, PTL

\* ContextsFreed: whichever call of OpenSSL fails, each operation of
\* HybridCryptoService and ServerKeyHolder has freed every context once when it
\* returns or throws; only a vector or a string that cannot be allocated while
\* a context is open makes it leak.
THEOREM OnlyAllocationsLeak == Spec => []ContextsFreed
<1>1. Inductive => ContextsFreed
  BY DEF Inductive, OpenAsCalled, LeaksAtMemory, ContextsFreed
<1> QED
  BY Invariance, <1>1, PTL

\* decrypt accepts a packet only with all its bytes as encrypt packed them,
\* for every length of key, IV, tag and body.
THEOREM OnlyWholePacketsPass == Spec => []AcceptedIffIntact
<1>1. Inductive => AcceptedIffIntact
  BY DEF Inductive
<1> QED
  BY Invariance, <1>1, PTL

\* A packet that arrives as it was sent is refused only when a call of OpenSSL
\* failed: no length of the body falls between two groups of base64.
Undamaged ==
  outcome = "refused" /\ wire = Encoded(Pack(packet.length)) => failed

THEOREM WholePacketsPass == Spec => []Undamaged
<1>1. ASSUME Inductive PROVE Undamaged
  <2>1. Decoded(Encoded(Pack(packet.length))) = Pack(packet.length)
    BY <1>1, PacketText, RoundTrip DEF Inductive, Typing
  <2> QED
    BY <1>1, <2>1 DEF Inductive, AcceptedIffIntact, Undamaged
<1> QED
  BY Invariance, <1>1, PTL

-----------------------------------------------------------------------------
(***************************************************************************)
(* Amounts.  A conversion to rupees and back rounds twice.  With enough    *)
(* digits behind the point both roundings together are less than half a    *)
(* paisa, and the third, to whole paise, undoes them.                      *)
(***************************************************************************)
\* Induction: among the numbers that break a rule one is the least.
LEMMA LeastNumber ==
  ASSUME NEW T \in SUBSET Nat, T # {}
  PROVE  \E m \in T : \A i \in T : m <= i
<1>1. PICK m \in T : \A y \in T : ~(<<y, m>> \in OpToRel(<, Nat))
  BY NatLessThanWellFounded, WFMin
<1>2. \A y \in T : ~(y < m)
  BY <1>1 DEF OpToRel
<1> QED
  BY <1>2

\* What \div and % are.
LEMMA DivMod ==
  ASSUME NEW a \in Nat, NEW b \in Nat \ {0}
  PROVE  /\ a \div b \in Nat /\ a % b \in Nat
         /\ a = b * (a \div b) + (a % b)
         /\ a % b < b
  OBVIOUS

\* The quotient is the number whose multiples enclose the dividend.
LEMMA DivIs ==
  ASSUME NEW a \in Nat, NEW b \in Nat \ {0}, NEW n \in Nat,
         n * b <= a, a < n * b + b
  PROVE  a \div b = n
<1> DEFINE q == a \div b
<1>1. q \in Nat /\ b * q <= a /\ a < b * q + b
  BY DivMod
<1> HIDE DEF q
<1>2. ~(q < n)
  <2>1. SUFFICES ASSUME q + 1 <= n PROVE FALSE
    BY <1>1
  <2>2. b * (q + 1) <= b * n
    BY <1>1, <2>1
  <2> QED
    BY <1>1, <2>2
<1>3. ~(n < q)
  <2>1. SUFFICES ASSUME n + 1 <= q PROVE FALSE
    BY <1>1
  <2>2. b * (n + 1) <= b * q
    BY <1>1, <2>1
  <2> QED
    BY <1>1, <2>2
<1> QED
  BY <1>1, <1>2, <1>3 DEF q

\* Rounding to nearest is off by half at most.
LEMMA NearestEvenClose ==
  ASSUME NEW a \in Nat, NEW b \in Nat \ {0}
  PROVE  /\ NearestEven(a, b) \in Nat
         /\ 2 * a - b <= 2 * (b * NearestEven(a, b))
         /\ 2 * (b * NearestEven(a, b)) <= 2 * a + b
<1> DEFINE q == a \div b
           r == a % b
<1>1. q \in Nat /\ r \in Nat /\ a = b * q + r /\ r < b
  BY DivMod
<1>2. \/ NearestEven(a, b) = q /\ 2 * r <= b
      \/ NearestEven(a, b) = q + 1 /\ 2 * r >= b
  BY <1>1 DEF NearestEven
<1> HIDE DEF q, r
<1>3. b * (q + 1) = b * q + b
  BY <1>1
<1> QED
  BY <1>1, <1>2, <1>3

\* The table of the powers of two up to the n-th.
PowersUpTo(n, f) == f = [k \in 0..n |-> IF k = 0 THEN 1 ELSE 2 * f[k - 1]]

\* There is a table of powers of any length.
LEMMA PowersExist ==
  ASSUME NEW n \in Nat
  PROVE  \E f : PowersUpTo(n, f)
<1> DEFINE T == {k \in Nat : ~ \E f : PowersUpTo(k, f)}
<1>1. SUFFICES ASSUME T # {}
               PROVE  FALSE
  OBVIOUS
<1>2. PICK m \in T : \A k \in T : m <= k
  BY <1>1, LeastNumber
<1>3. m # 0
  <2>1. PowersUpTo(0, [k \in 0..0 |-> 1])
    BY DEF PowersUpTo
  <2> QED
    BY <2>1
<1>4. PICK f : PowersUpTo(m - 1, f)
  BY <1>2, <1>3
<1> DEFINE next == [k \in 0..m |-> IF k = m THEN 2 * f[m - 1] ELSE f[k]]
<1>5. PowersUpTo(m, next)
  <2>1. m \in Nat \ {0}
    BY <1>3
  <2>2. \A k \in 0..m : next[k] = IF k = 0 THEN 1 ELSE 2 * next[k - 1]
    BY <1>4, <2>1 DEF PowersUpTo
  <2> QED
    BY <2>2 DEF PowersUpTo
<1> QED
  BY <1>5

\* Pow2 is one: each power is twice the one before,
LEMMA Pow2Steps ==
  /\ Pow2[0] = 1
  /\ \A k \in 1..MaxScale : Pow2[k] = 2 * Pow2[k - 1]
<1>1. Pow2 = CHOOSE f : PowersUpTo(MaxScale, f)
  BY DEF Pow2, PowersUpTo
<1>2. PowersUpTo(MaxScale, Pow2)
  BY <1>1, PowersExist, AmountsAssumption
<1> QED
  BY <1>2, AmountsAssumption DEF PowersUpTo

\* none is less than one
LEMMA Pow2Type == \A k \in 0..MaxScale : Pow2[k] \in Nat \ {0}
<1> DEFINE T == {k \in 0..MaxScale : Pow2[k] \notin Nat \ {0}}
<1> SUFFICES ASSUME T # {}
             PROVE  FALSE
  OBVIOUS
<1>1. PICK m \in T : \A k \in T : m <= k
  <2>1. T \in SUBSET Nat
    BY AmountsAssumption
  <2> QED
    BY <2>1, LeastNumber
<1>2. m # 0
  BY Pow2Steps
<1>3. m \in 1..MaxScale /\ m - 1 \in 0..MaxScale
  BY <1>2, AmountsAssumption
<1>4. Pow2[m - 1] \in Nat \ {0}
  BY <1>1, <1>3
<1>5. Pow2[m] = 2 * Pow2[m - 1]
  BY <1>3, Pow2Steps
<1> QED
  BY <1>4, <1>5

\* and none is less than an earlier one.
LEMMA Pow2Grows ==
  ASSUME NEW i \in 0..MaxScale, NEW j \in 0..MaxScale, i <= j
  PROVE  Pow2[i] <= Pow2[j]
<1> DEFINE T == {k \in i..MaxScale : ~(Pow2[i] <= Pow2[k])}
<1>1. T = {}
  <2> SUFFICES ASSUME T # {}
               PROVE  FALSE
    OBVIOUS
  <2>1. PICK m \in T : \A k \in T : m <= k
    <3>1. T \in SUBSET Nat
      BY AmountsAssumption
    <3> QED
      BY <3>1, LeastNumber
  <2>2. m # i
    BY Pow2Type
  <2>3. m \in 1..MaxScale /\ m - 1 \in i..MaxScale /\ m - 1 \in 0..MaxScale
    BY <2>2, AmountsAssumption
  <2>4. Pow2[i] <= Pow2[m - 1]
    BY <2>1, <2>3
  <2>5. Pow2[m] = 2 * Pow2[m - 1] /\ Pow2[m - 1] \in Nat /\ Pow2[i] \in Nat
    BY <2>3, Pow2Steps, Pow2Type
  <2> QED
    BY <2>4, <2>5
<1> QED
  BY <1>1, AmountsAssumption

\* A comparison survives a common factor.
LEMMA Scaled ==
  ASSUME NEW a \in Int, NEW b \in Int, NEW c \in Nat \ {0}
  PROVE  /\ a <= b => a * c <= b * c
         /\ a < b => a * c < b * c
         /\ a * c < b * c => a < b
         /\ a * c <= b * c => a <= b
  OBVIOUS

\* A number that is neither too large nor too small has a floating-point
\* number next to it, with all its digits: the least power of two that makes it
\* large enough does not make it too large.
LEMMA FlNormal ==
  ASSUME NEW a \in Nat \ {0}, NEW b \in Nat \ {0},
         a < b * Pow2[Precision],
         b * Pow2[Precision - 1] <= a * Pow2[MaxScale]
  PROVE  \E k \in 0..MaxScale :
           /\ Fl(a, b) = [m |-> NearestEven(a * Pow2[k], b), k |-> k]
           /\ b * Pow2[Precision - 1] <= a * Pow2[k]
           /\ a * Pow2[k] < b * Pow2[Precision]
<1> DEFINE Normal(k) == /\ b * Pow2[Precision - 1] <= a * Pow2[k]
                        /\ a * Pow2[k] < b * Pow2[Precision]
<1>1. \E k \in 0..MaxScale : Normal(k)
  <2> DEFINE T == {k \in 0..MaxScale : b * Pow2[Precision - 1] <= a * Pow2[k]}
  <2>1. PICK k \in T : \A i \in T : k <= i
    <3>1. T \in SUBSET Nat /\ MaxScale \in T
      BY AmountsAssumption
    <3> QED
      BY <3>1, LeastNumber
  <2>2. CASE k = 0
    BY <2>1, <2>2, Pow2Steps
  <2>3. CASE k # 0
    <3>1. k \in 1..MaxScale /\ k - 1 \in 0..MaxScale /\ k - 1 \notin T
      BY <2>1, <2>3, AmountsAssumption
    <3>2. /\ Pow2[k] = 2 * Pow2[k - 1] /\ Pow2[k - 1] \in Nat
          /\ Pow2[Precision] = 2 * Pow2[Precision - 1]
          /\ Pow2[Precision - 1] \in Nat
      BY <3>1, Pow2Steps, Pow2Type, AmountsAssumption
    <3>3. a * Pow2[k - 1] < b * Pow2[Precision - 1]
      BY <3>1, <3>2
    <3>4. /\ a * Pow2[k] = 2 * (a * Pow2[k - 1])
          /\ b * Pow2[Precision] = 2 * (b * Pow2[Precision - 1])
      BY <3>2
    <3>5. /\ a * Pow2[k - 1] \in Nat /\ b * Pow2[Precision - 1] \in Nat
      BY <3>2
    <3>6. a * Pow2[k] < b * Pow2[Precision]
      BY <3>3, <3>4, <3>5
    <3> QED
      BY <2>1, <3>6
  <2> QED
    BY <2>2, <2>3
<1> DEFINE k == CHOOSE j \in 0..MaxScale : Normal(j)
<1>2. k \in 0..MaxScale /\ Normal(k)
  BY <1>1
<1>3. Fl(a, b) = [m |-> NearestEven(a * Pow2[k], b), k |-> k]
  BY DEF Fl
<1> QED
  BY <1>2, <1>3

\* An amount of n units times K is rounded to 100 * m, and that times J to
\* K * M, with digits enough behind the point or nothing to round at first.
TwoRoundings(n, m, M, K, J) ==
  /\ n \in Nat /\ m \in Nat /\ M \in Nat
  /\ K \in Nat \ {0} /\ J \in Nat \ {0}
  /\ \/ K >= 256 /\ J >= 2
     \/ 100 * m = n * K
  /\ 2 * (n * K) - 100 <= 2 * (100 * m)
  /\ 2 * (100 * m) <= 2 * (n * K) + 100
  /\ 2 * (m * 100 * J) - K <= 2 * (K * M)
  /\ 2 * (K * M) <= 2 * (m * 100 * J) + K

\* The two stay within half a unit, so that rounding to units undoes them.
LEMMA RoundingsAbsorbed ==
  ASSUME NEW n, NEW m, NEW M, NEW K, NEW J, TwoRoundings(n, m, M, K, J)
  PROVE  NearestAway(M, J) = n
<1> USE DEF TwoRoundings
<1> DEFINE d == M - n * J
           e == 100 * m - n * K
<1>1. d \in Int /\ e \in Int /\ M = n * J + d /\ n * J \in Nat
  OBVIOUS
<1>2. -50 <= e /\ e <= 50
  OBVIOUS
<1>3. K * d = (K * M - m * 100 * J) + J * e
  <2>1. K * d = K * M - K * (n * J)
    BY <1>1
  <2>2. J * e = m * 100 * J - K * (n * J)
    OBVIOUS
  <2> QED
    BY <2>1, <2>2
<1> HIDE DEF d, e
<1>4. -K + 2 * (J * e) <= 2 * (K * d) /\ 2 * (K * d) <= K + 2 * (J * e)
  BY <1>1, <1>3
<1>5. -J <= 2 * d /\ 2 * d < J
  <2>1. CASE 100 * m = n * K
    <3>1. e = 0
      BY <2>1 DEF e
    <3>2. -K <= 2 * (K * d) /\ 2 * (K * d) <= K
      BY <1>1, <1>4, <3>1
    <3>3. d = 0
      BY <1>1, <3>2
    <3> QED
      BY <3>3
  <2>2. CASE K >= 256 /\ J >= 2
    <3>1. -(50 * J) <= J * e /\ J * e <= 50 * J
      BY <1>1, <1>2
    <3>2. K + 100 * J < K * J
      <4>1. PICK x \in Nat, y \in Nat : K = 256 + x /\ J = 2 + y
        BY <2>2
      <4>2. K * J = 512 + 256 * y + 2 * x + x * y /\ x * y \in Nat
        BY <4>1
      <4> QED
        BY <4>1, <4>2
    <3>3. -(K * J) < 2 * (K * d) /\ 2 * (K * d) < K * J
      <4>1. /\ K * d \in Int /\ J * e \in Int /\ K * J \in Nat
        BY <1>1
      <4> QED
        BY <1>4, <3>1, <3>2, <4>1
    <3>4. -J < 2 * d /\ 2 * d < J
      <4>1. /\ 2 * (K * d) = (2 * d) * K /\ K * J = J * K
            /\ -(K * J) = (-J) * K
        BY <1>1
      <4> QED
        BY <1>1, <3>3, <4>1, Scaled
    <3> QED
      BY <1>1, <3>4
  <2> QED
    BY <2>1, <2>2
<1>6. /\ n * (2 * J) <= 2 * M + J
      /\ 2 * M + J < n * (2 * J) + 2 * J
  <2>1. n * (2 * J) = 2 * (n * J)
    OBVIOUS
  <2> QED
    BY <1>1, <1>5, <2>1
<1>7. (2 * M + J) \div (2 * J) = n
  BY <1>6, DivIs
<1> QED
  BY <1>7 DEF NearestAway

\* Seven steps of Pow2 up from Precision - 8.
LEMMA UpperPowers ==
  /\ Pow2[7] = 128 /\ Pow2[8] = 256
  /\ Pow2[Precision - 8] \in Nat \ {0} /\ Pow2[Precision - 1] \in Nat \ {0}
  /\ Pow2[Precision - 1] = 128 * Pow2[Precision - 8]
  /\ Pow2[Precision] = 2 * Pow2[Precision - 1]
  /\ 128 * Pow2[Precision - 1] <= Pow2[MaxScale]
<1> DEFINE P == Precision
<1>1. /\ P \in Nat /\ P >= 8 /\ MaxScale \in Nat /\ MaxScale >= P + 6
  BY AmountsAssumption
<1>2. ASSUME NEW k \in 0..MaxScale - 7
      PROVE  Pow2[k + 7] = 128 * Pow2[k]
  <2>1. /\ Pow2[k + 1] = 2 * Pow2[k] /\ Pow2[k + 2] = 2 * Pow2[k + 1]
        /\ Pow2[k + 3] = 2 * Pow2[k + 2] /\ Pow2[k + 4] = 2 * Pow2[k + 3]
        /\ Pow2[k + 5] = 2 * Pow2[k + 4] /\ Pow2[k + 6] = 2 * Pow2[k + 5]
        /\ Pow2[k + 7] = 2 * Pow2[k + 6]
    <3>1. \A i \in 1..7 : k + i \in 1..MaxScale /\ (k + i) - 1 = k + (i - 1)
      BY <1>1
    <3>2. \A i \in 1..7 : Pow2[k + i] = 2 * Pow2[k + (i - 1)]
      BY <3>1, Pow2Steps
    <3> QED
      BY <3>2
  <2>2. Pow2[k] \in Nat
    BY <1>1, Pow2Type
  <2> QED
    BY <2>1, <2>2
<1>3. Pow2[7] = 128 /\ Pow2[8] = 256
  <2>1. 0 \in 0..MaxScale - 7 /\ 8 \in 1..MaxScale
    BY <1>1
  <2>2. Pow2[0 + 7] = 128 * Pow2[0]
    BY <1>2, <2>1
  <2> QED
    BY <2>1, <2>2, Pow2Steps
<1>4. Pow2[(P - 8) + 7] = 128 * Pow2[P - 8] /\ (P - 8) + 7 = P - 1
  BY <1>1, <1>2
<1>5. Pow2[(P - 1) + 7] = 128 * Pow2[P - 1] /\ Pow2[(P - 1) + 7] <= Pow2[MaxScale]
  <2>1. /\ P - 1 \in 0..MaxScale - 7 /\ (P - 1) + 7 \in 0..MaxScale
        /\ (P - 1) + 7 <= MaxScale /\ MaxScale \in 0..MaxScale
    BY <1>1
  <2> QED
    BY <1>2, <2>1, Pow2Grows
<1>6. /\ Pow2[P - 8] \in Nat \ {0} /\ Pow2[P - 1] \in Nat \ {0}
      /\ Pow2[P] = 2 * Pow2[P - 1]
  BY <1>1, Pow2Type, Pow2Steps
<1> QED
  BY <1>3, <1>4, <1>5, <1>6

\* Nothing stays nothing.
LEMMA ConversionOfZero == ToPaise(ToRupees(0)) = 0
<1>1. ToRupees(0) = [m |-> 0, k |-> 0]
  BY DEF ToRupees, Fl
<1>2. Fl(0 * 100, Pow2[0]) = [m |-> 0, k |-> 0]
  BY DEF Fl
<1>3. NearestAway(0, Pow2[0]) = 0
  <2>1. (2 * 0 + 1) \div (2 * 1) = 0
    BY DivIs
  <2> QED
    BY <2>1, Pow2Steps DEF NearestAway
<1> QED
  BY <1>1, <1>2, <1>3 DEF ToPaise

\* The float of a positive amount.
LEMMA RupeesOf ==
  ASSUME NEW n \in Nat \ {0}, n <= Largest
  PROVE  \E k \in 0..MaxScale, m \in Nat :
           /\ ToRupees(n) = [m |-> m, k |-> k]
           /\ 100 * Pow2[Precision - 1] <= n * Pow2[k]
           /\ n * Pow2[k] < 200 * Pow2[Precision - 1]
           /\ 2 * (n * Pow2[k]) - 100 <= 2 * (100 * m)
           /\ 2 * (100 * m) <= 2 * (n * Pow2[k]) + 100
<1> DEFINE E == Pow2[Precision - 1]
           Q == Pow2[Precision - 8]
<1>1. /\ E \in Nat \ {0} /\ Q \in Nat \ {0} /\ E = 128 * Q
      /\ Pow2[Precision] = 2 * E /\ 128 * E <= Pow2[MaxScale]
      /\ n <= 100 * Q
  BY UpperPowers DEF Largest
<1>2. Pow2[MaxScale] \in Nat
  BY Pow2Type, AmountsAssumption
<1>3. n < 100 * Pow2[Precision] /\ 100 * E <= n * Pow2[MaxScale]
  <2>1. 1 * Pow2[MaxScale] <= n * Pow2[MaxScale]
    BY <1>1, <1>2
  <2> QED
    BY <1>1, <1>2, <2>1
<1>4. PICK k \in 0..MaxScale :
        /\ Fl(n, 100) = [m |-> NearestEven(n * Pow2[k], 100), k |-> k]
        /\ 100 * E <= n * Pow2[k]
        /\ n * Pow2[k] < 100 * Pow2[Precision]
  BY <1>3, FlNormal
<1>5. n * Pow2[k] \in Nat
  BY Pow2Type
<1>6. PICK a \in Nat : a = n * Pow2[k]
  BY <1>5
<1>7. PICK m : m = NearestEven(a, 100)
  OBVIOUS
<1>8. /\ m \in Nat
      /\ 2 * a - 100 <= 2 * (100 * m)
      /\ 2 * (100 * m) <= 2 * a + 100
  BY <1>7, NearestEvenClose
<1> QED
  BY <1>1, <1>4, <1>6, <1>7, <1>8 DEF ToRupees

\* Up to Largest paise, an amount that is written as rupees and read again is
\* the same to the paisa.
THEOREM RupeesLoseNothing ==
  ASSUME NEW n \in Nat, n <= Largest
  PROVE  ToPaise(ToRupees(n)) = n
<1>1. CASE n = 0
  BY <1>1, ConversionOfZero
<1>2. CASE n # 0
  <2> DEFINE E == Pow2[Precision - 1]
             Q == Pow2[Precision - 8]
  <2>1. /\ E \in Nat \ {0} /\ Q \in Nat \ {0} /\ E = 128 * Q
        /\ Pow2[Precision] = 2 * E /\ 128 * E <= Pow2[MaxScale]
        /\ n <= 100 * Q
    BY UpperPowers DEF Largest
  <2>2. PICK k \in 0..MaxScale, m \in Nat :
          /\ ToRupees(n) = [m |-> m, k |-> k]
          /\ 100 * E <= n * Pow2[k]
          /\ n * Pow2[k] < 200 * E
          /\ 2 * (n * Pow2[k]) - 100 <= 2 * (100 * m)
          /\ 2 * (100 * m) <= 2 * (n * Pow2[k]) + 100
    BY <1>2, RupeesOf
  <2> DEFINE K == Pow2[k]
  <2>3. /\ K \in Nat \ {0} /\ n * K \in Nat
        /\ K <= Pow2[MaxScale] /\ Pow2[MaxScale] \in Nat
    BY Pow2Type, Pow2Grows, AmountsAssumption
  <2> DEFINE S == Pow2[MaxScale]
  <2> HIDE DEF E, Q, S
  <2>4. m >= E
    BY <2>1, <2>2, <2>3
  <2>5. K >= 128
    <3>1. n * K <= (100 * Q) * K
      BY <2>1, <2>3, Scaled
    <3>2. 128 * (100 * Q) <= K * (100 * Q)
      BY <2>1, <2>2, <2>3, <3>1
    <3> QED
      BY <2>1, <2>3, <3>2, Scaled
  <2>6. \/ K >= 256
        \/ 100 * m = n * K
    <3>1. CASE k >= 8
      <4>1. 8 <= k /\ 8 \in 0..MaxScale
        BY <3>1, AmountsAssumption
      <4>2. Pow2[8] <= Pow2[k] /\ Pow2[8] = 256
        BY <4>1, Pow2Grows, UpperPowers
      <4> QED
        BY <4>2
    <3>2. CASE k <= 7
      <4>1. K = 128
        <5>1. k <= 7 /\ 7 \in 0..MaxScale
          BY <3>2, AmountsAssumption
        <5>2. Pow2[k] <= Pow2[7] /\ Pow2[7] = 128
          BY <5>1, Pow2Grows, UpperPowers
        <5> QED
          BY <2>3, <2>5, <5>2
      <4>2. n = 100 * Q
        BY <2>1, <2>2, <4>1
      <4> QED
        BY <2>1, <2>2, <4>1, <4>2
    <3> QED
      BY <3>1, <3>2
  <2> HIDE DEF K
  <2>7. /\ m * 100 \in Nat \ {0}
        /\ m * 100 < K * Pow2[Precision]
        /\ K * E <= (m * 100) * Pow2[MaxScale]
    <3>1. 128 * (2 * E) <= K * (2 * E)
      BY <2>1, <2>3, <2>5
    <3>2. m * 100 < 128 * (2 * E)
      BY <2>1, <2>2, <2>3 DEF K
    <3>3. K * E <= Pow2[MaxScale] * (m * 100)
      <4>1. K <= S /\ S \in Nat
        BY <2>3 DEF S
      <4>2. K * E <= S * E
        BY <2>1, <2>3, <4>1, Scaled
      <4>3. PICK x \in Nat : m * 100 = E + x
        <5>1. /\ m * 100 - E \in Nat
              /\ m * 100 = E + (m * 100 - E)
          BY <2>1, <2>4
        <5> QED
          BY <5>1
      <4>4. S * (m * 100) = S * E + S * x /\ S * x \in Nat
        BY <2>1, <4>1, <4>3
      <4>5. K * E \in Nat /\ S * E \in Nat
        BY <2>1, <2>3, <4>1
      <4> QED
        BY <4>2, <4>4, <4>5 DEF S
    <3>4. Pow2[MaxScale] * (m * 100) = (m * 100) * Pow2[MaxScale]
      BY <2>3
    <3>5. m * 100 \in Nat \ {0}
      BY <2>1, <2>4
    <3>6. m * 100 < K * (2 * E)
      <4>1. K * (2 * E) \in Nat
        BY <2>1, <2>3
      <4> QED
        BY <2>1, <3>1, <3>2, <4>1
    <3> QED
      BY <2>1, <3>3, <3>4, <3>5, <3>6
  <2>8. PICK j \in 0..MaxScale :
          /\ Fl(m * 100, K) = [m |-> NearestEven(m * 100 * Pow2[j], K), k |-> j]
          /\ K * E <= m * 100 * Pow2[j]
    BY <2>3, <2>7, FlNormal DEF E
  <2> DEFINE J == Pow2[j]
             M == NearestEven(m * 100 * J, K)
  <2>9. J \in Nat \ {0} /\ m * 100 * J \in Nat
    BY Pow2Type
  <2>10. /\ M \in Nat
         /\ 2 * (m * 100 * J) - K <= 2 * (K * M)
         /\ 2 * (K * M) <= 2 * (m * 100 * J) + K
    BY <2>3, <2>9, NearestEvenClose
  <2>11. K >= 256 => J >= 2
    <3>1. ASSUME K >= 256, J = 1
          PROVE  FALSE
      <4>1. 256 * E <= K * E
        BY <2>1, <2>3, <3>1
      <4>2. K * E <= m * 100
        BY <2>8, <3>1
      <4> QED
        BY <2>1, <2>2, <2>3, <4>1, <4>2 DEF K
    <3> QED
      BY <2>9, <3>1
  <2> HIDE DEF J, M
  <2>12. NearestAway(M, J) = n
    <3>1. /\ 2 * (n * K) - 100 <= 2 * (100 * m)
          /\ 2 * (100 * m) <= 2 * (n * K) + 100
      BY <2>2 DEF K
    <3>2. \/ K >= 256 /\ J >= 2
          \/ 100 * m = n * K
      BY <2>6, <2>11
    <3>3. K \in Nat \ {0} /\ J \in Nat \ {0} /\ M \in Nat
      BY <2>3, <2>9, <2>10
    <3>4. TwoRoundings(n, m, M, K, J)
      BY <2>10, <3>1, <3>2, <3>3 DEF TwoRoundings
    <3> QED
      BY <3>4, RoundingsAbsorbed
  <2>13. ToPaise(ToRupees(n)) = NearestAway(M, J)
    BY <2>2, <2>8 DEF ToPaise, K, J, M
  <2> QED
    BY <2>12, <2>13
<1> QED
  BY <1>1, <1>2

-----------------------------------------------------------------------------
(***************************************************************************)
(* The way of an amount: it is converted and converted back when it is     *)
(* sealed and again when it is opened, and in between it is left alone.    *)
(***************************************************************************)
\* No amount that is asked for has more digits than a number holds.
AmountsFit == \A n \in Typed : n <= Largest

\* What was sealed is what was typed, twice converted.
AmountKept ==
  outcome \in {"unsent", "sent", "accepted", "refused"} =>
    /\ typed \in Typed
    /\ packet.rupees = ToRupees(ToPaise(ToRupees(typed)))

LEMMA AmountKeptStep ==
  ASSUME Inductive, AmountKept, [Next]_vars
  PROVE  AmountKept'
<1>1. ASSUME UNCHANGED <<packet, typed>>,
             \/ outcome' \in {outcome, "starting", "ended", "none"}
             \/ outcome \in {"unsent", "sent", "accepted", "refused"}
      PROVE  AmountKept'
  BY <1>1 DEF AmountKept
<1>2. CASE Succeed
  <2>1. op \in DOMAIN Calls
    BY <1>2, CallInProgress DEF Succeed, Inductive
  <2>2. UNCHANGED <<packet, typed>>
    BY <1>2 DEF Succeed
  <2>3. CASE AtLastCall
    <3>1. Complete
      BY <1>2, <2>3 DEF Succeed
    <3>2. op \in {"encrypt", "hash", "decrypt"} => outcome \in {"unsent", "sent"}
      BY DEF Inductive, OneAtATime
    <3>3. op \notin {"encrypt", "hash", "decrypt"} => outcome' \in {outcome, "none"}
      BY <2>1, <3>1, Completion
    <3> QED
      BY <1>1, <2>2, <3>2, <3>3
  <2>4. CASE ~AtLastCall
    BY <1>1, <1>2, <2>4 DEF Succeed
  <2> QED
    BY <2>3, <2>4
<1>3. CASE Fail
  <2>1. UNCHANGED <<packet, typed>> /\ op \in DOMAIN Calls
    BY <1>3, CallInProgress DEF Fail, Inductive
  <2>2. \/ outcome' \in {outcome, "ended"}
        \/ op \in {"encrypt", "hash", "decrypt"}
    BY <1>3, <2>1, OperationNames DEF Fail, Inductive, OneAtATime
  <2>3. op \in {"encrypt", "hash", "decrypt"} => outcome \in {"unsent", "sent"}
    BY DEF Inductive, OneAtATime
  <2> QED
    BY <1>1, <2>1, <2>2, <2>3
<1>4. ASSUME NEW n \in Typed, NEW length \in BodyLengths, DemoSend(n, length)
      PROVE  AmountKept'
  <2>1. typed' = n /\ packet'.rupees = ToRupees(ToPaise(ToRupees(n)))
    BY <1>4 DEF DemoSend
  <2> QED
    BY <2>1 DEF AmountKept
<1>5. CASE GetServerKey
  BY <1>1, <1>5 DEF GetServerKey
<1>6. CASE Damage
  BY <1>1, <1>6 DEF Damage
<1>7. CASE Ingest
  BY <1>1, <1>7 DEF Ingest
<1>8. CASE Exited \/ UNCHANGED vars
  BY <1>1, <1>8 DEF Exited, vars
<1> QED
  BY <1>2, <1>3, <1>4, <1>5, <1>6, <1>7, <1>8 DEF Next

\* A payment of up to Largest paise is settled as it was typed, whatever
\* happens to the packet on the way: its two conversions lose nothing.
THEOREM AmountsSurvive ==
  ASSUME AmountsFit
  PROVE  Spec => []AmountArrives
<1>1. Init => AmountKept
  BY DEF Init, AmountKept
<1>2. Inductive /\ AmountKept /\ [Next]_vars => AmountKept'
  BY AmountKeptStep
<1>3. \A n \in Typed : ToPaise(ToRupees(n)) = n
  BY RupeesLoseNothing, HybridCryptoAssumption DEF AmountsFit
<1>4. AmountKept => AmountArrives
  BY <1>3 DEF AmountKept, AmountArrives
<1> QED
  BY Invariance, <1>1, <1>2, <1>4, PTL DEF Spec
=============================================================================
