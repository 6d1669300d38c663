-------------------------- MODULE DownloadWire_proofs --------------------------
(***************************************************************************)
(* Proofs about the download frame protocol, for any images, payload size  *)
(* and number of faults and transfers: what dl_rx_finish hands over has    *)
(* every byte in its place, it is the whole image when the stream carried  *)
(* one transfer, and nothing is refused without a fault.                   *)
(*                                                                         *)
(* The receiver's bytes are in place as long as no slice is missing; one   *)
(* that is missing is never made up for, so a transfer with a gap is never *)
(* complete.  That is the invariant RxOK, with the frames in the stream.   *)
(***************************************************************************)
EXTENDS DownloadWire, SequenceTheorems, TLAPS

(* Slices lie one after the other. *)
LEMMA Product ==
  ASSUME NEW n \in Nat
  PROVE  /\ n * MaxPayload \in Nat
         /\ (n + 1) * MaxPayload = n * MaxPayload + MaxPayload
BY WireAssumption

LEMMA ProductMono ==
  ASSUME NEW m \in Nat, NEW n \in Nat, m <= n
  PROVE  m * MaxPayload <= n * MaxPayload
BY WireAssumption

LEMMA SliceLen ==
  ASSUME NEW img \in WireImages, NEW n \in Nat, n * MaxPayload < Len(img)
  PROVE  /\ Slice(img, n) \in Seq(Bytes)
         /\ Len(Slice(img, n)) = IF (n + 1) * MaxPayload > Len(img)
                                 THEN Len(img) - n * MaxPayload ELSE MaxPayload
         /\ \A k \in 1 .. Len(Slice(img, n)) : Slice(img, n)[k] = img[n * MaxPayload + k]
<1>1. img \in Seq(Bytes) /\ Len(img) \in Nat /\ MaxPayload \in Nat \ {0}
  BY WireAssumption
<1>2. n * MaxPayload \in Nat /\ (n + 1) * MaxPayload = n * MaxPayload + MaxPayload
  BY Product
<1> DEFINE a == n * MaxPayload
           b == IF (n + 1) * MaxPayload > Len(img) THEN Len(img) ELSE (n + 1) * MaxPayload
<1>3. a \in Nat /\ b \in Nat /\ a < b /\ b <= Len(img)
  BY <1>1, <1>2
<1>4. Slice(img, n) = SubSeq(img, a + 1, b)
  BY DEF Slice
<1>5. b - a = IF (n + 1) * MaxPayload > Len(img) THEN Len(img) - n * MaxPayload
                                                 ELSE MaxPayload
  <2>1. CASE (n + 1) * MaxPayload > Len(img)
    BY <2>1
  <2>2. CASE ~((n + 1) * MaxPayload > Len(img))
    <3>1. b = a + MaxPayload
      BY <1>2, <2>2
    <3>2. QED
      BY <1>1, <1>3, <2>2, <3>1
  <2>3. QED
    BY <2>1, <2>2
<1>6. n * MaxPayload = a
  OBVIOUS
<1> HIDE DEF a, b
<1>7. /\ SubSeq(img, a + 1, b) \in Seq(Bytes)
      /\ Len(SubSeq(img, a + 1, b)) = b - a
      /\ \A k \in 1 .. b - a : SubSeq(img, a + 1, b)[k] = img[a + k]
  BY <1>1, <1>3, SubSeqProperties
<1>8. QED
  BY <1>4, <1>5, <1>6, <1>7


(* What dl_tx_image builds is a slice of its image. *)
LEMMA DataFrameOK ==
  ASSUME NEW img \in WireImages, NEW n \in Nat, n * MaxPayload < Len(img)
  PROVE  /\ DataFrame(img, n) \in Frame
         /\ DataFrame(img, n).kind = "DATA" /\ DataFrame(img, n).damage = "none"
         /\ DataFrame(img, n).seq = n
         /\ IsSlice(DataFrame(img, n), img)
<1>1. Slice(img, n) \in Seq(Bytes) /\ Len(img) \in Nat
  BY SliceLen, WireAssumption
<1>2. ((n + 1) * MaxPayload >= Len(img)) \in BOOLEAN
  OBVIOUS
<1>3. QED
  BY <1>1, <1>2 DEF DataFrame, Frame, Damages, IsSlice

LEMMA ControlFrameOK ==
  ASSUME NEW kind \in {"ACK", "ERR"}, NEW len \in Nat, NEW n \in Nat
  PROVE  ControlFrame(kind, len, n) \in Frame /\ ControlFrame(kind, len, n).kind # "DATA"
<1>1. <<>> \in Seq(Bytes)
  BY EmptySeq
<1>2. QED
  BY <1>1 DEF ControlFrame, Frame, Damages

(* Noise changes nothing the receiver reads but the verdict on the frame. *)
Same(f, g) ==
  /\ f.kind = g.kind /\ f.last = g.last /\ f.image_len = g.image_len
  /\ f.seq = g.seq /\ f.payload = g.payload

LEMMA DamagedOK ==
  ASSUME NEW f \in Frame, NEW how \in Damages
  PROVE  Damaged(f, how) \in Frame /\ Same(Damaged(f, how), f)
BY DEF Damaged, Frame, Same

(* The parts of Single about the frames and about the receiver. *)
SingleLink ==
  restarts = MaxRestarts =>
    \A k \in DOMAIN link : link[k].kind = "DATA" =>
      IF target = <<>> THEN ~link[k].last
      ELSE link[k].seq < sent /\ IsSlice(link[k], target)

SingleRx ==
  restarts = MaxRestarts =>
    /\ rx.last_seen => target # <<>> /\ ~MoreToSend
    /\ target # <<>> =>
         /\ rx.image_len \in {0, Len(target)}
         /\ NoGap => \A i \in DOMAIN rx.image : rx.image[i] = target[i]

LEMMA SingleParts == Single <=> SingleLink /\ SingleRx
BY DEF Single, SingleLink, SingleRx

(* A stream that holds what it held, in any order, damaged or less of it, and
   control frames besides. *)
LEMMA LinkFrom ==
  ASSUME LinkOK, SingleLink, link' \in Seq(Frame), UNCHANGED <<target, sent, restarts>>,
         \A k \in DOMAIN link' : \/ link'[k].kind # "DATA"
                                 \/ \E m \in DOMAIN link : Same(link'[k], link[m])
  PROVE  LinkOK' /\ SingleLink'
<1>1. ASSUME NEW f, NEW g, Same(f, g), NEW img PROVE IsSlice(f, img) <=> IsSlice(g, img)
  BY <1>1 DEF Same, IsSlice
<1>2. LinkOK'
  <2>1. SUFFICES ASSUME NEW k \in DOMAIN link', link'[k].kind = "DATA"
                 PROVE  \E img \in WireImages : IsSlice(link'[k], img)
    BY DEF LinkOK, IsSlice
  <2>2. PICK m \in DOMAIN link : Same(link'[k], link[m])
    BY <2>1
  <2>3. PICK img \in WireImages : IsSlice(link[m], img)
    BY <2>1, <2>2 DEF LinkOK, Same
  <2>4. QED
    BY <1>1, <2>2, <2>3
<1>3. SingleLink'
  <2>1. SUFFICES ASSUME restarts = MaxRestarts, NEW k \in DOMAIN link', link'[k].kind = "DATA"
                 PROVE  IF target = <<>> THEN ~link'[k].last
                        ELSE link'[k].seq < sent /\ IsSlice(link'[k], target)
    BY DEF SingleLink, IsSlice
  <2>2. PICK m \in DOMAIN link : Same(link'[k], link[m])
    BY <2>1
  <2>3. IF target = <<>> THEN ~link[m].last
        ELSE link[m].seq < sent /\ IsSlice(link[m], target)
    BY <2>1, <2>2 DEF SingleLink, Same
  <2>4. QED
    BY <1>1, <2>2, <2>3 DEF Same
<1>4. QED
  BY <1>2, <1>3

(* The faults of the stream make no frame. *)
LEMMA RemovedFrom ==
  ASSUME NEW S, NEW s \in Seq(S), NEW i \in 1 .. Len(s)
  PROVE  /\ RemoveAt(s, i) \in Seq(S)
         /\ \A k \in DOMAIN RemoveAt(s, i) : \E m \in DOMAIN s : RemoveAt(s, i)[k] = s[m]
<1> DEFINE l == SubSeq(s, 1, i - 1)
           r == SubSeq(s, i + 1, Len(s))
<1>1. Len(s) \in Nat /\ DOMAIN s = 1 .. Len(s) /\ \A k \in 1 .. Len(s) : s[k] \in S
  BY LenProperties, ElementOfSeq
<1>2. l \in Seq(S) /\ Len(l) = i - 1 /\ \A k \in 1 .. i - 1 : l[k] = s[k]
  BY <1>1, SubSeqProperties
<1>3. r \in Seq(S) /\ Len(r) = Len(s) - i /\ \A k \in 1 .. Len(s) - i : r[k] = s[i + k]
  <2>1. /\ r \in Seq(S) /\ Len(r) = IF i + 1 <= Len(s) THEN Len(s) - (i + 1) + 1 ELSE 0
        /\ \A k \in 1 .. Len(s) - (i + 1) + 1 : r[k] = s[i + 1 + k - 1]
    BY <1>1, SubSeqProperties
  <2>2. Len(s) - (i + 1) + 1 = Len(s) - i /\ \A k \in Int : i + 1 + k - 1 = i + k
    BY <1>1
  <2> HIDE DEF r
  <2>3. Len(r) = Len(s) - i
    <3>1. i \in Int /\ Len(s) \in Int /\ i <= Len(s)
      BY <1>1
    <3>2. i + 1 <= Len(s) \/ i = Len(s)
      BY <3>1
    <3>3. ~(Len(s) + 1 <= Len(s)) /\ Len(s) - Len(s) = 0
      BY <3>1
    <3>4. QED
      BY <2>1, <2>2, <3>2, <3>3
  <2>4. ASSUME NEW k \in 1 .. Len(s) - i PROVE r[k] = s[i + k]
    <3>1. r[k] = s[i + 1 + k - 1]
      BY <2>1, <2>2
    <3>2. i + 1 + k - 1 = i + k
      BY <1>1
    <3>3. QED
      BY <3>1, <3>2
  <2>5. QED
    BY <2>1, <2>3, <2>4
<1>4. RemoveAt(s, i) = l \o r
  BY DEF RemoveAt
<1> HIDE DEF l, r
<1>5. /\ l \o r \in Seq(S) /\ Len(l \o r) = Len(l) + Len(r)
      /\ \A k \in 1 .. Len(l) + Len(r) : (l \o r)[k] =
                       IF k <= Len(l) THEN l[k] ELSE r[k - Len(l)]
  BY <1>2, <1>3, ConcatProperties
<1>6. DOMAIN (l \o r) = 1 .. Len(s) - 1
  <2>1. DOMAIN (l \o r) = 1 .. Len(l \o r)
    BY <1>5, LenProperties
  <2>2. Len(l \o r) = Len(s) - 1
    BY <1>1, <1>2, <1>3, <1>5
  <2>3. QED
    BY <2>1, <2>2
<1>7. ASSUME NEW k \in 1 .. Len(s) - 1 PROVE \E m \in 1 .. Len(s) : (l \o r)[k] = s[m]
  <2>1. CASE k <= i - 1
    BY <1>1, <1>2, <1>3, <1>5, <2>1
  <2>2. CASE ~(k <= i - 1)
    <3>1. k - (i - 1) \in 1 .. Len(s) - i /\ k + 1 \in 1 .. Len(s)
          /\ i + (k - (i - 1)) = k + 1
      BY <1>1, <2>2
    <3>2. (l \o r)[k] = r[k - (i - 1)]
      BY <1>1, <1>2, <1>3, <1>5, <2>2
    <3>3. r[k - (i - 1)] = s[k + 1]
      BY <1>3, <3>1
    <3>4. QED
      BY <3>1, <3>2, <3>3
  <2>3. QED
    BY <2>1, <2>2
<1>8. QED
  BY <1>1, <1>4, <1>5, <1>6, <1>7

LEMMA InsertedFrom ==
  ASSUME NEW S, NEW s \in Seq(S), NEW i \in 1 .. Len(s)
  PROVE  /\ InsertAt(s, i, s[i]) \in Seq(S)
         /\ \A k \in DOMAIN InsertAt(s, i, s[i]) :
              \E m \in DOMAIN s : InsertAt(s, i, s[i])[k] = s[m]
<1> DEFINE l == SubSeq(s, 1, i - 1)
           c == <<s[i]>>
           r == SubSeq(s, i, Len(s))
<1>1. Len(s) \in Nat /\ DOMAIN s = 1 .. Len(s) /\ \A k \in 1 .. Len(s) : s[k] \in S
  BY LenProperties, ElementOfSeq
<1>2. l \in Seq(S) /\ Len(l) = i - 1 /\ \A k \in 1 .. i - 1 : l[k] = s[k]
  BY <1>1, SubSeqProperties
<1>3. r \in Seq(S) /\ Len(r) = Len(s) - i + 1
      /\ \A k \in 1 .. Len(s) - i + 1 : r[k] = s[i + k - 1]
  BY <1>1, SubSeqProperties
<1>4. c \in Seq(S) /\ Len(c) = 1 /\ c[1] = s[i]
  BY <1>1
<1>5. InsertAt(s, i, s[i]) = (l \o c) \o r
  BY DEF InsertAt
<1> HIDE DEF l, c, r
<1>6. /\ l \o c \in Seq(S) /\ Len(l \o c) = i
      /\ \A k \in 1 .. i : (l \o c)[k] = s[k]
  <2>1. /\ l \o c \in Seq(S) /\ Len(l \o c) = Len(l) + Len(c)
        /\ \A k \in 1 .. Len(l) + Len(c) : (l \o c)[k] =
                       IF k <= Len(l) THEN l[k] ELSE c[k - Len(l)]
    BY <1>2, <1>4, ConcatProperties
  <2>2. QED
    BY <1>1, <1>2, <1>4, <2>1
<1> DEFINE lc == l \o c
<1>6a. lc \in Seq(S) /\ Len(lc) = i /\ \A k \in 1 .. i : lc[k] = s[k]
  BY <1>6
<1> HIDE DEF lc
<1>7. /\ lc \o r \in Seq(S) /\ Len(lc \o r) = Len(lc) + Len(r)
      /\ \A k \in 1 .. Len(lc) + Len(r) : (lc \o r)[k] =
                       IF k <= Len(lc) THEN lc[k] ELSE r[k - Len(lc)]
  BY <1>3, <1>6a, ConcatProperties
<1>8. DOMAIN (lc \o r) = 1 .. Len(s) + 1
  <2>1. DOMAIN (lc \o r) = 1 .. Len(lc \o r)
    BY <1>7, LenProperties
  <2>2. Len(lc \o r) = Len(s) + 1
    BY <1>1, <1>3, <1>6a, <1>7
  <2>3. QED
    BY <2>1, <2>2
<1>9. ASSUME NEW k \in 1 .. Len(s) + 1 PROVE \E m \in 1 .. Len(s) : (lc \o r)[k] = s[m]
  <2>1. CASE k <= i
    BY <1>1, <1>3, <1>6a, <1>7, <2>1
  <2>2. CASE ~(k <= i)
    <3>1. k - i \in 1 .. Len(s) - i + 1 /\ k - 1 \in 1 .. Len(s)
          /\ i + (k - i) - 1 = k - 1
      BY <1>1, <2>2
    <3>2. (lc \o r)[k] = r[k - i]
      BY <1>1, <1>3, <1>6a, <1>7, <2>2
    <3>3. r[k - i] = s[k - 1]
      BY <1>3, <3>1
    <3>4. QED
      BY <3>1, <3>2, <3>3
  <2>3. QED
    BY <2>1, <2>2
<1>10. QED
  BY <1>1, <1>5, <1>7, <1>8, <1>9 DEF lc

LEMMA FaultLinks ==
  ASSUME LinkOK, NEW i \in DOMAIN link,
         NEW new, \/ new = RemoveAt(link, i)
                  \/ new = InsertAt(link, i, link[i])
                  \/ i < Len(link) /\ new = [link EXCEPT ![i] = link[i + 1], ![i + 1] = link[i]]
                  \/ \E how \in Damages : new = [link EXCEPT ![i] = Damaged(link[i], how)]
  PROVE  new \in Seq(Frame) /\ \A k \in DOMAIN new : \E m \in DOMAIN link : Same(new[k], link[m])
<1>1. link \in Seq(Frame) /\ Len(link) \in Nat /\ DOMAIN link = 1 .. Len(link)
      /\ \A k \in 1 .. Len(link) : link[k] \in Frame
  BY LenProperties, ElementOfSeq DEF LinkOK
<1>2. \A f : Same(f, f)
  BY DEF Same
<1>3. CASE new = RemoveAt(link, i) \/ new = InsertAt(link, i, link[i])
  <2>1. new \in Seq(Frame) /\ \A k \in DOMAIN new : \E m \in DOMAIN link : new[k] = link[m]
    <3>1. CASE new = RemoveAt(link, i)
      <4>1. /\ RemoveAt(link, i) \in Seq(Frame)
            /\ \A k \in DOMAIN RemoveAt(link, i) :
                 \E m \in DOMAIN link : RemoveAt(link, i)[k] = link[m]
        BY <1>1, RemovedFrom
      <4>2. QED
        BY <3>1, <4>1
    <3>2. CASE new = InsertAt(link, i, link[i])
      <4>1. /\ InsertAt(link, i, link[i]) \in Seq(Frame)
            /\ \A k \in DOMAIN InsertAt(link, i, link[i]) :
                 \E m \in DOMAIN link : InsertAt(link, i, link[i])[k] = link[m]
        <5>1. i \in 1 .. Len(link)
          BY <1>1
        <5>2. link \in Seq(Frame)
          BY <1>1
        <5>3. QED
          BY <5>1, <5>2, InsertedFrom, Zenon
      <4>2. QED
        BY <3>2, <4>1
    <3>3. QED
      BY <1>3, <3>1, <3>2
  <2>2. QED
    BY <1>2, <2>1
<1>4. CASE i < Len(link) /\ new = [link EXCEPT ![i] = link[i + 1], ![i + 1] = link[i]]
  <2> DEFINE half == [link EXCEPT ![i] = link[i + 1]]
  <2>1. i + 1 \in 1 .. Len(link) /\ new = [half EXCEPT ![i + 1] = link[i]]
    BY <1>1, <1>4
  <2>2. half \in Seq(Frame) /\ Len(half) = Len(link)
        /\ \A k \in 1 .. Len(link) : half[k] = IF k = i THEN link[i + 1] ELSE link[k]
    BY <1>1, <2>1, ExceptSeq
  <2> HIDE DEF half
  <2>3. new \in Seq(Frame) /\ Len(new) = Len(link)
        /\ \A k \in 1 .. Len(link) : new[k] = IF k = i + 1 THEN link[i] ELSE half[k]
    BY <1>1, <2>1, <2>2, ExceptSeq
  <2>4. DOMAIN new = DOMAIN link
    BY <1>1, <2>3, LenProperties
  <2>5. QED
    BY <1>1, <1>2, <2>1, <2>2, <2>3, <2>4
<1>5. ASSUME NEW how \in Damages, new = [link EXCEPT ![i] = Damaged(link[i], how)]
      PROVE  new \in Seq(Frame) /\ \A k \in DOMAIN new : \E m \in DOMAIN link : Same(new[k], link[m])
  <2>1. Damaged(link[i], how) \in Frame /\ Same(Damaged(link[i], how), link[i])
    BY <1>1, DamagedOK
  <2>2. new \in Seq(Frame) /\ Len(new) = Len(link)
        /\ \A k \in 1 .. Len(link) : new[k] = IF k = i THEN Damaged(link[i], how) ELSE link[k]
    BY <1>1, <1>5, <2>1, ExceptSeq
  <2>3. DOMAIN new = DOMAIN link
    BY <1>1, <2>2, LenProperties
  <2>4. QED
    BY <1>1, <1>2, <2>1, <2>2, <2>3
<1>6. QED
  BY <1>3, <1>4, <1>5


-----------------------------------------------------------------------------
(* The sender and the stream. *)

LEMMA RxSame ==
  ASSUME RxOK, UNCHANGED rx
  PROVE  RxOK'
BY DEF RxOK, NoGap

LEMMA SingleRxSame ==
  ASSUME SingleRx, UNCHANGED <<rx, target, sent, restarts>>
  PROVE  SingleRx'
BY DEF SingleRx, NoGap, MoreToSend

(* A fault uses up one, so what holds without faults is not concerned. *)
LEMMA FaultStep ==
  ASSUME WireInv, NEW new, Fault(new), new \in Seq(Frame),
         \A k \in DOMAIN new : \/ new[k].kind # "DATA"
                               \/ \E m \in DOMAIN link : Same(new[k], link[m])
  PROVE  WireInv'
<1>1. /\ link' = new /\ faults > 0 /\ faults' = faults - 1
      /\ UNCHANGED <<target, sent, rx, result, restarts>>
  BY DEF Fault
<1>2. LinkOK' /\ SingleLink'
  BY <1>1, LinkFrom, SingleParts DEF WireInv
<1>3. RxOK' /\ SingleRx'
  BY <1>1, RxSame, SingleRxSame, SingleParts DEF WireInv
<1>4. faults \in 0 .. MaxFaults /\ MaxFaults \in Nat
  BY WireAssumption DEF WireInv, HostOK
<1>5. faults' \in 0 .. MaxFaults /\ faults' # MaxFaults
  BY <1>1, <1>4
<1>6. HostOK'
  BY <1>1, <1>5 DEF WireInv, HostOK, Complete
<1>7. Undisturbed'
  BY <1>5 DEF Undisturbed
<1>8. Single'
  BY <1>2, <1>3 DEF Single, SingleLink, SingleRx
<1>9. QED
  BY <1>2, <1>3, <1>6, <1>7, <1>8 DEF WireInv

LEMMA StreamStep ==
  ASSUME WireInv, NEW i \in DOMAIN link,
         \/ Drop(i) \/ Duplicate(i) \/ Reorder(i)
         \/ \E how \in {"magic", "len", "hmac", "crc"} : Damage(i, how)
  PROVE  WireInv'
<1>1. LinkOK
  BY DEF WireInv
<1>2. CASE Drop(i)
  BY <1>1, <1>2, FaultLinks, FaultStep DEF Drop
<1>3. CASE Duplicate(i)
  BY <1>1, <1>3, FaultLinks, FaultStep DEF Duplicate
<1>4. CASE Reorder(i)
  BY <1>1, <1>4, FaultLinks, FaultStep DEF Reorder
<1>5. ASSUME NEW how \in {"magic", "len", "hmac", "crc"}, Damage(i, how) PROVE WireInv'
  <2>1. how \in Damages
    BY DEF Damages
  <2>2. QED
    BY <1>1, <1>5, <2>1, FaultLinks, FaultStep DEF Damage
<1>6. QED
  BY <1>2, <1>3, <1>4, <1>5

LEMMA TargetLen ==
  ASSUME HostOK
  PROVE  /\ Len(target) \in Nat
         /\ target # <<>> => target \in WireImages /\ target \in Seq(Bytes)
                             /\ Len(target) >= 1 /\ Len(target) <= MaxImage
BY WireAssumption DEF HostOK

LEMMA IntrudeStep ==
  ASSUME WireInv, NEW kind \in {"ACK", "ERR"}, Intrude(kind)
  PROVE  WireInv'
<1> DEFINE c == ControlFrame(kind, Len(target), sent)
           new == Append(link, c)
<1>1. c \in Frame /\ c.kind # "DATA"
  BY TargetLen, ControlFrameOK DEF WireInv, HostOK
<1>2. link \in Seq(Frame) /\ Len(link) \in Nat /\ DOMAIN link = 1 .. Len(link)
  BY LenProperties DEF WireInv, LinkOK
<1>3. Fault(new)
  BY DEF Intrude
<1> HIDE DEF c
<1>4. /\ new \in Seq(Frame) /\ Len(new) = Len(link) + 1
      /\ \A i \in 1.. Len(link) : new[i] = link[i]
      /\ new[Len(link) + 1] = c
  BY <1>1, <1>2, AppendProperties
<1> HIDE DEF new
<1>5. DOMAIN new = 1 .. Len(link) + 1
  BY <1>4, LenProperties
<1>6. \A k \in DOMAIN new : new[k].kind # "DATA" \/ \E m \in DOMAIN link : Same(new[k], link[m])
  BY <1>1, <1>2, <1>4, <1>5 DEF Same
<1>7. QED
  BY <1>3, <1>4, <1>6, FaultStep

(* dl_tx_image adds the next slice of its image. *)
LEMMA SendFrameStep ==
  ASSUME WireInv, SendFrame
  PROVE  WireInv'
<1> DEFINE f == DataFrame(target, sent)
<1>1. /\ MoreToSend /\ link' = Append(link, f) /\ sent' = sent + 1
      /\ UNCHANGED <<target, rx, result, faults, restarts>>
  BY DEF SendFrame
<1>2. target # <<>> /\ target \in WireImages /\ sent \in Nat /\ sent * MaxPayload < Len(target)
  BY <1>1, TargetLen DEF WireInv, HostOK, MoreToSend
<1>3. f \in Frame /\ f.kind = "DATA" /\ f.seq = sent /\ IsSlice(f, target)
  BY <1>2, DataFrameOK
<1>4. link \in Seq(Frame) /\ Len(link) \in Nat /\ DOMAIN link = 1 .. Len(link)
  BY LenProperties DEF WireInv, LinkOK
<1> HIDE DEF f
<1>5. /\ link' \in Seq(Frame) /\ Len(link') = Len(link) + 1
      /\ \A i \in 1.. Len(link) : link'[i] = link[i]
      /\ link'[Len(link) + 1] = f
  BY <1>1, <1>3, <1>4, AppendProperties
<1>6. DOMAIN link' = 1 .. Len(link) + 1
  BY <1>5, LenProperties
<1>7. LinkOK'
  <2>1. SUFFICES ASSUME NEW k \in DOMAIN link', link'[k].kind = "DATA"
                 PROVE  \E img \in WireImages : IsSlice(link'[k], img)
    BY <1>5 DEF LinkOK, IsSlice
  <2>2. CASE k = Len(link) + 1
    BY <1>2, <1>3, <1>5, <2>2
  <2>3. CASE k # Len(link) + 1
    <3>1. k \in DOMAIN link /\ link'[k] = link[k]
      BY <1>4, <1>5, <1>6, <2>3
    <3>2. QED
      BY <2>1, <3>1 DEF WireInv, LinkOK
  <2>4. QED
    BY <2>2, <2>3
<1>8. RxOK'
  BY <1>1, RxSame DEF WireInv
<1>9. HostOK'
  BY <1>1, <1>2 DEF WireInv, HostOK, Complete
<1>10. SingleLink'
  <2>1. SUFFICES ASSUME restarts = MaxRestarts, NEW k \in DOMAIN link', link'[k].kind = "DATA"
                 PROVE  link'[k].seq < sent' /\ IsSlice(link'[k], target)
    BY <1>1, <1>2 DEF SingleLink, IsSlice
  <2>2. CASE k = Len(link) + 1
    BY <1>1, <1>2, <1>3, <1>5, <2>2
  <2>3. CASE k # Len(link) + 1
    <3>1. k \in DOMAIN link /\ link'[k] = link[k]
      BY <1>4, <1>5, <1>6, <2>3
    <3>2. link[k].seq < sent /\ IsSlice(link[k], target)
      BY <1>2, <2>1, <3>1 DEF WireInv, Single
    <3>3. link[k].seq \in Nat
      <4>1. link[k] \in Frame
        BY <1>4, <3>1, ElementOfSeq
      <4>2. QED
        BY <4>1 DEF Frame
    <3>4. QED
      BY <1>1, <1>2, <3>1, <3>2, <3>3
  <2>4. QED
    BY <2>2, <2>3
<1>11. SingleRx'
  <2>1. restarts = MaxRestarts => ~rx.last_seen
    BY <1>1 DEF WireInv, Single
  <2>2. QED
    BY <1>1, <2>1 DEF WireInv, Single, SingleRx, NoGap
<1>12. Undisturbed'
  <2>1. SUFFICES ASSUME faults = MaxFaults, restarts = MaxRestarts
                 PROVE  /\ sent' = rx.next_seq + Len(link')
                        /\ \A k \in DOMAIN link' : link'[k] = DataFrame(target, rx.next_seq + k - 1)
    BY <1>1 DEF WireInv, Undisturbed, DataFrame, Slice
  <2>2. /\ sent = rx.next_seq + Len(link) /\ rx.next_seq \in Nat
        /\ \A k \in DOMAIN link : link[k] = DataFrame(target, rx.next_seq + k - 1)
    BY <2>1 DEF WireInv, Undisturbed, RxOK
  <2>3. sent' = rx.next_seq + Len(link')
    BY <1>1, <1>4, <1>5, <2>2
  <2>4. ASSUME NEW k \in DOMAIN link' PROVE link'[k] = DataFrame(target, rx.next_seq + k - 1)
    <3>1. CASE k = Len(link) + 1
      <4>1. rx.next_seq + k - 1 = sent
        BY <1>4, <2>2, <3>1
      <4>2. QED
        BY <1>5, <3>1, <4>1 DEF f
    <3>2. CASE k # Len(link) + 1
      BY <1>4, <1>5, <1>6, <2>2, <3>2
    <3>3. QED
      BY <3>1, <3>2
  <2>5. QED
    BY <2>3, <2>4
<1>13. Single'
  BY <1>10, <1>11 DEF Single, SingleLink, SingleRx
<1>14. QED
  BY <1>7, <1>8, <1>9, <1>12, <1>13 DEF WireInv


(* A transfer that is given up has not sent its last frame. *)
LEMMA AbortStep ==
  ASSUME WireInv, AbortTransfer
  PROVE  WireInv'
<1>1. /\ MoreToSend /\ faults > 0 /\ faults' = faults - 1 /\ target' = <<>>
      /\ UNCHANGED <<sent, link, rx, result, restarts>>
  BY DEF AbortTransfer
<1>2. target # <<>> /\ sent \in Nat /\ sent * MaxPayload < Len(target) /\ Len(target) \in Nat
  BY <1>1, TargetLen DEF WireInv, HostOK, MoreToSend
<1>3. faults' \in 0 .. MaxFaults /\ faults' # MaxFaults
  BY <1>1, WireAssumption DEF WireInv, HostOK
<1>4. LinkOK' /\ RxOK'
  BY <1>1, RxSame DEF WireInv, LinkOK, IsSlice
<1>5. HostOK'
  BY <1>1, <1>3 DEF WireInv, HostOK, Complete
<1>6. Undisturbed'
  BY <1>3 DEF Undisturbed
<1>7. SingleLink'
  <2>1. SUFFICES ASSUME restarts = MaxRestarts, NEW k \in DOMAIN link, link[k].kind = "DATA"
                 PROVE  ~link[k].last
    BY <1>1 DEF SingleLink
  <2>2. link[k].seq < sent /\ IsSlice(link[k], target)
    BY <1>2, <2>1 DEF WireInv, Single
  <2>3. link[k] \in Frame
    BY <2>1, LenProperties, ElementOfSeq DEF WireInv, LinkOK
  <2>4. PICK n \in Nat : link[k].seq = n
    BY <2>3 DEF Frame
  <2>5. n + 1 \in Nat /\ n + 1 <= sent
    BY <1>2, <2>2, <2>4
  <2>6. (n + 1) * MaxPayload <= sent * MaxPayload
    BY <1>2, <2>5, ProductMono
  <2>7. (n + 1) * MaxPayload \in Nat /\ sent * MaxPayload \in Nat
    BY <1>2, <2>5, Product
  <2>8. ~((n + 1) * MaxPayload >= Len(target))
    BY <1>2, <2>6, <2>7
  <2>9. QED
    BY <2>2, <2>4, <2>8 DEF IsSlice
<1>8. SingleRx'
  <2>1. restarts = MaxRestarts => ~rx.last_seen
    BY <1>1 DEF WireInv, Single
  <2>2. QED
    BY <1>1, <2>1 DEF SingleRx
<1>9. Single'
  BY <1>7, <1>8 DEF Single, SingleLink, SingleRx
<1>10. QED
  BY <1>4, <1>5, <1>6, <1>9 DEF WireInv

(* Another transfer on the stream: only what holds of any stream remains. *)
LEMMA StartStep ==
  ASSUME WireInv, NEW img \in WireImages, StartTransfer(img)
  PROVE  WireInv'
<1>1. /\ restarts > 0 /\ restarts' = restarts - 1 /\ target' = img /\ sent' = 0
      /\ UNCHANGED <<link, rx, result, faults>>
  BY DEF StartTransfer
<1>2. restarts' \in 0 .. MaxRestarts /\ restarts' # MaxRestarts
  BY <1>1, WireAssumption DEF WireInv, HostOK
<1>3. LinkOK' /\ RxOK'
  BY <1>1, RxSame DEF WireInv, LinkOK, IsSlice
<1>4. HostOK'
  BY <1>1, <1>2 DEF WireInv, HostOK, Complete
<1>5. Single' /\ Undisturbed'
  BY <1>2 DEF Single, Undisturbed
<1>6. QED
  BY <1>3, <1>4, <1>5 DEF WireInv

-----------------------------------------------------------------------------
(* The receiver. *)

(* The checks of dl_rx_absorb. *)
LEMMA Checks ==
  ASSUME NEW r, NEW f \in Frame
  PROVE  /\ AbsorbError(r, f) \in Codes \cup {"OK"}
         /\ AbsorbError(r, f) = "OK" =>
              /\ f.seq = r.next_seq
              /\ f.kind = "DATA" =>
                   /\ f.image_len \in 1 .. MaxImage
                   /\ r.next_seq # 0 => f.image_len = r.image_len
                   /\ ~(Len(r.image) + Len(f.payload) > f.image_len)
<1>1. AbsorbError(r, f) \in Codes \cup {"OK"}
  BY DEF AbsorbError, Codes
<1>2. AbsorbError(r, f) = "OK" => f.seq = r.next_seq
  BY DEF AbsorbError
<1>3. f.kind = "DATA" /\ AbsorbError(r, f) = "OK" =>
        /\ f.image_len \in 1 .. MaxImage
        /\ r.next_seq # 0 => f.image_len = r.image_len
        /\ ~(Len(r.image) + Len(f.payload) > f.image_len)
  BY DEF AbsorbError
<1>4. QED
  BY <1>1, <1>2, <1>3

(* A slice joins the bytes before it: if nothing is missing after it, nothing
   was missing before it. *)
LEMMA Joins ==
  ASSUME NEW s \in Seq(Bytes), NEW n \in Nat, NEW img \in WireImages,
         n * MaxPayload < Len(img), Len(s) <= n * MaxPayload
  PROVE  LET t == s \o Slice(img, n) IN
         /\ t \in Seq(Bytes)
         /\ Len(t) = Len(s) + Len(Slice(img, n))
         /\ Len(t) <= (n + 1) * MaxPayload
         /\ Len(t) \in {(n + 1) * MaxPayload, Len(img)} =>
              /\ Len(s) = n * MaxPayload
              /\ \A i \in 1 .. Len(t) : t[i] = IF i <= Len(s) THEN s[i] ELSE img[i]
<1> DEFINE d == Slice(img, n)
           t == s \o d
           a == n * MaxPayload
<1>1. /\ d \in Seq(Bytes)
      /\ Len(d) = IF a + MaxPayload > Len(img) THEN Len(img) - a ELSE MaxPayload
      /\ \A k \in 1 .. Len(d) : d[k] = img[a + k]
  BY SliceLen, Product
<1>2. /\ a \in Nat /\ (n + 1) * MaxPayload = a + MaxPayload /\ a < Len(img)
      /\ Len(s) <= a
  BY Product
<1>3. Len(s) \in Nat /\ Len(img) \in Nat /\ MaxPayload \in Nat \ {0}
  BY LenProperties, WireAssumption
<1> HIDE DEF d, a
<1>4. /\ t \in Seq(Bytes) /\ Len(t) = Len(s) + Len(d)
      /\ \A i \in 1 .. Len(s) + Len(d) : t[i] = IF i <= Len(s) THEN s[i] ELSE d[i - Len(s)]
  BY <1>1, ConcatProperties
<1> HIDE DEF t
<1>5. Len(t) <= a + MaxPayload
  BY <1>1, <1>2, <1>3, <1>4
<1>6. ASSUME Len(t) \in {a + MaxPayload, Len(img)}
      PROVE  /\ Len(s) = a
             /\ \A i \in 1 .. Len(t) : t[i] = IF i <= Len(s) THEN s[i] ELSE img[i]
  <2>1. Len(s) = a
    BY <1>1, <1>2, <1>3, <1>4, <1>6
  <2>2. ASSUME NEW i \in 1 .. Len(t), ~(i <= Len(s)) PROVE t[i] = img[i]
    <3>1. i - a \in 1 .. Len(d) /\ a + (i - a) = i
      BY <1>1, <1>2, <1>3, <1>4, <2>1, <2>2
    <3>2. t[i] = d[i - a]
      BY <1>4, <2>1, <2>2
    <3>3. QED
      BY <1>1, <3>1, <3>2
  <2>3. QED
    BY <1>4, <2>1, <2>2
<1>7. QED
  BY <1>2, <1>4, <1>5, <1>6 DEF t, d, a


(* The frame the host pumps is taken from the stream. *)
LEMMA Pumped ==
  ASSUME WireInv, link # <<>>, link' = Tail(link), UNCHANGED <<target, sent, restarts>>
  PROVE  /\ Head(link) \in Frame /\ Head(link) = link[1] /\ 1 \in DOMAIN link
         /\ Len(link) \in Nat /\ Len(link') = Len(link) - 1
         /\ \A k \in DOMAIN link' : k + 1 \in DOMAIN link /\ link'[k] = link[k + 1]
         /\ LinkOK' /\ SingleLink'
<1>1. link \in Seq(Frame) /\ Len(link) \in Nat \ {0} /\ DOMAIN link = 1 .. Len(link)
  BY LenProperties, EmptySeq DEF WireInv, LinkOK
<1>2. /\ Head(link) \in Frame /\ link' \in Seq(Frame) /\ Len(link') = Len(link) - 1
      /\ \A k \in 1 .. Len(link') : link'[k] = link[k + 1]
  BY <1>1, HeadTailProperties
<1>3. DOMAIN link' = 1 .. Len(link) - 1
  BY <1>2, LenProperties
<1>4. \A k \in DOMAIN link' : k + 1 \in DOMAIN link /\ link'[k] = link[k + 1]
  BY <1>1, <1>2, <1>3
<1>5. Head(link) = link[1]
  BY <1>1
<1>6. LinkOK' /\ SingleLink'
  <2>1. \A k \in DOMAIN link' : \E m \in DOMAIN link : Same(link'[k], link[m])
    BY <1>4 DEF Same
  <2>2. QED
    BY <1>2, <2>1, LinkFrom, SingleParts DEF WireInv
<1>7. QED
  BY <1>1, <1>2, <1>4, <1>5, <1>6

(* A receiver that changed nothing but its error. *)
LEMMA RxFailed ==
  ASSUME RxOK, SingleRx, NEW e \in Codes \cup {"OK"}, rx' = Failed(rx, e),
         UNCHANGED <<target, sent, restarts>>
  PROVE  RxOK' /\ SingleRx'
<1>1. /\ rx'.image = rx.image /\ rx'.image_len = rx.image_len /\ rx'.next_seq = rx.next_seq
      /\ rx'.last_seen = rx.last_seen /\ rx'.error = e
  BY DEF Failed
<1>2. rx' \in [image : Seq(Bytes), image_len : 0 .. MaxImage, next_seq : Nat,
               last_seen : BOOLEAN, error : Codes \cup {"OK"}]
  BY DEF RxOK, Failed
<1>3. NoGap' <=> NoGap
  BY <1>1 DEF NoGap
<1>4. QED
  BY <1>1, <1>2, <1>3 DEF RxOK, SingleRx, MoreToSend

(* An absorbed ACK counts as a frame and brings no byte. *)
LEMMA RxAck ==
  ASSUME RxOK, SingleRx, NEW f, f.kind # "DATA", rx' = Absorb(rx, f),
         UNCHANGED <<target, sent, restarts>>
  PROVE  RxOK' /\ SingleRx'
<1>1. /\ rx'.image = rx.image /\ rx'.image_len = rx.image_len
      /\ rx'.next_seq = rx.next_seq + 1
      /\ rx'.last_seen = rx.last_seen /\ rx'.error = rx.error
  BY DEF Absorb
<1>2. rx' \in [image : Seq(Bytes), image_len : 0 .. MaxImage, next_seq : Nat,
               last_seen : BOOLEAN, error : Codes \cup {"OK"}]
  BY DEF RxOK, Absorb
<1>3. PICK n \in Nat : rx.next_seq = n
  BY DEF RxOK
<1>4. n * MaxPayload \in Nat /\ (n + 1) * MaxPayload = n * MaxPayload + MaxPayload
      /\ MaxPayload \in Nat \ {0}
  BY Product, WireAssumption
<1>5. Len(rx.image) \in Nat /\ Len(rx.image) <= n * MaxPayload
  BY <1>3, LenProperties DEF RxOK
<1>6. Len(rx'.image) <= rx'.next_seq * MaxPayload
  BY <1>1, <1>3, <1>4, <1>5
<1>7. NoGap' => NoGap
  BY <1>1, <1>3, <1>4, <1>5 DEF NoGap
<1>8. QED
  BY <1>1, <1>2, <1>6, <1>7 DEF RxOK, SingleRx, MoreToSend

(* An absorbed slice. *)
LEMMA RxData ==
  ASSUME WireInv, NEW f \in Frame, f.kind = "DATA", AbsorbError(rx, f) = "OK",
         rx' = Absorb(rx, f), UNCHANGED <<target, sent, restarts>>,
         \E img \in WireImages : IsSlice(f, img),
         restarts = MaxRestarts =>
           IF target = <<>> THEN ~f.last ELSE f.seq < sent /\ IsSlice(f, target)
  PROVE  RxOK' /\ SingleRx'
<1>1. PICK n \in Nat : rx.next_seq = n
  BY DEF WireInv, RxOK
<1>2. /\ f.seq = n /\ f.image_len \in 1 .. MaxImage
      /\ n # 0 => f.image_len = rx.image_len
      /\ ~(Len(rx.image) + Len(f.payload) > f.image_len)
  BY <1>1, Checks
<1>3. /\ rx'.image = rx.image \o f.payload /\ rx'.image_len = f.image_len
      /\ rx'.next_seq = n + 1 /\ rx'.last_seen = (rx.last_seen \/ f.last)
      /\ rx'.error = rx.error
  BY <1>1, <1>2 DEF Absorb
<1>4. rx.image \in Seq(Bytes) /\ Len(rx.image) \in Nat /\ Len(rx.image) <= n * MaxPayload
      /\ Len(rx.image) <= rx.image_len /\ rx.last_seen \in BOOLEAN
      /\ rx.error \in Codes \cup {"OK"}
  BY <1>1, LenProperties DEF WireInv, RxOK
<1>5. f.last \in BOOLEAN /\ f.payload \in Seq(Bytes) /\ Len(f.payload) \in Nat
  BY LenProperties DEF Frame
<1>6. ASSUME NEW img \in WireImages, IsSlice(f, img)
      PROVE  /\ Len(img) = rx'.image_len
             /\ rx'.image \in Seq(Bytes) /\ Len(rx'.image) = Len(rx.image) + Len(f.payload)
             /\ Len(rx'.image) <= (n + 1) * MaxPayload
             /\ NoGap' => /\ NoGap
                          /\ \A i \in DOMAIN rx'.image :
                               \/ rx'.image[i] = img[i]
                               \/ n # 0 /\ i \in DOMAIN rx.image /\ rx'.image[i] = rx.image[i]
  <2>1. n * MaxPayload < Len(img) /\ f.image_len = Len(img) /\ f.payload = Slice(img, n)
    BY <1>2, <1>6 DEF IsSlice
  <2> DEFINE t == rx.image \o Slice(img, n)
  <2>2. /\ t \in Seq(Bytes)
        /\ Len(t) = Len(rx.image) + Len(Slice(img, n))
        /\ Len(t) <= (n + 1) * MaxPayload
        /\ Len(t) \in {(n + 1) * MaxPayload, Len(img)} =>
             /\ Len(rx.image) = n * MaxPayload
             /\ \A i \in 1 .. Len(t) : t[i] = IF i <= Len(rx.image) THEN rx.image[i] ELSE img[i]
    BY <1>4, <2>1, Joins
  <2>3. rx'.image = t
    BY <1>3, <2>1
  <2> HIDE DEF t
  <2>4. DOMAIN t = 1 .. Len(t) /\ DOMAIN rx.image = 1 .. Len(rx.image)
    BY <1>4, <2>2, LenProperties
  <2>5. ASSUME NoGap'
        PROVE  NoGap /\ \A i \in DOMAIN t :
                 t[i] = img[i] \/ (n # 0 /\ i \in DOMAIN rx.image /\ t[i] = rx.image[i])
    <3>1. Len(t) \in {(n + 1) * MaxPayload, Len(img)}
      BY <1>3, <2>1, <2>3, <2>5 DEF NoGap
    <3>2. NoGap
      BY <1>1, <2>2, <3>1 DEF NoGap
    <3>3. n = 0 => Len(rx.image) = 0
      <4>1. 0 * MaxPayload = 0
        BY WireAssumption
      <4>2. QED
        BY <2>2, <3>1, <4>1
    <3>4. ASSUME NEW i \in 1 .. Len(t), i <= Len(rx.image)
          PROVE  n # 0 /\ i \in DOMAIN rx.image /\ t[i] = rx.image[i]
      BY <1>4, <2>2, <2>4, <3>1, <3>3, <3>4
    <3>5. QED
      BY <2>2, <2>4, <3>1, <3>2, <3>4
  <2>6. QED
    BY <1>3, <2>1, <2>2, <2>3, <2>5
<1>7. RxOK'
  <2>1. PICK img \in WireImages : IsSlice(f, img)
    OBVIOUS
  <2>2. rx' \in [image : Seq(Bytes), image_len : 0 .. MaxImage, next_seq : Nat,
                 last_seen : BOOLEAN, error : Codes \cup {"OK"}]
    <3>1. rx' = [image |-> rx'.image, image_len |-> rx'.image_len, next_seq |-> rx'.next_seq,
                 last_seen |-> rx'.last_seen, error |-> rx'.error]
      BY DEF Absorb
    <3>2. rx'.image \in Seq(Bytes) /\ rx'.image_len \in 0 .. MaxImage
      <4>1. rx'.image \in Seq(Bytes)
        BY <1>6, <2>1
      <4>2. \A k \in 1 .. MaxImage : k \in 0 .. MaxImage
        BY WireAssumption
      <4>3. QED
        BY <1>2, <1>3, <4>1, <4>2
    <3>3. rx'.next_seq \in Nat /\ rx'.error \in Codes \cup {"OK"}
      BY <1>3, <1>4
    <3>4. rx'.last_seen \in BOOLEAN
      BY <1>3, <1>4, <1>5
    <3>5. QED
      BY <3>1, <3>2, <3>3, <3>4
  <2>3. Len(rx'.image) <= rx'.image_len
    <3>1. Len(rx'.image) = Len(rx.image) + Len(f.payload)
      BY <1>6, <2>1
    <3>2. rx'.image_len = f.image_len /\ f.image_len \in Nat
      BY <1>3 DEF Frame
    <3>3. \A a, b, c \in Nat : ~(a + b > c) => a + b <= c
      OBVIOUS
    <3>4. Len(rx.image) + Len(f.payload) <= f.image_len
      BY <1>2, <1>4, <1>5, <3>2, <3>3
    <3>5. QED
      BY <3>1, <3>2, <3>4
  <2>4. Len(rx'.image) <= rx'.next_seq * MaxPayload
    BY <1>3, <1>6, <2>1
  <2>5. ASSUME NoGap', NEW i \in DOMAIN rx'.image
        PROVE  \E g \in WireImages : Len(g) = rx'.image_len /\ rx'.image[i] = g[i]
    <3>1. CASE rx'.image[i] = img[i]
      BY <1>6, <2>1, <3>1
    <3>2. CASE n # 0 /\ i \in DOMAIN rx.image /\ rx'.image[i] = rx.image[i]
      <4>1. NoGap
        BY <1>6, <2>1, <2>5
      <4>2. PICK g \in WireImages : Len(g) = rx.image_len /\ rx.image[i] = g[i]
        BY <3>2, <4>1 DEF WireInv, RxOK
      <4>3. QED
        BY <1>2, <1>3, <3>2, <4>2
    <3>3. QED
      BY <1>6, <2>1, <2>5, <3>1, <3>2
  <2>6. QED
    BY <2>2, <2>3, <2>4, <2>5 DEF RxOK
<1>8. SingleRx'
  <2>1. SUFFICES ASSUME restarts = MaxRestarts
                 PROVE  /\ rx'.last_seen => target # <<>> /\ ~MoreToSend
                        /\ target # <<>> =>
                             /\ rx'.image_len \in {0, Len(target)}
                             /\ NoGap' => \A i \in DOMAIN rx'.image : rx'.image[i] = target[i]
    BY DEF SingleRx, MoreToSend
  <2>2. /\ rx.last_seen => target # <<>> /\ ~MoreToSend
        /\ target # <<>> /\ NoGap => \A i \in DOMAIN rx.image : rx.image[i] = target[i]
    BY <2>1 DEF WireInv, Single
  <2>3. f.last => target # <<>> /\ ~MoreToSend
    <3>1. SUFFICES ASSUME f.last, target # <<>> PROVE ~MoreToSend
      BY <2>1
    <3>2. n < sent /\ IsSlice(f, target) /\ sent \in Nat /\ Len(target) \in Nat
      BY <1>2, <2>1, <3>1, TargetLen DEF WireInv, HostOK
    <3>3. (n + 1) * MaxPayload >= Len(target)
      BY <1>2, <3>1, <3>2 DEF IsSlice
    <3>4. n + 1 \in Nat /\ n + 1 <= sent
      BY <3>2
    <3>5. (n + 1) * MaxPayload <= sent * MaxPayload
      BY <3>2, <3>4, ProductMono
    <3>6. (n + 1) * MaxPayload \in Nat /\ sent * MaxPayload \in Nat
      BY <3>2, <3>4, Product
    <3>7. ~(sent * MaxPayload < Len(target))
      BY <3>2, <3>3, <3>5, <3>6
    <3>8. QED
      BY <3>7 DEF MoreToSend
  <2>4. ASSUME target # <<>>
        PROVE  /\ rx'.image_len = Len(target)
               /\ NoGap' => \A i \in DOMAIN rx'.image : rx'.image[i] = target[i]
    <3>1. target \in WireImages /\ IsSlice(f, target)
      BY <2>1, <2>4, TargetLen DEF WireInv
    <3>2. QED
      BY <1>6, <2>2, <2>4, <3>1
  <2>5. QED
    BY <1>3, <2>2, <2>3, <2>4
<1>9. QED
  BY <1>7, <1>8


(* What the stream is without a fault, when the host has pumped a frame. *)
LEMMA UndisturbedPump ==
  ASSUME WireInv, PumpFrame, faults = MaxFaults, restarts = MaxRestarts
  PROVE  /\ rx' = Absorb(rx, Head(link)) /\ Head(link).kind = "DATA"
         /\ Undisturbed'
<1>1. /\ link # <<>> /\ link' = Tail(link) /\ rx.error = "OK" /\ result = "none"
      /\ rx' = Pump(rx, Head(link))
      /\ UNCHANGED <<target, sent, result, faults, restarts>>
  BY DEF PumpFrame
<1>2. /\ Head(link) = link[1] /\ 1 \in DOMAIN link
      /\ Len(link) \in Nat \ {0} /\ Len(link') = Len(link) - 1
      /\ \A k \in DOMAIN link' : k + 1 \in DOMAIN link /\ link'[k] = link[k + 1]
      /\ DOMAIN link' = 1 .. Len(link')
  <2>1. Len(link) \in Nat \ {0} /\ link' \in Seq(Frame)
    BY <1>1, LenProperties, EmptySeq, HeadTailProperties DEF WireInv, LinkOK
  <2>2. DOMAIN link' = 1 .. Len(link')
    BY <2>1, LenProperties
  <2>3. QED
    BY <1>1, <2>1, <2>2, Pumped
<1>3. /\ target # <<>> /\ sent = rx.next_seq + Len(link)
      /\ \A k \in DOMAIN link : link[k] = DataFrame(target, rx.next_seq + k - 1)
      /\ Len(rx.image) = IF rx.next_seq * MaxPayload > Len(target)
                         THEN Len(target) ELSE rx.next_seq * MaxPayload
      /\ rx.next_seq > 0 => rx.image_len = Len(target)
      /\ rx.last_seen <=> rx.next_seq * MaxPayload >= Len(target)
  BY DEF WireInv, Undisturbed
<1>4. PICK n \in Nat : rx.next_seq = n
  BY DEF WireInv, RxOK
<1> DEFINE f == Head(link)
           L == Len(target)
<1>5. target \in WireImages /\ L \in 1 .. MaxImage /\ L \in Nat
  BY <1>3, TargetLen, WireAssumption DEF WireInv
<1>6. f = DataFrame(target, n)
  <2>1. rx.next_seq + 1 - 1 = n
    BY <1>4
  <2>2. QED
    BY <1>2, <1>3, <2>1
<1>7. f.kind = "DATA" /\ f.damage = "none" /\ f.seq = n /\ f.image_len = L
      /\ f.payload = Slice(target, n) /\ f.last = ((n + 1) * MaxPayload >= L)
  BY <1>6 DEF DataFrame
<1>8. /\ n * MaxPayload \in Nat /\ (n + 1) * MaxPayload = n * MaxPayload + MaxPayload
      /\ MaxPayload \in Nat \ {0}
  BY Product, WireAssumption
<1>9. n * MaxPayload < L
  <2>1. IsSlice(f, target)
    BY <1>2, <1>3, <1>7 DEF WireInv, Single
  <2>2. QED
    BY <1>7, <2>1 DEF IsSlice
<1>10. Len(rx.image) = n * MaxPayload /\ ~rx.last_seen
  BY <1>3, <1>4, <1>5, <1>8, <1>9
<1>11. Len(Slice(target, n)) = IF (n + 1) * MaxPayload > L
                               THEN L - n * MaxPayload ELSE MaxPayload
  BY <1>5, <1>9, SliceLen
<1> HIDE DEF f, L
<1>12. Len(rx.image) + Len(f.payload) = IF (n + 1) * MaxPayload > L THEN L
                                        ELSE (n + 1) * MaxPayload
  BY <1>5, <1>7, <1>8, <1>9, <1>10, <1>11
<1>13. ~(Len(rx.image) + Len(f.payload) > f.image_len)
  BY <1>5, <1>7, <1>8, <1>12
<1>14. n # 0 => f.image_len = rx.image_len
  BY <1>3, <1>4, <1>7 DEF L
<1>15. AbsorbError(rx, f) = "OK"
  BY <1>4, <1>5, <1>7, <1>13, <1>14 DEF AbsorbError
<1>16. rx' = Absorb(rx, f)
  BY <1>1, <1>15 DEF Pump, f
<1>17. /\ rx'.image = rx.image \o f.payload /\ rx'.image_len = L
       /\ rx'.next_seq = n + 1 /\ rx'.last_seen = (rx.last_seen \/ f.last)
       /\ rx'.error = "OK"
  BY <1>1, <1>4, <1>7, <1>14, <1>16 DEF Absorb
<1>18. Len(rx'.image) = Len(rx.image) + Len(f.payload)
  <2>1. rx.image \in Seq(Bytes) /\ Slice(target, n) \in Seq(Bytes)
    BY <1>5, <1>9, SliceLen DEF WireInv, RxOK, L
  <2>2. QED
    BY <1>7, <1>17, <2>1, ConcatProperties
<1>19. sent' = rx'.next_seq + Len(link')
  BY <1>1, <1>2, <1>3, <1>4, <1>17
<1>20. ASSUME NEW k \in DOMAIN link'
       PROVE  link'[k] = DataFrame(target, rx'.next_seq + k - 1)
  <2>1. link'[k] = DataFrame(target, rx.next_seq + (k + 1) - 1)
    BY <1>2, <1>3
  <2>2. Len(link') \in Nat /\ k \in 1 .. Len(link')
    BY <1>2
  <2>3. rx.next_seq + (k + 1) - 1 = rx'.next_seq + k - 1
    BY <1>4, <1>17, <2>2
  <2>4. QED
    BY <2>1, <2>3
<1>21. rx'.last_seen <=> rx'.next_seq * MaxPayload >= L
  BY <1>7, <1>10, <1>17
<1>22. Undisturbed'
  <2>1. target' = target /\ Len(target') = L
    BY <1>1 DEF L
  <2>2. \A k \in DOMAIN link' : link'[k] = DataFrame(target, rx.next_seq + k - 1)'
    BY <1>1, <1>20 DEF DataFrame, Slice
  <2>3. Len(rx'.image) = IF rx'.next_seq * MaxPayload > L THEN L
                         ELSE rx'.next_seq * MaxPayload
    BY <1>12, <1>17, <1>18
  <2>4. QED
    BY <1>1, <1>3, <1>17, <1>19, <1>21, <2>1, <2>2, <2>3 DEF Undisturbed
<1>23. QED
  BY <1>7, <1>16, <1>22 DEF f

(* The host pumps one frame. *)
LEMMA PumpStep ==
  ASSUME WireInv, PumpFrame
  PROVE  WireInv'
<1> DEFINE f == Head(link)
<1>1. /\ link # <<>> /\ link' = Tail(link) /\ rx.error = "OK" /\ result = "none"
      /\ rx' = Pump(rx, f)
      /\ UNCHANGED <<target, sent, result, faults, restarts>>
  BY DEF PumpFrame
<1>2. f \in Frame /\ f = link[1] /\ 1 \in DOMAIN link /\ LinkOK' /\ SingleLink'
  BY <1>1, Pumped
<1>3. HostOK'
  BY <1>1 DEF WireInv, HostOK
<1>4. Undisturbed'
  <2>1. CASE faults = MaxFaults /\ restarts = MaxRestarts
    BY <2>1, UndisturbedPump
  <2>2. CASE ~(faults = MaxFaults /\ restarts = MaxRestarts)
    BY <1>1, <2>2 DEF Undisturbed
  <2>3. QED
    BY <2>1, <2>2
<1> HIDE DEF f
<1>5. RxOK' /\ SingleRx'
  <2>1. RxOK /\ SingleRx
    BY SingleParts DEF WireInv
  <2>2. AbsorbError(rx, f) \in Codes \cup {"OK"}
    BY <1>2, Checks
  <2>3. CASE AbsorbError(rx, f) # "OK"
    <3>1. rx' = Failed(rx, AbsorbError(rx, f))
      BY <1>1, <2>3 DEF Pump
    <3>2. PICK e \in Codes \cup {"OK"} : rx' = Failed(rx, e)
      BY <2>2, <3>1
    <3>3. QED
      BY <1>1, <2>1, <3>2, RxFailed
  <2>4. CASE AbsorbError(rx, f) = "OK" /\ f.kind # "DATA"
    <3>1. rx' = Absorb(rx, f)
      BY <1>1, <2>4 DEF Pump
    <3>2. QED
      BY <1>1, <2>1, <2>4, <3>1, RxAck
  <2>5. CASE AbsorbError(rx, f) = "OK" /\ f.kind = "DATA"
    <3>1. rx' = Absorb(rx, f)
      BY <1>1, <2>5 DEF Pump
    <3>2. \E img \in WireImages : IsSlice(f, img)
      BY <1>2, <2>5 DEF WireInv, LinkOK
    <3>3. restarts = MaxRestarts =>
            IF target = <<>> THEN ~f.last ELSE f.seq < sent /\ IsSlice(f, target)
      BY <1>2, <2>5 DEF WireInv, Single
    <3>4. QED
      BY <1>1, <1>2, <2>5, <3>1, <3>2, <3>3, RxData
  <2>6. QED
    BY <2>3, <2>4, <2>5
<1>6. Single'
  BY <1>2, <1>5 DEF Single, SingleLink, SingleRx
<1>7. QED
  BY <1>2, <1>3, <1>4, <1>5, <1>6 DEF WireInv


(* Frames that come after a refusal are thrown away. *)
LEMMA PumpFailedStep ==
  ASSUME WireInv, PumpFailed
  PROVE  WireInv'
<1>1. /\ link # <<>> /\ link' = Tail(link) /\ rx.error # "OK" /\ result = "none"
      /\ UNCHANGED <<target, sent, rx, result, faults, restarts>>
  BY DEF PumpFailed, Pump
<1>2. LinkOK' /\ SingleLink'
  BY <1>1, Pumped
<1>3. RxOK' /\ SingleRx'
  BY <1>1, RxSame, SingleRxSame, SingleParts DEF WireInv
<1>4. HostOK'
  BY <1>1 DEF WireInv, HostOK
<1>5. ~(faults = MaxFaults /\ restarts = MaxRestarts)
  BY <1>1 DEF WireInv, Undisturbed
<1>6. Undisturbed'
  BY <1>1, <1>5 DEF Undisturbed
<1>7. Single'
  BY <1>2, <1>3 DEF Single, SingleLink, SingleRx
<1>8. QED
  BY <1>2, <1>3, <1>4, <1>6, <1>7 DEF WireInv

(* A stream that nothing disturbed ends with the image. *)
LEMMA UndisturbedEnds ==
  ASSUME WireInv, faults = MaxFaults, restarts = MaxRestarts, link = <<>>, ~MoreToSend
  PROVE  Complete(rx)
<1>1. /\ target # <<>> /\ sent = rx.next_seq + Len(link)
      /\ Len(rx.image) = IF rx.next_seq * MaxPayload > Len(target)
                         THEN Len(target) ELSE rx.next_seq * MaxPayload
      /\ rx.next_seq > 0 => rx.image_len = Len(target)
      /\ rx.last_seen <=> rx.next_seq * MaxPayload >= Len(target)
  BY DEF WireInv, Undisturbed
<1>2. PICK n \in Nat : rx.next_seq = n
  BY DEF WireInv, RxOK
<1>3. Len(link) = 0
  OBVIOUS
<1>4. sent = n
  BY <1>1, <1>2, <1>3
<1>5. Len(target) \in Nat /\ Len(target) >= 1 /\ n * MaxPayload \in Nat
  BY <1>1, TargetLen, Product DEF WireInv
<1>6. n * MaxPayload >= Len(target)
  BY <1>1, <1>4, <1>5 DEF MoreToSend
<1>7. n > 0
  <2>1. 0 * MaxPayload = 0
    BY WireAssumption
  <2>2. QED
    BY <1>5, <1>6, <2>1
<1>8. Len(rx.image) = Len(target) /\ rx.image_len = Len(target) /\ rx.last_seen
  BY <1>1, <1>2, <1>5, <1>6, <1>7
<1>9. QED
  BY <1>5, <1>8 DEF Complete

(* The verdict of dl_rx_finish. *)
LEMMA FinishStep ==
  ASSUME WireInv, Finish
  PROVE  WireInv'
<1>1. /\ Complete(rx) \/ rx.error # "OK" \/ (link = <<>> /\ ~MoreToSend)
      /\ result' = FinishCode(rx)
      /\ UNCHANGED <<target, sent, link, rx, faults, restarts>>
  BY DEF Finish
<1>2. LinkOK' /\ RxOK' /\ Single'
  BY <1>1, RxSame DEF WireInv, LinkOK, IsSlice, Single, NoGap, MoreToSend
<1>3. rx.error \in Codes \cup {"OK"}
  BY DEF WireInv, RxOK
<1>4. /\ result' \in Codes \cup {"none", "ok", "INCOMPLETE"}
      /\ result' = "ok" => Complete(rx)
      /\ rx.error = "OK" /\ Complete(rx) => result' = "ok"
  BY <1>1, <1>3 DEF FinishCode, Codes
<1>5. HostOK'
  BY <1>1, <1>4 DEF WireInv, HostOK, Complete
<1>6. Undisturbed'
  <2>1. CASE faults = MaxFaults /\ restarts = MaxRestarts
    <3>1. rx.error = "OK"
      BY <2>1 DEF WireInv, Undisturbed
    <3>2. Complete(rx)
      BY <1>1, <2>1, <3>1, UndisturbedEnds
    <3>3. result' = "ok"
      BY <1>4, <3>1, <3>2
    <3>4. QED
      BY <1>1, <2>1, <3>3 DEF WireInv, Undisturbed, DataFrame, Slice
  <2>2. CASE ~(faults = MaxFaults /\ restarts = MaxRestarts)
    BY <1>1, <2>2 DEF Undisturbed
  <2>3. QED
    BY <2>1, <2>2
<1>7. QED
  BY <1>2, <1>5, <1>6 DEF WireInv

-----------------------------------------------------------------------------
(* The results. *)

LEMMA WireInitInv ==
  ASSUME WireInit
  PROVE  WireInv
<1>1. /\ target \in WireImages /\ sent = 0 /\ link = <<>> /\ rx = EmptyRx
      /\ result = "none" /\ faults = MaxFaults /\ restarts = MaxRestarts
  BY DEF WireInit
<1>2. /\ MaxFaults \in Nat /\ MaxRestarts \in Nat /\ MaxImage \in Nat
      /\ MaxPayload \in Nat \ {0} /\ 0 * MaxPayload = 0
      /\ Len(target) \in Nat /\ Len(target) >= 1 /\ target \in Seq(Bytes)
  BY <1>1, WireAssumption
<1>3. /\ rx.image = <<>> /\ rx.image_len = 0 /\ rx.next_seq = 0 /\ rx.last_seen = FALSE
      /\ rx.error = "OK"
  BY <1>1 DEF EmptyRx
<1>4. <<>> \in Seq(Bytes) /\ <<>> \in Seq(Frame) /\ Len(rx.image) = 0 /\ Len(link) = 0
      /\ DOMAIN rx.image = {} /\ DOMAIN link = {}
  BY <1>1, <1>3, EmptySeq
<1>5. LinkOK
  BY <1>1, <1>4 DEF LinkOK
<1>6. RxOK
  <2>1. rx \in [image : Seq(Bytes), image_len : 0 .. MaxImage, next_seq : Nat,
                last_seen : BOOLEAN, error : Codes \cup {"OK"}]
    BY <1>1, <1>2, <1>4 DEF EmptyRx
  <2>2. QED
    BY <1>2, <1>3, <1>4, <2>1 DEF RxOK
<1>7. HostOK
  BY <1>1, <1>2 DEF HostOK
<1>8. target # <<>>
  BY <1>2
<1>9. Single
  BY <1>3, <1>4 DEF Single
<1>10. Undisturbed
  BY <1>1, <1>2, <1>3, <1>4, <1>8 DEF Undisturbed
<1>11. QED
  BY <1>5, <1>6, <1>7, <1>9, <1>10 DEF WireInv

LEMMA WireNextInv ==
  ASSUME WireInv, [WireNext]_wireVars
  PROVE  WireInv'
<1>1. ASSUME UNCHANGED wireVars PROVE WireInv'
  BY <1>1, RxSame DEF wireVars, WireInv, LinkOK, IsSlice, HostOK, Complete, Single, NoGap,
                      MoreToSend, Undisturbed, DataFrame, Slice
<1>2. CASE SendFrame
  BY <1>2, SendFrameStep
<1>3. CASE AbortTransfer
  BY <1>3, AbortStep
<1>4. CASE \E img \in WireImages : StartTransfer(img)
  BY <1>4, StartStep
<1>5. CASE \E i \in DOMAIN link : Drop(i) \/ Duplicate(i) \/ Reorder(i)
  BY <1>5, StreamStep
<1>6. CASE \E i \in DOMAIN link, how \in {"magic", "len", "hmac", "crc"} : Damage(i, how)
  BY <1>6, StreamStep
<1>7. CASE \E kind \in {"ACK", "ERR"} : Intrude(kind)
  BY <1>7, IntrudeStep
<1>8. CASE PumpFrame
  BY <1>8, PumpStep
<1>9. CASE PumpFailed
  BY <1>9, PumpFailedStep
<1>10. CASE Finish
  BY <1>10, FinishStep
<1>11. QED
  BY <1>1, <1>2, <1>3, <1>4, <1>5, <1>6, <1>7, <1>8, <1>9, <1>10 DEF WireNext

(* The stream carries slices, whole or damaged; what the receiver holds is   *)
(* in place unless a slice is missing; with one transfer it is that image's; *)
(* without a fault stream and receiver make up what was sent                 *)
(* (dl_tx_image, dl_rx_absorb).                                              *)
THEOREM WireInvariant == WireSpec => []WireInv
BY WireInitInv, WireNextInv, PTL DEF WireSpec

(* The receiver's fields keep their types and it never holds more bytes than *)
(* its first frame announced (dl_rx_absorb).                                 *)
THEOREM WireTypes == WireSpec => []WireTypeOK
<1>1. WireInv => WireTypeOK
  BY DEF WireInv, RxOK, HostOK, WireTypeOK
<1>2. QED
  BY <1>1, WireInvariant, PTL

LEMMA CompleteHasNoGap ==
  ASSUME WireInv, result = "ok"
  PROVE  NoGap /\ rx.last_seen /\ Len(rx.image) = rx.image_len /\ rx.image_len > 0
BY DEF WireInv, HostOK, Complete, NoGap

(* With one transfer on the stream, an image dl_rx_finish hands over is the  *)
(* whole of the image dl_tx_image sent, whatever became of its frames, for   *)
(* any image, payload size and number of faults.                             *)
THEOREM WholeImageOrNone == WireSpec => []FinishedWhole
<1>1. WireInv => FinishedWhole
  <2>1. SUFFICES ASSUME WireInv, result = "ok", restarts = MaxRestarts PROVE rx.image = target
    BY DEF FinishedWhole
  <2>2. NoGap /\ rx.last_seen /\ Len(rx.image) = rx.image_len /\ rx.image_len > 0
    BY <2>1, CompleteHasNoGap
  <2>3. /\ target # <<>> /\ rx.image_len \in {0, Len(target)}
        /\ \A i \in DOMAIN rx.image : rx.image[i] = target[i]
    BY <2>1, <2>2 DEF WireInv, Single
  <2>4. target \in Seq(Bytes) /\ rx.image \in Seq(Bytes) /\ Len(rx.image) = Len(target)
    BY <2>1, <2>2, <2>3, TargetLen DEF WireInv, RxOK
  <2>5. DOMAIN rx.image = 1 .. Len(rx.image)
    BY <2>4, LenProperties
  <2>6. QED
    BY <2>3, <2>4, <2>5, SeqEqual
<1>2. QED
  BY <1>1, WireInvariant, PTL

(* Every byte handed over stands where it stood in an image of the announced *)
(* length, however many transfers met on the stream, and without a fault no  *)
(* transfer is refused or cut short (dl_rx_absorb, dl_rx_finish).            *)
THEOREM TransferIsSound == WireSpec => []TransferSound
<1>1. WireInv => SlicesInPlace
  <2>1. SUFFICES ASSUME WireInv, result = "ok" PROVE SlicesInPlace
    BY DEF SlicesInPlace
  <2>2. QED
    BY <2>1, CompleteHasNoGap DEF WireInv, RxOK, SlicesInPlace
<1>2. WireInv => FaultFreeArrives
  BY DEF WireInv, Undisturbed, FaultFreeArrives
<1>3. WireInv => TransferSound
  BY <1>1, <1>2 DEF TransferSound
<1>4. QED
  BY <1>3, WireInvariant, PTL
=============================================================================
